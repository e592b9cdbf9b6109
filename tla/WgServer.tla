------------------------------ MODULE WgServer ------------------------------
(***************************************************************************)
(* A WireGuard server and one of its peers: the protocol timers            *)
(* (src/src/wg/timers.rs, Handler::poll_timers), the packets staged for    *)
(* want of a session, and the endpoint (src/src/wg/server.rs).             *)
(*                                                                         *)
(* The maintenance thread runs the timers, and so does a thread that sends *)
(* and finds no session; readers process what arrives; an operator adds,   *)
(* removes and connects the peer.  A step is what one lock covers.         *)
(*                                                                         *)
(* Time is counted in REKEY_TIMEOUTs, by how long ago each thing happened: *)
(* no bound on the clock.  The keypair tables are WgHandler's; a session   *)
(* here is the age of its current keypair and whether a next one waits.    *)
(***************************************************************************)
EXTENDS Integers, Sequences, FiniteSets, SequencesExt

CONSTANTS
    Readers,                \* threads that process packets
    Maint, App, Operator,   \* the maintenance thread, a sender, the owner
    MAX_TIMER_HANDSHAKES,
    KEEPALIVE_TIMEOUT,
    MAX_STAGED_PACKETS,
    Scopes                  \* bounds: how often what happens, and the setup

Events == {"sends", "connects", "ages", "losses", "restarts", "leaves", "peerSends",
           "peerInits", "removes", "adds", "expiries", "allows", "closes"}

ASSUME ServerAssumption ==
    /\ {MAX_TIMER_HANDSHAKES, KEEPALIVE_TIMEOUT, MAX_STAGED_PACKETS} \subseteq Nat \ {0}
    /\ Maint \notin Readers /\ App \notin Readers /\ Operator \notin Readers
    /\ Maint # App /\ App # Operator /\ Operator # Maint
    /\ \A s \in Scopes : /\ DOMAIN s = Events \cup {"persistent", "readers"}
                         /\ \A e \in Events : s[e] \in Nat
                         /\ s.persistent \in Nat /\ s.readers \subseteq Readers

Threads == Readers \cup {Maint, App, Operator}
Timed   == {Maint, App}

VARIABLES
    peer,       \* the peer's table entry
    timers,     \* PeerTimers, of that entry
    session,    \* the age of its current keypair, who began it; a next one
    pending,    \* an initiation of ours waits for its response
    staged,     \* Staged
    endpoint,   \* whether peer_addrs has the peer
    done,       \* the server is closed
    thread,     \* where each thread is
    net,        \* packets on their way to the peer, and to us
    remote,     \* the peer: whether it is there, whether it has a session
    left,       \* what may still happen
    recent      \* history: initiations the timers decided on in this interval

handlerVars == <<peer, timers, session, pending>>
heldVars    == <<staged, endpoint, done>>
worldVars   == <<net, remote, left, recent>>
serverVars  == <<handlerVars, heldVars, thread, worldVars>>

REKEY_TIMEOUT == 1
Never == -1

-----------------------------------------------------------------------------
(* PeerTimers.  Zero or more says how long ago, up to where it matters.    *)

Fresh ==
    [trying |-> FALSE, attempts |-> 0, initiated |-> REKEY_TIMEOUT, want |-> FALSE,
     keepalive |-> Never, reply |-> Never, sent |-> Never]

InitiationSent(t) ==
    [t EXCEPT !.trying = TRUE, !.attempts = IF t.trying THEN @ ELSE 0,
              !.initiated = 0, !.sent = 0, !.want = FALSE]

HandshakeComplete(t) ==
    [t EXCEPT !.trying = FALSE, !.attempts = 0, !.want = FALSE, !.reply = Never]

Since(at) == IF at = Never THEN 0 ELSE at

PacketSent(t, data) ==
    [t EXCEPT !.sent = 0, !.keepalive = Never, !.reply = IF data THEN Since(@) ELSE @]

PacketReceived(t, data) ==
    [t EXCEPT !.reply = Never, !.keepalive = IF data THEN Since(@) ELSE @]

GaveUp(t) ==
    [t EXCEPT !.trying = FALSE, !.want = FALSE, !.reply = Never, !.keepalive = Never]

REPLY_TIMEOUT == KEEPALIVE_TIMEOUT + REKEY_TIMEOUT

(* handshake_due.                                                          *)
Retry(t) ==
    IF t.initiated < REKEY_TIMEOUT THEN [due |-> "no", timers |-> t]
    ELSE IF t.attempts > MAX_TIMER_HANDSHAKES THEN [due |-> "failed", timers |-> GaveUp(t)]
    ELSE [due |-> "yes", timers |-> [t EXCEPT !.attempts = @ + 1]]

Begin(t) ==
    LET want == t.want \/ t.reply >= REPLY_TIMEOUT
    IN  [due |-> IF want /\ t.initiated >= REKEY_TIMEOUT THEN "yes" ELSE "no",
         timers |-> [t EXCEPT !.want = want]]

HandshakeDue(t) == IF t.trying THEN Retry(t) ELSE Begin(t)

(* Mutant of Claimed: the initiation is recorded once it has been built.   *)
ClaimedLater(t) == HandshakeDue(t)

(* An initiation is claimed where it is decided.                           *)
Claimed(t) ==
    LET d == HandshakeDue(t)
    IN  IF d.due = "yes" THEN [d EXCEPT !.timers = InitiationSent(@)] ELSE d

KeepaliveDue(t, persistent) ==
    \/ t.keepalive >= KEEPALIVE_TIMEOUT
    \/ persistent > 0 /\ (t.sent = Never \/ t.sent >= persistent)

Later(at, limit) == IF at = Never \/ at >= limit THEN at ELSE at + 1

OneLater(t, persistent) ==
    [t EXCEPT !.initiated = Later(@, REKEY_TIMEOUT),
              !.keepalive = Later(@, KEEPALIVE_TIMEOUT),
              !.reply = Later(@, REPLY_TIMEOUT),
              !.sent = Later(@, persistent)]

-----------------------------------------------------------------------------
(* The handler's state.                                                    *)

NoSession == [age |-> "none", initiator |-> FALSE, next |-> FALSE]

Known      == peer # "absent"
Authorized == peer = "known"
HasSession == Authorized /\ session.age # "none"

(* with_timers.                                                            *)
WithTimers(t) == timers' = IF Known THEN t ELSE timers

(* encrypt, when it can: the initiator rekeys once the keypair has aged.   *)
Encrypted(data) ==
    LET t == PacketSent(timers, data)
    IN  [t EXCEPT !.want = @ \/ (session.initiator /\ session.age \in {"aged", "old"})]

(* encrypt, when it cannot: a handshake is asked for.                      *)
Wanted == IF Authorized THEN [timers EXCEPT !.want = TRUE] ELSE timers

Idle == [at |-> "idle", due |-> "no", keepalive |-> FALSE, own |-> FALSE, out |-> {},
         held |-> <<>>, sees |-> <<>>]

At(th, place) == thread[th].at = place
Goes(th, place) == thread' = [thread EXCEPT ![th].at = place]

(* The read loop ends where it finds the server closed.                    *)
Loop(r) == IF done /\ r \in Readers THEN [Idle EXCEPT !.at = "gone"] ELSE Idle

Rests(th) == thread' = [thread EXCEPT ![th] = Loop(th)]

Transmit(packets) ==
    net' = IF remote.there THEN [net EXCEPT !.peer = @ \cup packets] ELSE net

Happens(e) == left[e] > 0 /\ left' = [left EXCEPT ![e] = @ - 1]

ServerInit ==
    /\ left \in Scopes
    /\ peer = "known" /\ timers = Fresh /\ session = NoSession /\ pending = FALSE
    /\ staged = <<>> /\ endpoint = TRUE /\ done = FALSE
    /\ thread = [th \in Threads |-> Idle]
    /\ net = [peer |-> {}, us |-> {}]
    /\ remote = [there |-> TRUE, has |-> FALSE]
    /\ recent = 0

-----------------------------------------------------------------------------
(* Staged.                                                                 *)

(* The oldest goes when there is no room.                                  *)
Push(queue, n) ==
    (IF Len(queue) >= MAX_STAGED_PACKETS THEN Tail(queue) ELSE queue) \o <<n>>

(* Ahead of what was staged meanwhile, the newest first for what room      *)
(* there is.                                                               *)
PutBack(queue, older) ==
    LET room == MAX_STAGED_PACKETS - Len(queue)
    IN  SubSeq(older, IF Len(older) > room THEN Len(older) - room + 1 ELSE 1, Len(older))
            \o queue

-----------------------------------------------------------------------------
(* run_timers, by the maintenance thread or by a sender.                   *)

(* A poll that would change nothing is not taken.                          *)
PollWorks ==
    \/ staged # <<>> /\ ~Authorized
    \/ Known /\ (Claimed(timers).timers # timers \/ KeepaliveDue(timers, left.persistent))

RunTimers ==
    /\ At(Maint, "idle") /\ ~done /\ PollWorks
    /\ Goes(Maint, "prune")
    /\ UNCHANGED <<handlerVars, heldVars, worldVars>>

(* prune_staged: what is staged for a peer none would shake hands with.    *)
PruneStaged(th) ==
    /\ At(th, "prune")
    /\ Goes(th, IF staged # <<>> /\ ~Authorized THEN "drop" ELSE "poll")
    /\ UNCHANGED <<handlerVars, heldVars, worldVars>>

DropStaged(th) ==
    /\ At(th, "drop")
    /\ staged' = <<>>
    /\ Goes(th, "poll")
    /\ UNCHANGED <<handlerVars, endpoint, done, worldVars>>

(* poll_timers_at, under the timers lock.                                  *)
Poll(th) ==
    LET d == Claimed(timers)
        k == KeepaliveDue(d.timers, left.persistent)
    IN  /\ At(th, "poll")
        /\ IF ~Known THEN Rests(th) /\ UNCHANGED timers
           ELSE /\ timers' = d.timers
                /\ thread' = [thread EXCEPT ![th] =
                    IF d.due = "no" /\ ~k THEN Idle
                    ELSE [Idle EXCEPT !.at = IF d.due = "yes" THEN "build" ELSE "keepalive",
                                      !.due = d.due, !.keepalive = k]]
        /\ recent' = IF Known /\ d.due = "yes" THEN recent + 1 ELSE recent
        /\ UNCHANGED <<peer, session, pending, heldVars, net, remote, left>>

(* initiate_handshake_at: whether the peer is authorized is seen first,    *)
(* the table written last.                                                 *)
BuildInitiation(th) ==
    /\ At(th, "build")
    /\ thread' = [thread EXCEPT ![th] =
            IF Authorized THEN [@ EXCEPT !.at = "insert"]
            ELSE IF @.own THEN Idle ELSE [@ EXCEPT !.at = "keepalive", !.due = "failed"]]
    /\ UNCHANGED <<handlerVars, heldVars, worldVars>>

(* insert_handshake: a response to an earlier one is refused from here on. *)
InsertInitiation(th) ==
    /\ At(th, "insert")
    /\ pending' = TRUE
    /\ net' = [peer |-> net.peer \ {"init"}, us |-> net.us \ {"resp"}]
    /\ WithTimers(InitiationSent(timers))
    /\ thread' = [thread EXCEPT ![th].at = "keepalive", ![th].out = @ \cup {"init"}]
    /\ UNCHANGED <<peer, session, heldVars, remote, left, recent>>

(* Mutant of KeepaliveUnsent: the keepalive stays due.                     *)
KeepaliveStillDue(t) == [t EXCEPT !.want = @ \/ Authorized]

(* Without a keypair a keepalive asks for one, once.                       *)
KeepaliveUnsent(t) == [t EXCEPT !.keepalive = Never, !.want = @ \/ Authorized]

PollKeepalive(th) ==
    /\ At(th, "keepalive")
    /\ thread' = [thread EXCEPT ![th].at = "act",
            ![th].out = IF thread[th].keepalive /\ HasSession THEN @ \cup {"keepalive"} ELSE @]
    /\ IF ~thread[th].keepalive THEN UNCHANGED timers
       ELSE IF HasSession THEN timers' = Encrypted(FALSE)
       ELSE WithTimers(KeepaliveUnsent(timers))
    /\ UNCHANGED <<peer, session, pending, heldVars, worldVars>>

(* Mutant of StagedAfter: what the failed handshake was for is kept.       *)
StagedAfterAny(due) == staged

(* A handshake that failed takes what waits for it along.                  *)
StagedAfter(due) == IF due = "failed" THEN <<>> ELSE staged

(* What came of the poll, or of connect, which also sets the endpoint.     *)
Act(th) ==
    /\ At(th, "act")
    /\ IF endpoint \/ thread[th].own THEN Transmit(thread[th].out) ELSE UNCHANGED net
    /\ endpoint' = (endpoint \/ thread[th].own)
    /\ staged' = StagedAfter(thread[th].due)
    /\ Rests(th)
    /\ UNCHANGED <<handlerVars, done, remote, left, recent>>

-----------------------------------------------------------------------------
(* send and connect.                                                       *)

(* send_with: the packet is encrypted and sent, or else to be staged.      *)
Send ==
    /\ At(App, "idle") /\ endpoint /\ Happens("sends")
    /\ IF HasSession
       THEN timers' = Encrypted(TRUE) /\ Transmit({"data"}) /\ UNCHANGED thread
       ELSE /\ timers' = Wanted
            /\ thread' = [thread EXCEPT ![App].at = "unsent", ![App].held = <<left.sends>>]
            /\ UNCHANGED net
    /\ UNCHANGED <<peer, session, pending, heldVars, remote, recent>>

Unsent ==
    /\ At(App, "unsent")
    /\ IF Authorized THEN Goes(App, "stage") /\ UNCHANGED staged
       ELSE Rests(App) /\ staged' = <<>>
    /\ UNCHANGED <<handlerVars, endpoint, done, worldVars>>

Stage ==
    /\ At(App, "stage")
    /\ staged' = Push(staged, thread[App].held[1])
    /\ thread' = [thread EXCEPT ![App] = [Idle EXCEPT !.at = "prune"]]
    /\ UNCHANGED <<handlerVars, endpoint, done, worldVars>>

Connect ==
    /\ At(App, "idle") /\ Happens("connects")
    /\ thread' = [thread EXCEPT ![App] = [Idle EXCEPT !.at = "build", !.own = TRUE]]
    /\ UNCHANGED <<handlerVars, heldVars, net, remote, recent>>

-----------------------------------------------------------------------------
(* process_incoming.                                                       *)

Receives(r, packet) ==
    /\ r \in left.readers /\ At(r, "idle") /\ packet \in net.us
    /\ net' = [net EXCEPT !.us = @ \ {packet}]

(* A response: the handshake is complete, and then its keypair installed.  *)
ReceiveResponse(r) ==
    /\ Receives(r, "resp")
    /\ pending' = FALSE
    /\ IF pending
       THEN /\ WithTimers(PacketReceived(HandshakeComplete(timers), FALSE))
            /\ Goes(r, "install")
       ELSE Rests(r) /\ UNCHANGED timers
    /\ UNCHANGED <<peer, session, heldVars, remote, left, recent>>

InstallInitiator(r) ==
    /\ At(r, "install")
    /\ IF Authorized
       THEN /\ session' = [age |-> "fresh", initiator |-> TRUE, next |-> FALSE]
            /\ timers' = PacketSent(timers, FALSE)
            /\ thread' = [thread EXCEPT ![r].at = "dispatch", ![r].out = {"keepalive"}]
       ELSE Rests(r) /\ UNCHANGED <<session, timers>>
    /\ UNCHANGED <<peer, pending, heldVars, worldVars>>

(* An initiation: the keypair is the next one until it is confirmed.       *)
ReceiveInitiation(r) ==
    /\ Receives(r, "init")
    /\ IF Authorized
       THEN /\ session' = [session EXCEPT !.next = TRUE]
            /\ thread' = [thread EXCEPT ![r].at = "dispatch", ![r].out = {"resp"}]
       ELSE Rests(r) /\ UNCHANGED session
    /\ UNCHANGED <<peer, timers, pending, heldVars, remote, left, recent>>

(* Data or a keepalive under the current keypair, or the first packet      *)
(* under the next one, which becomes current.                              *)
ReceiveTransport(r, packet) ==
    /\ Receives(r, packet)
    /\ IF Authorized /\ packet = "confirm" /\ session.next
       THEN /\ session' = [age |-> "fresh", initiator |-> FALSE, next |-> FALSE]
            /\ thread' = [thread EXCEPT ![r].at = "confirmed"]
       ELSE /\ IF HasSession /\ packet # "confirm" THEN Goes(r, packet) ELSE Rests(r)
            /\ UNCHANGED session
    /\ UNCHANGED <<peer, timers, pending, heldVars, remote, left, recent>>

(* received_with_keypair says the handshake is complete from our side too. *)
NoteReceived(r) ==
    LET confirmed == At(r, "confirmed")
        t == PacketReceived(IF confirmed THEN HandshakeComplete(timers) ELSE timers, At(r, "data"))
    IN  /\ thread[r].at \in {"confirmed", "data", "keepalive"}
        /\ WithTimers([t EXCEPT !.want = @ \/ (session.initiator /\ session.age = "old")])
        /\ Goes(r, "dispatch")
        /\ UNCHANGED <<peer, session, pending, heldVars, worldVars>>

(* The packet proved to be the peer's: its source is the endpoint.         *)
Dispatch(r) ==
    /\ At(r, "dispatch")
    /\ endpoint' = TRUE
    /\ Transmit(thread[r].out)
    /\ Goes(r, IF thread[r].out = {} THEN "flush" ELSE "callback")
    /\ UNCHANGED <<handlerVars, staged, done, remote, left, recent>>

(* flush_staged.                                                           *)
Flush(r) ==
    /\ At(r, "flush")
    /\ IF HasSession THEN Goes(r, "take") ELSE Rests(r)
    /\ UNCHANGED <<handlerVars, heldVars, worldVars>>

TakeStaged(r) ==
    /\ At(r, "take")
    /\ staged' = <<>>
    /\ thread' = [thread EXCEPT ![r] =
            IF staged = <<>> THEN Loop(r) ELSE [Idle EXCEPT !.at = "send", !.held = staged]]
    /\ UNCHANGED <<handlerVars, endpoint, done, worldVars>>

(* One packet goes, or the rest goes back.                                 *)
SendStaged(r) ==
    LET rest == Tail(thread[r].held)
    IN  /\ At(r, "send")
        /\ IF HasSession
           THEN /\ timers' = Encrypted(TRUE)
                /\ Transmit({"data"})
                /\ thread' = [thread EXCEPT ![r] =
                        IF rest = <<>> THEN Loop(r) ELSE [@ EXCEPT !.held = rest]]
                /\ UNCHANGED staged
           ELSE /\ timers' = Wanted
                /\ staged' = PutBack(staged, thread[r].held)
                /\ Rests(r)
                /\ UNCHANGED net
        /\ UNCHANGED <<peer, session, pending, endpoint, done, remote, left, recent>>

-----------------------------------------------------------------------------
(* Time and the world.                                                     *)

(* A timeout passes: what the timers wanted is done long before, and a     *)
(* packet still under way after it is a lost one.                          *)
Tick ==
    /\ \A th \in Threads : thread[th].at \in {"idle", "gone"}
    /\ done \/ (~PollWorks /\ net.peer = {} /\ net.us = {})
    /\ timers' = OneLater(timers, left.persistent)
    /\ recent' = 0
    /\ UNCHANGED <<peer, session, pending, heldVars, thread, net, remote, left>>

Ages  == <<"fresh", "aged", "old", "none">>

(* The current keypair passes REKEY_AFTER_TIME, the age at which receiving *)
(* asks for another, and REJECT_AFTER_TIME.                                *)
Age ==
    /\ session.age # "none" /\ Happens("ages")
    /\ \E i, j \in DOMAIN Ages : /\ i < j /\ session.age = Ages[i]
                                 /\ session' = [session EXCEPT !.age = Ages[j]]
    /\ UNCHANGED <<peer, timers, pending, heldVars, thread, net, remote, recent>>

Lose ==
    /\ Happens("losses")
    /\ \E side \in {"peer", "us"} : \E packet \in net[side] :
            net' = [net EXCEPT ![side] = @ \ {packet}]
    /\ UNCHANGED <<handlerVars, heldVars, thread, remote, recent>>

PeerTakes ==
    /\ \E packet \in net.peer :
        /\ net' = [peer |-> net.peer \ {packet},
                   us |-> net.us \cup
                            CASE packet = "init" -> {"resp"}
                              [] packet = "resp" -> {"confirm"}
                              [] packet = "data" /\ remote.has -> {"keepalive"}
                              [] OTHER -> {}]
        /\ remote' = [remote EXCEPT !.has = @ \/ packet \in {"init", "resp"}]
    /\ UNCHANGED <<handlerVars, heldVars, thread, left, recent>>

PeerActs ==
    /\ remote.there
    /\ \/ /\ Happens("peerSends") /\ remote.has
          /\ net' = [net EXCEPT !.us = @ \cup {"data"}] /\ UNCHANGED remote
       \/ /\ Happens("peerInits")
          /\ net' = [net EXCEPT !.us = @ \cup {"init"}] /\ UNCHANGED remote
       \/ /\ Happens("restarts")
          /\ remote' = [remote EXCEPT !.has = FALSE] /\ UNCHANGED net
       \/ /\ Happens("leaves")
          /\ remote' = [there |-> FALSE, has |-> FALSE]
          /\ net' = [net EXCEPT !.peer = {}]
    /\ UNCHANGED <<handlerVars, heldVars, thread, recent>>

ThreadStep(th) ==
    \/ PruneStaged(th) \/ DropStaged(th) \/ Poll(th) \/ BuildInitiation(th)
    \/ InsertInitiation(th) \/ PollKeepalive(th) \/ Act(th)

ReaderStep(r) ==
    \/ InstallInitiator(r) \/ NoteReceived(r) \/ Dispatch(r) \/ Flush(r) \/ TakeStaged(r)
    \/ SendStaged(r)

Arrival(r) ==
    \/ ReceiveResponse(r) \/ ReceiveInitiation(r)
    \/ \E packet \in {"data", "keepalive", "confirm"} : ReceiveTransport(r, packet)

-----------------------------------------------------------------------------
(* However many threads run the timers, they decide on one initiation at   *)
(* most in a REKEY_TIMEOUT: a second would undo the first (handler.rs,     *)
(* poll_timers_at).                                                        *)
OneInitiation == recent <= 1

(* Packets that wait while a handshake is asked for or tried get their     *)
(* session, or are dropped when it is given up (server.rs, run_timers);    *)
(* those of a peer not authorized any more are dropped too, if it is not   *)
(* taken back before (prune_staged), while the server is open.             *)
NoEndlessWait ==
    /\ staged # <<>> /\ Authorized /\ (timers.trying \/ timers.want)
            ~> (staged = <<>> \/ HasSession \/ ~Authorized \/ done)
    /\ staged # <<>> /\ ~Authorized ~> (staged = <<>> \/ Authorized \/ done)

(* Once nothing more is sent and nothing arrives, the timers come to rest, *)
(* whether or not the peer answers (handler.rs, poll_timers_at), unless    *)
(* the owner asked for a keepalive every so often.                         *)
ComesToRest ==
    left.persistent = 0 => <>[](Known /\ ~done => ~timers.trying /\ ~timers.want)
=============================================================================
