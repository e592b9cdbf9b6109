---------------------------- MODULE OvpnReliable ----------------------------
(***************************************************************************)
(* The reliable transport under one key of an OpenVPN control channel      *)
(* (src/src/ovpn/reliable.rs), as the server's KeyState drives it          *)
(* (src/src/ovpn/peer.rs), over a network that loses, repeats and reorders *)
(* datagrams.                                                              *)
(*                                                                         *)
(* The Server end runs recv_packet, feeds TLS and pumps in one handler.    *)
(* The Client end is another program: it is modelled with the same         *)
(* transport, but sends when it pleases, so the ACKs it owes batch up.     *)
(* The TLS output of an end is the stream of units 1, 2, 3, ... and a      *)
(* packet carries up to MTU of them.  Send times are left out: which       *)
(* packets are due for retransmission is a choice of the tick.             *)
(***************************************************************************)
EXTENDS Integers, SequencesExt

CONSTANTS
    Client, Server,
    Opener,             \* the end whose reset opens the key's stream
    MTU,                \* CONTROL_CHANNEL_MTU, in units
    N_SEND_BUFFERS,     \* the send window
    N_REC_BUFFERS,      \* the receive window
    ACK_MAX,            \* CONTROL_SEND_ACK_MAX
    MAX_UNPROVEN_TLS,   \* units held before our reset is acknowledged
    MAX_HELD_TLS,       \* units of output held for want of window
    LOSSY,              \* whether the network is seen to lose packets
    CLIENT_UNITS,       \* bound: units the client's TLS engine writes
    SERVER_UNITS        \* bound: units the server's TLS engine writes

Ends == {Client, Server}

Peer(e) == IF e = Client THEN Server ELSE Client

ASSUME ReliableAssumption ==
    /\ Client # Server
    /\ Opener \in Ends
    /\ {MTU, N_SEND_BUFFERS, N_REC_BUFFERS, ACK_MAX} \subseteq Nat \ {0}
    /\ {MAX_UNPROVEN_TLS, MAX_HELD_TLS, CLIENT_UNITS, SERVER_UNITS} \subseteq Nat
    /\ N_SEND_BUFFERS <= N_REC_BUFFERS
    /\ LOSSY \in BOOLEAN

VARIABLES
    rel,        \* per end, its Reliable
    unproven,   \* units the server holds until the client acks its reset
    tls_in,     \* per end, the units fed to its TLS engine
    wrote,      \* per end, the units its TLS engine has written
    failed,     \* the server gave up on the key
    net         \* packets sent; one may arrive late, twice or never

vars == <<rel, unproven, tls_in, wrote, failed, net>>

Units(e) == IF e = Client THEN CLIENT_UNITS ELSE SERVER_UNITS

NoPid == -1

(* A packet as it is framed; ours says whether its ACK record, if it has   *)
(* one, names the session of the end it is for.                            *)
Packet(to, op, pid, data, acks) ==
    [to |-> to, op |-> op, pid |-> pid, data |-> data, acks |-> acks,
     ours |-> TRUE]

(* Late or forged packets the network may bring: an ACK of another         *)
(* session, and a hard reset that claims a later packet's id.  Only hard   *)
(* resets are refused for their id: a soft one, whose first id is 0 too,   *)
(* is not brought with another.                                            *)
Strays ==
    {[Packet(e, "ACK", NoPid, <<>>, {0}) EXCEPT !.ours = FALSE] : e \in Ends}
    \cup {Packet(e, "RESET", 1, <<>>, {}) : e \in Ends}

-----------------------------------------------------------------------------
(* The transport, as operators on a Reliable record r.                     *)

NewReliable ==
    [out_counter |-> 0, unacked |-> {}, held |-> <<>>,
     in_counter |-> 0, in_buf |-> {}, pending_ack |-> <<>>]

Pids(packets) == {p.pid : p \in packets}

(* The packet that opens our side of the stream, recorded as unacked.      *)
WithReset(e, r) ==
    LET reset == Packet(Peer(e), "RESET", r.out_counter, <<>>, {})
    IN  [r EXCEPT !.out_counter = @ + 1, !.unacked = @ \cup {reset}]

(* Mutant of ResetAcked: a stream that has sent nothing counts as proven,  *)
(* and so does one whose reset is still unacknowledged.                    *)
ResetSent(r) == r.out_counter > 0

ResetAcked(r) == r.out_counter > 0 /\ 0 \notin Pids(r.unacked)

(* The ACKs a packet carries are taken first, whatever becomes of it.      *)
Purged(r, p) == [r EXCEPT !.unacked = {u \in @ : u.pid \notin p.acks}]

(* Mutant of ForAnotherSession: the session an ACK names is not compared.  *)
NeverForAnother(p) == FALSE

ForAnotherSession(p) == p.acks # {} /\ ~ p.ours

Refused(r, p) ==
    \/ p.op = "RESET" /\ p.pid # 0
    \/ p.op # "ACK" /\ p.pid >= r.in_counter + N_REC_BUFFERS

(* Where the in-order prefix ends once buf is drained from pid n on.       *)
Drained(buf, n) == Min({k \in n .. n + Cardinality(buf) : k \notin Pids(buf)})

(* Mutant of Carried: the reorder buffer is emptied from its far end.      *)
CarriedBackwards(buf, n, m) ==
    LET At(k) == CHOOSE p \in buf : p.pid = k
    IN  FlattenSeq([i \in 1 .. m - n |-> At(m - i).data])

(* The units the packets n .. m - 1 of buf carry, in order.  Resets take a *)
(* place in the order and carry none.                                      *)
Carried(buf, n, m) ==
    LET At(k) == CHOOSE p \in buf : p.pid = k
    IN  FlattenSeq([i \in 1 .. m - n |-> At(n + i - 1).data])

IsBareAck(p) == p.op = "ACK"

(* Mutant of Owed: a duplicate is not acknowledged again.                  *)
OwedOnlyOnce(r, p) ==
    IF p.pid < r.in_counter \/ Contains(r.pending_ack, p.pid)
    THEN r.pending_ack
    ELSE Append(r.pending_ack, p.pid)

(* The ACKs owed once p is taken: one for p, even for a duplicate, since   *)
(* the earlier one may have been lost.                                     *)
Owed(r, p) == IF Contains(r.pending_ack, p.pid) THEN r.pending_ack
              ELSE Append(r.pending_ack, p.pid)

(* What a packet that is taken leaves: its ACK owed, the packet in its     *)
(* slot unless that is filled or past, and every packet now in order       *)
(* delivered.                                                              *)
Taken(r, p) ==
    LET kept  == IF p.pid < r.in_counter \/ p.pid \in Pids(r.in_buf)
                 THEN r.in_buf
                 ELSE r.in_buf \cup {[p EXCEPT !.acks = {}]}
        after == Drained(kept, r.in_counter)
    IN  IF IsBareAck(p) THEN r
        ELSE [r EXCEPT !.pending_ack = Owed(r, p),
                       !.in_buf = {b \in kept : b.pid >= after},
                       !.in_counter = after]

(* The units that taking p makes available in order.                       *)
NewBytes(r, p) ==
    LET t == Taken(r, p)
    IN  IF t.in_counter = r.in_counter THEN <<>>
        ELSE Carried(r.in_buf \cup {p}, r.in_counter, t.in_counter)

-----------------------------------------------------------------------------
(* Sending.                                                                *)

(* How many more packets can_send allows before it says no.                *)
Room(r) ==
    LET oldest == IF r.unacked = {} THEN r.out_counter
                  ELSE Min(Pids(r.unacked))
    IN  Max({0, oldest + N_SEND_BUFFERS - r.out_counter})

CeilDiv(a, b) == (a + b - 1) \div b

(* The i-th run of k elements of a sequence, the last one perhaps shorter. *)
Slice(seq, k, i) == SubSeq(seq, (i - 1) * k + 1, Min({i * k, Len(seq)}))

(* The packets pump puts on the wire for end e: what flush_tls frames, the *)
(* ACKs owed riding along, then plain ACKs for those left over.            *)
Framed(e, r) ==
    LET n == IF ResetAcked(r)
             THEN Min({Room(r), CeilDiv(Len(r.held), MTU)}) ELSE 0
    IN  [i \in 1 .. n |-> Packet(Peer(e), "CONTROL", r.out_counter + i - 1,
                                 Slice(r.held, MTU, i), {})]

Pumped(e, r) ==
    LET new == Framed(e, r)
    IN  [r EXCEPT !.out_counter = @ + Len(new),
                  !.unacked = @ \cup ToSet(new),
                  !.held = SubSeq(@, Len(new) * MTU + 1, Len(@)),
                  !.pending_ack = <<>>]

PumpOutput(e, r) ==
    LET new == Framed(e, r)
        Acks(i) == ToSet(Slice(r.pending_ack, ACK_MAX, i))
    IN  {[new[i] EXCEPT !.acks = Acks(i)] : i \in DOMAIN new}
        \cup {Packet(Peer(e), "ACK", NoPid, <<>>, Acks(i)) :
                i \in Len(new) + 1 .. CeilDiv(Len(r.pending_ack), ACK_MAX)}

-----------------------------------------------------------------------------
(* The resets are exchanged with both ends keeping state.  A server that   *)
(* answers resets statelessly starts where this does once both are taken   *)
(* (Session::after_reset).                                                 *)
Init ==
    LET opened == WithReset(Opener, NewReliable)
    IN  /\ rel = [e \in Ends |-> IF e = Opener THEN opened ELSE NewReliable]
        /\ net = opened.unacked \cup (IF LOSSY THEN {} ELSE Strays)
        /\ unproven = <<>>
        /\ tls_in = [e \in Ends |-> <<>>]
        /\ wrote = [e \in Ends |-> 0]
        /\ failed = FALSE

(* The network once out is sent.  Any packet it has may arrive at any time *)
(* and any number of times, or never: it need not forget one.  To see what *)
(* the timers are for, it holds one packet for each end and loses the rest.*)
Carry(out) ==
    IF LOSSY
    THEN {n \in SUBSET (net \cup out) :
            \A e \in Ends : Cardinality({p \in n : p.to = e}) <= 1}
    ELSE {net \cup out}

Opened(e) == rel[e].out_counter > 0
Alive(e)  == Opened(e) /\ ~ (e = Server /\ failed)

(* The peer's reset reaches an end that has no stream yet: it opens its    *)
(* own, and its reset carries the ACK for theirs.                          *)
Open(p) ==
    LET e == p.to
        r == Taken(WithReset(e, NewReliable), p)
    IN  /\ p \in net /\ ~ Opened(e)
        /\ p.op = "RESET" /\ p.pid = 0
        /\ rel' = [rel EXCEPT ![e] = [r EXCEPT !.pending_ack = <<>>]]
        /\ net' \in Carry({[u EXCEPT !.acks = ToSet(r.pending_ack)] :
                                u \in r.unacked})
        /\ UNCHANGED <<unproven, tls_in, wrote, failed>>

(* The server's handler for a control packet: a packet recv_packet drops   *)
(* ends it, its ACKs apart; the rest runs TLS and pumps, even on failure.  *)
ServerReceive(p) ==
    LET r     == rel[Server]
        acked == Purged(r, p)
        taken == Taken(acked, p)
        bytes == unproven \o NewBytes(acked, p)
        ready == ResetAcked(taken)
    IN  /\ p \in net /\ p.to = Server /\ Alive(Server)
        /\ \/ /\ ForAnotherSession(p)
              /\ UNCHANGED <<rel, unproven, tls_in, failed, net>>
           \/ /\ ~ ForAnotherSession(p) /\ Refused(acked, p)
              /\ rel' = [rel EXCEPT ![Server] = acked]
              /\ UNCHANGED <<unproven, tls_in, failed, net>>
           \/ /\ ~ ForAnotherSession(p) /\ ~ Refused(acked, p)
              /\ rel' = [rel EXCEPT ![Server] = Pumped(Server, taken)]
              /\ net' \in Carry(PumpOutput(Server, taken))
              /\ tls_in' = IF ready THEN [tls_in EXCEPT ![Server] = @ \o bytes]
                           ELSE tls_in
              /\ unproven' = IF ready THEN <<>> ELSE bytes
              /\ failed' = (Len(unproven') > MAX_UNPROVEN_TLS)
        /\ UNCHANGED wrote

(* The client takes a packet; what it owes for it goes out later.          *)
ClientReceive(p) ==
    LET r     == rel[Client]
        acked == Purged(r, p)
    IN  /\ p \in net /\ p.to = Client /\ Alive(Client)
        /\ \/ /\ ForAnotherSession(p)
              /\ UNCHANGED <<rel, tls_in>>
           \/ /\ ~ ForAnotherSession(p) /\ Refused(acked, p)
              /\ rel' = [rel EXCEPT ![Client] = acked]
              /\ UNCHANGED tls_in
           \/ /\ ~ ForAnotherSession(p) /\ ~ Refused(acked, p)
              /\ rel' = [rel EXCEPT ![Client] = Taken(acked, p)]
              /\ tls_in' = [tls_in EXCEPT ![Client] = @ \o NewBytes(acked, p)]
        /\ UNCHANGED <<unproven, wrote, failed, net>>

ClientPump ==
    LET r == rel[Client]
    IN  /\ Alive(Client)
        /\ PumpOutput(Client, r) # {}
        /\ rel' = [rel EXCEPT ![Client] = Pumped(Client, r)]
        /\ net' \in Carry(PumpOutput(Client, r))
        /\ UNCHANGED <<unproven, tls_in, wrote, failed>>

(* The client's TLS engine has output.                                     *)
ClientWrite ==
    /\ Alive(Client) /\ wrote[Client] < Units(Client)
    /\ wrote' = [wrote EXCEPT ![Client] = @ + 1]
    /\ rel' = [rel EXCEPT ![Client].held = Append(@, wrote'[Client])]
    /\ UNCHANGED <<unproven, tls_in, failed, net>>

(* The server's TLS engine, which is made when the client's first units    *)
(* are fed to it, has output, and pump moves it.  An end that then has too *)
(* much held back fails, and sends nothing.                                *)
ServerWrite ==
    LET r == [rel[Server] EXCEPT !.held = Append(@, wrote[Server] + 1)]
        full == Len(r.held) > MAX_HELD_TLS
    IN  /\ Alive(Server) /\ tls_in[Server] # <<>>
        /\ wrote[Server] < Units(Server)
        /\ wrote' = [wrote EXCEPT ![Server] = @ + 1]
        /\ rel' = [rel EXCEPT ![Server] = IF full THEN r ELSE Pumped(Server, r)]
        /\ net' \in Carry(IF full THEN {} ELSE PumpOutput(Server, r))
        /\ failed' = full
        /\ UNCHANGED <<unproven, tls_in>>

(* The retransmission timer: every packet due goes out again as it was     *)
(* first framed, with no ACKs.                                             *)
Tick(e) ==
    /\ Alive(e)
    /\ \E due \in SUBSET rel[e].unacked \ {{}} : net' \in Carry(due)
    /\ UNCHANGED <<rel, unproven, tls_in, wrote, failed>>

Next ==
    \/ \E p \in net : \/ Open(p)
                      \/ ServerReceive(p)
                      \/ ClientReceive(p)
    \/ ClientPump
    \/ ClientWrite
    \/ ServerWrite
    \/ \E e \in Ends : Tick(e)

Spec == Init /\ [][Next]_vars
-----------------------------------------------------------------------------
PacketOK(p) ==
    /\ p.to \in Ends /\ p.op \in {"RESET", "CONTROL", "ACK"}
    /\ p.pid \in Nat \cup {NoPid} /\ p.pid = NoPid <=> p.op = "ACK"
    /\ p.data \in Seq(Nat) /\ p.acks \subseteq Nat /\ p.ours \in BOOLEAN

TypeOK ==
    /\ \A e \in Ends :
        LET r == rel[e]
        IN  /\ r.out_counter \in Nat /\ r.in_counter \in Nat
            /\ \A p \in r.unacked \cup r.in_buf : PacketOK(p)
            /\ r.held \in Seq(Nat) /\ r.pending_ack \in Seq(Nat)
    /\ \A p \in net : PacketOK(p)
    /\ unproven \in Seq(Nat)
    /\ tls_in \in [Ends -> Seq(Nat)]
    /\ wrote \in [Ends -> Nat]
    /\ failed \in BOOLEAN

(* Nothing is forgotten while it can still be missed: an end drops a       *)
(* packet from its retransmission buffer only once the peer has taken it,  *)
(* in order or into its reorder buffer.                                    *)
AckedMeansTaken ==
    \A e \in Ends :
        \A pid \in 0 .. rel[e].out_counter - 1 \ Pids(rel[e].unacked) :
            \/ pid < rel[Peer(e)].in_counter
            \/ pid \in Pids(rel[Peer(e)].in_buf)

(* The server's TLS engine sees nothing from a client that has not shown   *)
(* it receives what the server sends.                                      *)
NoTlsBeforeProof ==
    tls_in[Server] # <<>> => rel[Client].in_counter > 0

(* The stream service the transport implements.                            *)
Stream == INSTANCE OvpnStream WITH read <- tls_in

(* Whatever the packets do, the engines see a pair of byte streams: the    *)
(* units each is fed are those the other wrote, in order, none twice and   *)
(* none left out.                                                          *)
ImplementsStream == Stream!Spec

-----------------------------------------------------------------------------
(* Fairness.  Timers run (the server calls tick about once a second and    *)
(* the backoff is capped), the engines write, and a client that owes       *)
(* something sends it.  Of the network only this: a packet sent again and  *)
(* again gets through, and so does the answer to one.                      *)
Receive(p) == Open(p) \/ ServerReceive(p) \/ ClientReceive(p)

PidBound == Max({CLIENT_UNITS, SERVER_UNITS})

Fairness ==
    /\ WF_vars(ClientWrite)
    /\ WF_vars(ServerWrite)
    /\ WF_vars(ClientPump)
    /\ \A pid \in 0 .. PidBound :
        /\ SF_vars(ClientPump /\ \E q \in net' : pid \in q.acks)
        /\ \A e \in Ends :
            /\ WF_vars(Tick(e) /\ \E q \in net' : q.to # e /\ q.pid = pid)
            /\ SF_vars(\E p \in net : /\ p.to = e /\ p.pid = pid
                                      /\ Receive(p)
                                      /\ e = Server =>
                                            \E q \in net' : pid \in q.acks)
            /\ SF_vars(\E p \in net : /\ p.to = e /\ pid \in p.acks
                                      /\ Receive(p))

FairSpec == Spec /\ Fairness

(* Everything written arrives in the end, unless the server gave the key   *)
(* up: no window closes for ever, no ACK is waited for in vain.            *)
AllDelivered ==
    <>(\/ failed
       \/ \A e \in Ends : Len(tls_in[Peer(e)]) = Units(e))
=============================================================================
