------------------------ MODULE OvpnReliableProofs ------------------------
(***************************************************************************)
(* Proofs about OvpnReliable, for any windows, packet sizes and streams,   *)
(* whichever end opens the key, and whatever the network does.             *)
(*                                                                         *)
(* An end forgets a packet because of an acknowledgement that was owed,    *)
(* then sent, then perhaps long under way.  So the invariant follows the   *)
(* acknowledgement: whatever an end owes an ACK for it has taken, so what  *)
(* any ACK on the network names has been taken, so what has left the       *)
(* retransmission buffer has been taken.  It holds because nothing taken   *)
(* is ever lost again: what leaves the reorder buffer is behind the        *)
(* counter of what was delivered in order.                                 *)
(***************************************************************************)
EXTENDS OvpnReliable, FiniteSetTheorems, SequenceTheorems, TLAPS

(* An end has taken packet pid, in order or into its reorder buffer.       *)
HasTaken(r, pid) == pid < r.in_counter \/ pid \in Pids(r.in_buf)

RelOK(r) ==
    /\ r = [out_counter |-> r.out_counter, unacked |-> r.unacked, held |-> r.held,
            in_counter |-> r.in_counter, in_buf |-> r.in_buf,
            pending_ack |-> r.pending_ack]
    /\ r.out_counter \in Nat /\ r.in_counter \in Nat
    /\ r.held \in Seq(Nat) /\ r.pending_ack \in Seq(Nat)
    /\ \A u \in r.unacked : u.pid \in Nat /\ u.acks = {}

(* The reorder buffer holds only what is ahead of the next packet due.     *)
BufferAhead(r) ==
    /\ IsFiniteSet(r.in_buf)
    /\ \A b \in r.in_buf : b.pid \in Nat /\ r.in_counter < b.pid

(* What an end owes an ACK for it has taken.                               *)
OwesTaken(r) == \A i \in DOMAIN r.pending_ack : HasTaken(r, r.pending_ack[i])

EndOK(r) == RelOK(r) /\ BufferAhead(r) /\ OwesTaken(r)

Shaped(p) ==
    /\ p = [to |-> p.to, op |-> p.op, pid |-> p.pid, data |-> p.data,
            acks |-> p.acks, ours |-> p.ours]
    /\ p.to \in Ends /\ p.acks \subseteq Nat
    /\ p.op # "ACK" => p.pid \in Nat

Shape ==
    /\ rel = [e \in Ends |-> rel[e]]
    /\ wrote \in [Ends -> Nat]
    /\ tls_in = [e \in Ends |-> tls_in[e]]
    /\ \A e \in Ends : ~ Opened(e) => rel[e] = NewReliable
    /\ \A e \in Ends : \A u \in rel[e].unacked : Shaped(u) /\ u.to = Peer(e)
    /\ \A p \in net : Shaped(p)

(* What an ACK under way names, its receiver's peer has taken.             *)
AcksTrue ==
    \A p \in net : p.ours => \A a \in p.acks : HasTaken(rel[Peer(p.to)], a)

(* The inductive invariant.                                                *)
Core ==
    /\ Shape
    /\ \A e \in Ends : EndOK(rel[e])
    /\ AcksTrue
    /\ AckedMeansTaken

-----------------------------------------------------------------------------
LEMMA ConstantsAre ==
    /\ MTU \in Nat \ {0} /\ N_SEND_BUFFERS \in Nat /\ ACK_MAX \in Nat \ {0}
    /\ Client # Server /\ Ends = {Client, Server} /\ Opener \in Ends
BY ReliableAssumption DEF Ends

LEMMA PeerIs ==
    ASSUME NEW e \in Ends
    PROVE  Peer(e) \in Ends /\ Peer(e) # e /\ Peer(Peer(e)) = e
BY ConstantsAre DEF Peer, Ends

(* A set of numbers that is not empty has a least element.                 *)
LEMMA LeastIs ==
    ASSUME NEW S \in SUBSET Nat, S # {}
    PROVE  Min(S) \in S /\ \A y \in S : Min(S) <= y
<1>1. PICK R : /\ \E x \in S : \A y \in S : ~ (<<y, x>> \in R)
               /\ \A x, y \in Nat : y < x => <<y, x>> \in R
  <2>1. \E x \in S : \A y \in S : ~ (<<y, x>> \in OpToRel(<, Nat))
    BY NatLessThanWellFounded, WFMin
  <2>2. \A x, y \in Nat : y < x => <<y, x>> \in OpToRel(<, Nat)  BY DEF OpToRel
  <2> QED  BY <2>1, <2>2, Zenon
<1>2. PICK x \in S : \A y \in S : ~ (<<y, x>> \in R)  BY <1>1
<1>3. ASSUME NEW y \in S PROVE x <= y
  <2>1. ~ (y < x)  BY <1>1, <1>2, Zenon
  <2> QED  BY <2>1
<1> QED  BY <1>3 DEF Min

LEMMA MinOfTwo ==
    ASSUME NEW a \in Int, NEW b \in Int
    PROVE  Min({a, b}) \in {a, b} /\ Min({a, b}) <= a /\ Min({a, b}) <= b
<1>1. \E x \in {a, b} : \A y \in {a, b} : x <= y  OBVIOUS
<1> QED  BY <1>1 DEF Min

LEMMA MaxOfTwo ==
    ASSUME NEW a \in Int, NEW b \in Int PROVE Max({a, b}) \in {a, b}
<1>1. \E x \in {a, b} : \A y \in {a, b} : x >= y  OBVIOUS
<1> QED  BY <1>1 DEF Max

(* Draining stops at the first packet that is missing.  There is one: a    *)
(* buffer has no more ids than packets.                                    *)
LEMMA DrainedIs ==
    ASSUME NEW buf, IsFiniteSet(buf), \A b \in buf : b.pid \in Nat, NEW n \in Nat,
           NEW d, d = Drained(buf, n)
    PROVE  d \in Nat /\ n <= d /\ d \notin Pids(buf)
<1>1. PICK ids : ids = Pids(buf)  OBVIOUS
<1>2. PICK c : c = Cardinality(buf)  OBVIOUS
<1>3. c \in Nat  BY <1>2, FS_CardinalityType
<1>4. IsFiniteSet(ids) /\ Cardinality(ids) <= c
  <2>1. PICK f : f = [b \in buf |-> b.pid]  OBVIOUS
  <2>2. f \in Surjection(buf, ids)
    BY <1>1, <2>1 DEF Surjection, Pids
  <2> QED  BY <1>2, <2>2, FS_Surjection
<1>5. Cardinality(ids) \in Nat  BY <1>4, FS_CardinalityType
<1>6. IsFiniteSet(n .. n + c) /\ Cardinality(n .. n + c) = c + 1
  BY <1>3, FS_Interval
<1>7. PICK S : S = {k \in n .. n + c : k \notin ids}  OBVIOUS
<1>8. S # {}
  <2>1. SUFFICES ASSUME S = {} PROVE FALSE  OBVIOUS
  <2>2. n .. n + c \in SUBSET ids  BY <1>7, <2>1
  <2>3. Cardinality(n .. n + c) <= Cardinality(ids)  BY <1>4, <2>2, FS_Subset
  <2> QED  BY <1>3, <1>4, <1>5, <1>6, <2>3
<1>9. S \in SUBSET Nat  BY <1>3, <1>7
<1>10. Min(S) \in S  BY <1>8, <1>9, LeastIs
<1>11. d = Min(S)  BY <1>1, <1>2, <1>7 DEF Drained
<1> QED  BY <1>1, <1>3, <1>7, <1>10, <1>11

(* What taking a packet keeps and adds.                                    *)
Keeps(r, t) ==
    /\ r.in_counter <= t.in_counter
    /\ \A pid \in Nat : HasTaken(r, pid) => HasTaken(t, pid)

SameOutput(r, t) ==
    t.out_counter = r.out_counter /\ t.unacked = r.unacked /\ t.held = r.held

LEMMA OwedIs ==
    ASSUME NEW r, RelOK(r), NEW p, p.pid \in Nat, NEW s, s = Owed(r, p)
    PROVE  /\ s \in Seq(Nat)
           /\ \A i \in DOMAIN s : s[i] = p.pid \/ \E j \in DOMAIN r.pending_ack :
                                                      s[i] = r.pending_ack[j]
<1>1. PICK q : q = r.pending_ack  OBVIOUS
<1>2. q \in Seq(Nat)  BY <1>1 DEF RelOK
<1>3. PICK x : x = p.pid  OBVIOUS
<1>4. s = q \/ s = Append(q, x)  BY <1>1, <1>3 DEF Owed
<1>5. CASE s = q  BY <1>1, <1>2, <1>5
<1>6. CASE s = Append(q, x)
  <2>1. s \in Seq(Nat) /\ DOMAIN s = 1 .. Len(q) + 1 /\ DOMAIN q = 1 .. Len(q)
        /\ Len(q) \in Nat
    BY <1>2, <1>3, <1>6
  <2>2. \A i \in 1 .. Len(q) + 1 : s[i] = IF i = Len(q) + 1 THEN x ELSE q[i]
    BY <1>2, <1>6
  <2>3. \A i \in DOMAIN s : i \in DOMAIN q \/ i = Len(q) + 1  BY <2>1
  <2> QED  BY <1>1, <1>3, <2>1, <2>2, <2>3
<1> QED  BY <1>4, <1>5, <1>6

LEMMA TakenIs ==
    ASSUME NEW r, EndOK(r), NEW p, Shaped(p), NEW t, t = Taken(r, p)
    PROVE  EndOK(t) /\ Keeps(r, t) /\ SameOutput(r, t)
<1>1. CASE IsBareAck(p)
  <2>1. t = r  BY <1>1 DEF Taken
  <2> QED  BY <2>1 DEF Keeps, SameOutput, EndOK, RelOK
<1>2. CASE ~ IsBareAck(p)
  <2>1. p.pid \in Nat  BY <1>2 DEF Shaped, IsBareAck
  <2>2. PICK q : q = [p EXCEPT !.acks = {}]  OBVIOUS
  <2>3. q.pid = p.pid  BY <2>2 DEF Shaped
  <2>4. PICK kept : kept = IF p.pid < r.in_counter \/ p.pid \in Pids(r.in_buf)
                           THEN r.in_buf ELSE r.in_buf \cup {q}
    OBVIOUS
  <2>5. IsFiniteSet(r.in_buf) /\ r.in_counter \in Nat
    BY DEF EndOK, BufferAhead, RelOK
  <2>6. IsFiniteSet(kept)
    <3>1. IsFiniteSet(r.in_buf \cup {q})  BY <2>5, FS_AddElement
    <3> QED  BY <2>4, <2>5, <3>1
  <2>7. /\ \A b \in kept : b.pid \in Nat
        /\ \A b \in r.in_buf : b \in kept
        /\ p.pid < r.in_counter \/ p.pid \in Pids(kept)
    BY <2>1, <2>3, <2>4 DEF EndOK, BufferAhead, Pids
  <2>8. PICK after : after = Drained(kept, r.in_counter)  OBVIOUS
  <2>9. after \in Nat /\ r.in_counter <= after /\ after \notin Pids(kept)
    BY <2>5, <2>6, <2>7, <2>8, DrainedIs
  <2>10. PICK owed : owed = Owed(r, p)  OBVIOUS
  <2>11. PICK rest : rest = {b \in kept : b.pid >= after}  OBVIOUS
  <2>12. t = [r EXCEPT !.pending_ack = owed, !.in_buf = rest, !.in_counter = after]
    BY <1>2, <2>2, <2>4, <2>8, <2>10, <2>11 DEF Taken
  <2>13. t = [out_counter |-> r.out_counter, unacked |-> r.unacked, held |-> r.held,
              in_counter |-> after, in_buf |-> rest, pending_ack |-> owed]
    BY <2>12 DEF EndOK, RelOK
  <2>14. /\ t.out_counter = r.out_counter /\ t.unacked = r.unacked /\ t.held = r.held
         /\ t.in_counter = after /\ t.in_buf = rest /\ t.pending_ack = owed
    BY <2>13
  <2>15. SameOutput(r, t)  BY <2>14 DEF SameOutput
  <2>16. /\ owed \in Seq(Nat)
         /\ \A i \in DOMAIN owed :
                owed[i] = p.pid \/ \E j \in DOMAIN r.pending_ack : owed[i] = r.pending_ack[j]
    BY <2>1, <2>10, OwedIs DEF EndOK
  <2>17. RelOK(t)
    <3>1. t = [out_counter |-> t.out_counter, unacked |-> t.unacked, held |-> t.held,
               in_counter |-> t.in_counter, in_buf |-> t.in_buf,
               pending_ack |-> t.pending_ack]
      BY <2>13, <2>14
    <3> QED  BY <2>9, <2>14, <2>16, <3>1 DEF EndOK, RelOK
  <2>18. BufferAhead(t)
    <3>1. IsFiniteSet(rest)
      <4>1. rest \in SUBSET kept  BY <2>11
      <4> QED  BY <2>6, <4>1, FS_Subset
    <3>2. \A b \in rest : b.pid \in Nat /\ after < b.pid
      BY <2>7, <2>9, <2>11 DEF Pids
    <3> QED  BY <2>14, <3>1, <3>2 DEF BufferAhead
  <2>19. ASSUME NEW pid \in Nat, pid < r.in_counter \/ pid \in Pids(kept)
         PROVE  HasTaken(t, pid)
    <3>1. CASE pid < after  BY <2>14, <3>1 DEF HasTaken
    <3>2. CASE ~ (pid < after)
      <4>1. pid \in Pids(kept)  BY <2>5, <2>9, <2>19, <3>2
      <4>2. PICK b \in kept : b.pid = pid  BY <4>1 DEF Pids
      <4>3. b \in rest  BY <2>9, <2>11, <3>2, <4>2
      <4> QED  BY <2>14, <4>2, <4>3 DEF HasTaken, Pids
    <3> QED  BY <3>1, <3>2
  <2>20. Keeps(r, t)
    <3>1. \A pid \in Nat : HasTaken(r, pid) => pid < r.in_counter \/ pid \in Pids(kept)
      BY <2>7 DEF HasTaken, Pids
    <3> QED  BY <2>9, <2>14, <2>19, <3>1 DEF Keeps
  <2>21. OwesTaken(t)
    <3>1. ASSUME NEW i \in DOMAIN owed PROVE HasTaken(t, owed[i])
      <4>1. owed[i] \in Nat  BY <2>16
      <4>2. CASE owed[i] = p.pid  BY <2>1, <2>7, <2>19, <4>2
      <4>3. CASE \E j \in DOMAIN r.pending_ack : owed[i] = r.pending_ack[j]
        <5>1. HasTaken(r, owed[i])  BY <4>3 DEF EndOK, OwesTaken
        <5> QED  BY <2>20, <4>1, <5>1 DEF Keeps
      <4> QED  BY <2>16, <4>2, <4>3
    <3> QED  BY <2>14, <3>1 DEF OwesTaken
  <2> QED  BY <2>15, <2>17, <2>18, <2>20, <2>21 DEF EndOK
<1> QED  BY <1>1, <1>2

(* What is left of r once the ACKs of p are taken.                         *)
Purges(r, p, a) ==
    /\ EndOK(a) /\ Keeps(r, a)
    /\ a.out_counter = r.out_counter /\ a.held = r.held
    /\ \A u : u \in a.unacked <=> u \in r.unacked /\ u.pid \notin p.acks

LEMMA PurgedIs ==
    ASSUME NEW r, EndOK(r), NEW p
    PROVE  Purges(r, p, Purged(r, p))
<1>0. PICK a : a = Purged(r, p)  OBVIOUS
<1>1. PICK left : left = {u \in r.unacked : u.pid \notin p.acks}  OBVIOUS
<1>2. a = [r EXCEPT !.unacked = left]  BY <1>0, <1>1 DEF Purged
<1>3. a = [out_counter |-> r.out_counter, unacked |-> left, held |-> r.held,
           in_counter |-> r.in_counter, in_buf |-> r.in_buf,
           pending_ack |-> r.pending_ack]
  BY <1>2 DEF EndOK, RelOK
<1>4. /\ a.out_counter = r.out_counter /\ a.unacked = left /\ a.held = r.held
      /\ a.in_counter = r.in_counter /\ a.in_buf = r.in_buf
      /\ a.pending_ack = r.pending_ack
  BY <1>3
<1>5. RelOK(a)  BY <1>1, <1>3, <1>4 DEF EndOK, RelOK
<1>6. \A pid : HasTaken(a, pid) <=> HasTaken(r, pid)  BY <1>4 DEF HasTaken
<1>7. BufferAhead(a) /\ OwesTaken(a)
  BY <1>4, <1>6 DEF EndOK, BufferAhead, OwesTaken
<1>8. Keeps(r, a)  BY <1>4, <1>6 DEF Keeps, EndOK, RelOK
<1>9. Purges(r, p, a)  BY <1>1, <1>4, <1>5, <1>7, <1>8 DEF EndOK, Purges
<1> QED  BY <1>0, <1>9

LEMMA RoomIs == ASSUME NEW r, EndOK(r) PROVE Room(r) \in Int
<1>1. PICK oldest : oldest = IF r.unacked = {} THEN r.out_counter
                             ELSE Min(Pids(r.unacked))
  OBVIOUS
<1>2. oldest \in Int
  <2>1. CASE r.unacked = {}  BY <1>1, <2>1 DEF EndOK, RelOK
  <2>2. CASE r.unacked # {}
    <3>1. Pids(r.unacked) \in SUBSET Nat /\ Pids(r.unacked) # {}
      BY <2>2 DEF EndOK, RelOK, Pids
    <3>2. Min(Pids(r.unacked)) \in Pids(r.unacked)  BY <3>1, LeastIs
    <3> QED  BY <1>1, <2>2, <3>1, <3>2
  <2> QED  BY <2>1, <2>2
<1>3. PICK x : x = oldest + N_SEND_BUFFERS - r.out_counter  OBVIOUS
<1>4. x \in Int  BY <1>2, <1>3, ConstantsAre DEF EndOK, RelOK
<1>5. Max({0, x}) \in Int  BY <1>4, MaxOfTwo
<1> QED  BY <1>1, <1>3, <1>5 DEF Room

(* The n packets pump frames have the ids that are next.                   *)
Frames(e, r, new, n) ==
    /\ Len(new) = n /\ DOMAIN new = 1 .. n
    /\ \A i \in 1 .. n : /\ Shaped(new[i]) /\ new[i].to = Peer(e)
                         /\ new[i].op = "CONTROL"
                         /\ new[i].pid = r.out_counter + i - 1
                         /\ new[i].acks = {} /\ new[i].ours = TRUE

LEMMA FramedIs ==
    ASSUME NEW e \in Ends, NEW r, EndOK(r), NEW new, new = Framed(e, r)
    PROVE  \E n \in Nat : Frames(e, r, new, n)
<1>1. PICK m : m = IF ResetAcked(r) THEN Min({Room(r), CeilDiv(Len(r.held), MTU)}) ELSE 0
  OBVIOUS
<1>2. m \in Int
  <2>1. Len(r.held) \in Nat  BY DEF EndOK, RelOK
  <2>2. CeilDiv(Len(r.held), MTU) \in Int
    <3>1. PICK a \in Nat, b \in Nat \ {0} : a = Len(r.held) /\ b = MTU
      BY <2>1, ConstantsAre
    <3>2. (a + b - 1) \div b \in Int  OBVIOUS
    <3> QED  BY <3>1, <3>2 DEF CeilDiv
  <2>3. Min({Room(r), CeilDiv(Len(r.held), MTU)}) \in Int
    <3>1. PICK a \in Int, b \in Int : a = Room(r) /\ b = CeilDiv(Len(r.held), MTU)
      BY <2>2, RoomIs
    <3>2. Min({a, b}) \in Int  BY MinOfTwo
    <3> QED  BY <3>1, <3>2
  <2> QED  BY <1>1, <2>3
<1>3. PICK n : n = IF m < 0 THEN 0 ELSE m  OBVIOUS
<1>4. n \in Nat /\ 1 .. m = 1 .. n  BY <1>2, <1>3
<1>5. new = [i \in 1 .. n |-> Packet(Peer(e), "CONTROL", r.out_counter + i - 1,
                                     Slice(r.held, MTU, i), {})]
  BY <1>1, <1>4 DEF Framed
<1>6. DOMAIN new = 1 .. n /\ Len(new) = n  BY <1>4, <1>5
<1>7. ASSUME NEW i \in 1 .. n
      PROVE  /\ Shaped(new[i]) /\ new[i].to = Peer(e) /\ new[i].op = "CONTROL"
             /\ new[i].pid = r.out_counter + i - 1
             /\ new[i].acks = {} /\ new[i].ours = TRUE
  <2>1. r.out_counter + i - 1 \in Nat  BY <1>4 DEF EndOK, RelOK
  <2>2. PICK p : p = Packet(Peer(e), "CONTROL", r.out_counter + i - 1,
                            Slice(r.held, MTU, i), {})
    OBVIOUS
  <2>3. /\ Shaped(p) /\ p.to = Peer(e) /\ p.op = "CONTROL"
        /\ p.pid = r.out_counter + i - 1 /\ p.acks = {} /\ p.ours = TRUE
    BY <2>1, <2>2, PeerIs DEF Packet, Shaped
  <2>4. new[i] = p  BY <1>5, <2>2
  <2> QED  BY <2>3, <2>4
<1> QED  BY <1>4, <1>6, <1>7 DEF Frames

(* Each packet framed is held for retransmission.                          *)
LEMMA PumpedIs ==
    ASSUME NEW e \in Ends, NEW r, EndOK(r), NEW t, t = Pumped(e, r)
    PROVE  /\ EndOK(t) /\ Keeps(r, t) /\ r.out_counter <= t.out_counter
           /\ r.unacked \subseteq t.unacked
           /\ \A pid \in 0 .. t.out_counter - 1 \ Pids(t.unacked) : pid < r.out_counter
           /\ \A u \in t.unacked : u \in r.unacked \/ (Shaped(u) /\ u.to = Peer(e))
<1>1. PICK new : new = Framed(e, r)  OBVIOUS
<1>2a. PICK n \in Nat : Frames(e, r, new, n)  BY <1>1, FramedIs
<1>2. /\ Len(new) = n /\ DOMAIN new = 1 .. n
      /\ \A i \in 1 .. n : /\ Shaped(new[i]) /\ new[i].to = Peer(e)
                           /\ new[i].op = "CONTROL"
                           /\ new[i].pid = r.out_counter + i - 1
                           /\ new[i].acks = {} /\ new[i].ours = TRUE
  BY <1>2a DEF Frames
<1>3. PICK held : held = SubSeq(r.held, n * MTU + 1, Len(r.held))  OBVIOUS
<1>4. held \in Seq(Nat)
  <2>1. r.held \in Seq(Nat)  BY DEF EndOK, RelOK
  <2>2. PICK k \in Nat : k = n * MTU
    <3>1. \A a, b \in Nat : a * b \in Nat  OBVIOUS
    <3> QED  BY <3>1, ConstantsAre
  <2>3. \A i \in k + 1 .. Len(r.held) : r.held[i] \in Nat  BY <2>1
  <2>4. SubSeq(r.held, k + 1, Len(r.held)) \in Seq(Nat)
    <3>1. k + 1 \in Int /\ Len(r.held) \in Int  BY <2>1
    <3> QED  BY <2>3, <3>1, SubSeqProperties
  <2> QED  BY <1>3, <2>2, <2>4
<1>5. PICK un : un = r.unacked \cup ToSet(new)  OBVIOUS
<1>6. t = [r EXCEPT !.out_counter = @ + n, !.unacked = un, !.held = held,
                    !.pending_ack = <<>>]
  BY <1>1, <1>2, <1>3, <1>5 DEF Pumped
<1>7. t = [out_counter |-> r.out_counter + n, unacked |-> un, held |-> held,
           in_counter |-> r.in_counter, in_buf |-> r.in_buf, pending_ack |-> <<>>]
  BY <1>6 DEF EndOK, RelOK
<1>8. /\ t.out_counter = r.out_counter + n /\ t.unacked = un /\ t.held = held
      /\ t.in_counter = r.in_counter /\ t.in_buf = r.in_buf /\ t.pending_ack = <<>>
  BY <1>7
<1>9. r.out_counter \in Nat  BY DEF EndOK, RelOK
<1>10. \A u \in un : u \in r.unacked \/ \E i \in 1 .. n : u = new[i]
  BY <1>2, <1>5 DEF ToSet
<1>11. \A i \in 1 .. n : new[i] \in un  BY <1>2, <1>5 DEF ToSet
<1>12. RelOK(t)
  <2>1. t = [out_counter |-> t.out_counter, unacked |-> t.unacked, held |-> t.held,
             in_counter |-> t.in_counter, in_buf |-> t.in_buf,
             pending_ack |-> t.pending_ack]
    BY <1>7, <1>8
  <2>2. \A u \in un : u.pid \in Nat /\ u.acks = {}
    BY <1>2, <1>9, <1>10 DEF EndOK, RelOK
  <2> QED  BY <1>4, <1>8, <1>9, <2>1, <2>2 DEF EndOK, RelOK
<1>13. \A pid : HasTaken(t, pid) <=> HasTaken(r, pid)  BY <1>8 DEF HasTaken
<1>14. BufferAhead(t) /\ OwesTaken(t)
  BY <1>8 DEF EndOK, BufferAhead, OwesTaken
<1>15. Keeps(r, t)  BY <1>8, <1>13 DEF Keeps, EndOK, RelOK
<1>16. ASSUME NEW pid \in 0 .. t.out_counter - 1, pid \notin Pids(t.unacked),
              ~ (pid < r.out_counter)
       PROVE  FALSE
  <2>1. PICK i : i = pid - r.out_counter + 1  OBVIOUS
  <2>2. i \in 1 .. n /\ r.out_counter + i - 1 = pid  BY <1>8, <1>9, <1>16, <2>1
  <2>3. new[i].pid = pid /\ new[i] \in un  BY <1>2, <1>11, <2>2
  <2> QED  BY <1>8, <1>16, <2>3 DEF Pids
<1>17. r.unacked \subseteq t.unacked /\ r.out_counter <= t.out_counter
  BY <1>5, <1>8, <1>9
<1>18. \A u \in t.unacked : u \in r.unacked \/ (Shaped(u) /\ u.to = Peer(e))
  BY <1>2, <1>8, <1>10
<1>19. \A pid \in 0 .. t.out_counter - 1 \ Pids(t.unacked) : pid < r.out_counter
  BY <1>16
<1> QED  BY <1>12, <1>14, <1>15, <1>17, <1>18, <1>19 DEF EndOK

(* The ACKs of a slice are among those owed.                               *)
LEMMA SliceIs ==
    ASSUME NEW q \in Seq(Nat), NEW i \in Nat \ {0}
    PROVE  \A a \in ToSet(Slice(q, ACK_MAX, i)) : a \in Nat /\ \E j \in DOMAIN q : a = q[j]
<1>1. PICK k \in Nat : k = (i - 1) * ACK_MAX
  <2>1. \A a, b \in Nat : a * b \in Nat  OBVIOUS
  <2> QED  BY <2>1, ConstantsAre
<1>2. PICK l \in Int : l = i * ACK_MAX
  <2>1. \A a, b \in Int : a * b \in Int  OBVIOUS
  <2> QED  BY <2>1, ConstantsAre
<1>3. Len(q) \in Nat /\ DOMAIN q = 1 .. Len(q)  OBVIOUS
<1>4. PICK m : m = Min({l, Len(q)})  OBVIOUS
<1>5. m \in Int /\ m <= Len(q)
  <2>1. PICK len \in Nat : len = Len(q)  BY <1>3
  <2>2. len \in Int  OBVIOUS
  <2>3. Min({l, len}) \in {l, len} /\ Min({l, len}) <= len  BY <2>2, MinOfTwo
  <2> QED  BY <1>4, <2>1, <2>2, <2>3
<1>6. PICK s : s = SubSeq(q, k + 1, m)  OBVIOUS
<1>7. \A j \in k + 1 .. m : q[j] \in Nat /\ j \in DOMAIN q  BY <1>3, <1>5
<1>8. /\ s \in Seq(Nat)
      /\ Len(s) = IF k + 1 <= m THEN m - (k + 1) + 1 ELSE 0
      /\ \A j \in 1 .. m - (k + 1) + 1 : s[j] = q[k + 1 + j - 1]
  <2>1. PICK a \in Int : a = k + 1  OBVIOUS
  <2>2. \A x \in a .. m : q[x] \in Nat  BY <1>7, <2>1
  <2>3. m \in Int  BY <1>5
  <2>4. /\ SubSeq(q, a, m) \in Seq(Nat)
        /\ Len(SubSeq(q, a, m)) = IF a <= m THEN m - a + 1 ELSE 0
        /\ \A j \in 1 .. m - a + 1 : SubSeq(q, a, m)[j] = q[a + j - 1]
    BY <2>1, <2>2, <2>3, SubSeqProperties
  <2>5. s = SubSeq(q, a, m)  BY <1>6, <2>1
  <2> QED  BY <2>1, <2>4, <2>5
<1>9. ASSUME NEW j \in DOMAIN s PROVE s[j] \in Nat /\ \E x \in DOMAIN q : s[j] = q[x]
  <2>1. DOMAIN s = 1 .. Len(s)  BY <1>8
  <2>2. PICK n \in Int : n = Len(s)  BY <1>8
  <2>3. n = IF k + 1 <= m THEN m - (k + 1) + 1 ELSE 0  BY <1>8, <2>2
  <2>4. j \in Int /\ 1 <= j /\ j <= n  BY <2>1, <2>2
  <2>5. k + 1 <= m /\ n = m - k  BY <1>5, <2>3, <2>4
  <2>6. j \in 1 .. m - (k + 1) + 1  BY <1>5, <2>4, <2>5
  <2>7. k + 1 + j - 1 \in k + 1 .. m  BY <1>5, <2>4, <2>5
  <2> QED  BY <1>7, <1>8, <2>6, <2>7
<1>10. Slice(q, ACK_MAX, i) = s  BY <1>1, <1>2, <1>4, <1>6 DEF Slice
<1> QED  BY <1>9, <1>10 DEF ToSet

(* What pump puts on the wire acknowledges only what is owed.              *)
LEMMA OutputIs ==
    ASSUME NEW e \in Ends, NEW r, EndOK(r), NEW p \in PumpOutput(e, r)
    PROVE  Shaped(p) /\ p.to = Peer(e) /\ \A a \in p.acks : HasTaken(r, a)
<1>1. PICK new : new = Framed(e, r)  OBVIOUS
<1>2a. PICK n \in Nat : Frames(e, r, new, n)  BY <1>1, FramedIs
<1>2. /\ Len(new) = n /\ DOMAIN new = 1 .. n
      /\ \A i \in 1 .. n : /\ Shaped(new[i]) /\ new[i].to = Peer(e)
                           /\ new[i].op = "CONTROL"
                           /\ new[i].pid = r.out_counter + i - 1
                           /\ new[i].acks = {} /\ new[i].ours = TRUE
  BY <1>2a DEF Frames
<1>3. PICK q : q = r.pending_ack  OBVIOUS
<1>4. q \in Seq(Nat)  BY <1>3 DEF EndOK, RelOK
<1>5. ASSUME NEW i \in Nat \ {0}, NEW A, A = ToSet(Slice(q, ACK_MAX, i))
      PROVE  A \in SUBSET Nat /\ \A a \in A : HasTaken(r, a)
  BY <1>3, <1>4, <1>5, SliceIs DEF EndOK, OwesTaken
<1>6. \/ \E i \in DOMAIN new : p = [new[i] EXCEPT !.acks = ToSet(Slice(q, ACK_MAX, i))]
      \/ \E i \in n + 1 .. CeilDiv(Len(q), ACK_MAX) :
            p = Packet(Peer(e), "ACK", NoPid, <<>>, ToSet(Slice(q, ACK_MAX, i)))
  BY <1>1, <1>2, <1>3 DEF PumpOutput
<1>7. CASE \E i \in DOMAIN new : p = [new[i] EXCEPT !.acks = ToSet(Slice(q, ACK_MAX, i))]
  <2>1. PICK i \in 1 .. n : p = [new[i] EXCEPT !.acks = ToSet(Slice(q, ACK_MAX, i))]
    BY <1>2, <1>7
  <2>2. PICK A : A = ToSet(Slice(q, ACK_MAX, i))  OBVIOUS
  <2>3. A \in SUBSET Nat /\ \A a \in A : HasTaken(r, a)  BY <1>2, <1>5, <2>2
  <2>4. PICK b : b = new[i]  OBVIOUS
  <2>5. Shaped(b) /\ b.to = Peer(e) /\ b.op = "CONTROL" /\ b.pid \in Nat
    BY <1>2, <2>4 DEF EndOK, RelOK
  <2>6. p = [to |-> b.to, op |-> b.op, pid |-> b.pid, data |-> b.data, acks |-> A,
             ours |-> b.ours]
    BY <2>1, <2>2, <2>4, <2>5 DEF Shaped
  <2> QED  BY <2>3, <2>5, <2>6 DEF Shaped
<1>8. CASE \E i \in n + 1 .. CeilDiv(Len(q), ACK_MAX) :
            p = Packet(Peer(e), "ACK", NoPid, <<>>, ToSet(Slice(q, ACK_MAX, i)))
  <2>1. CeilDiv(Len(q), ACK_MAX) \in Int
    <3>1. PICK a \in Nat, b \in Nat \ {0} : a = Len(q) /\ b = ACK_MAX
      BY <1>4, ConstantsAre
    <3>2. (a + b - 1) \div b \in Int  OBVIOUS
    <3> QED  BY <3>1, <3>2 DEF CeilDiv
  <2>2. PICK i \in Nat \ {0} :
            p = Packet(Peer(e), "ACK", NoPid, <<>>, ToSet(Slice(q, ACK_MAX, i)))
    <3>1. PICK c \in Int : c = CeilDiv(Len(q), ACK_MAX)  BY <2>1
    <3>2. \A i \in n + 1 .. c : i \in Nat \ {0}  BY <3>1
    <3> QED  BY <1>8, <3>1, <3>2
  <2>3. PICK A : A = ToSet(Slice(q, ACK_MAX, i))  OBVIOUS
  <2>4. A \in SUBSET Nat /\ \A a \in A : HasTaken(r, a)  BY <1>5, <2>3
  <2>5. p = Packet(Peer(e), "ACK", NoPid, <<>>, A)  BY <2>2, <2>3
  <2>6. Shaped(p) /\ p.to = Peer(e) /\ p.acks = A
    BY <2>4, <2>5, PeerIs DEF Packet, Shaped
  <2> QED  BY <2>4, <2>6
<1> QED  BY <1>6, <1>7, <1>8

-----------------------------------------------------------------------------
(* What has left the retransmission buffer of r the peer has taken.        *)
AckedTaken(r, peer) ==
    \A pid \in 0 .. r.out_counter - 1 \ Pids(r.unacked) : HasTaken(peer, pid)

(* End e goes on to r, and sends out.                                      *)
Advance(e, r, out) ==
    /\ EndOK(r) /\ 0 < r.out_counter /\ Keeps(rel[e], r)
    /\ \A u \in r.unacked : Shaped(u) /\ u.to = Peer(e)
    /\ AckedTaken(r, rel[Peer(e)])
    /\ rel' = [rel EXCEPT ![e] = r]
    /\ net' \subseteq net \cup out
    /\ \A p \in out : /\ Shaped(p) /\ p.to = Peer(e)
                      /\ \A a \in p.acks : HasTaken(r, a)

LEMMA AdvanceKeeps ==
    ASSUME Core, NEW e \in Ends, NEW r, NEW out, Advance(e, r, out),
           wrote' \in [Ends -> Nat], tls_in' = [x \in Ends |-> tls_in'[x]]
    PROVE  Core' /\ rel[Client].in_counter <= rel'[Client].in_counter
<1>1. rel = [x \in Ends |-> rel[x]] /\ rel'[e] = r
      /\ \A x \in Ends : x # e => rel'[x] = rel[x]
  BY DEF Core, Shape, Advance
<1>2. rel' = [x \in Ends |-> rel'[x]]  BY <1>1 DEF Advance
<1>3. \A x \in Ends : EndOK(rel[x]) /\ EndOK(rel'[x])
  BY <1>1 DEF Core, Advance
<1>4. \A x \in Ends : \A pid \in Nat : HasTaken(rel[x], pid) => HasTaken(rel'[x], pid)
  BY <1>1 DEF Advance, Keeps
<1>5. Shape'
  <2>1. \A x \in Ends : ~ Opened(x)' => rel'[x] = NewReliable
    <3>1. ~ (r.out_counter = 0) /\ r.out_counter > 0  BY DEF Advance, EndOK, RelOK
    <3> QED  BY <1>1, <3>1 DEF Core, Shape, Opened
  <2>2. \A x \in Ends : \A u \in rel'[x].unacked : Shaped(u) /\ u.to = Peer(x)
    BY <1>1 DEF Core, Shape, Advance
  <2>3. \A p \in net' : Shaped(p)  BY DEF Core, Shape, Advance
  <2> QED  BY <1>2, <2>1, <2>2, <2>3 DEF Shape
<1>6. AcksTrue'
  <2>1. ASSUME NEW p \in net', p.ours, NEW a \in p.acks
        PROVE  HasTaken(rel'[Peer(p.to)], a)
    <3>1. CASE p \in net
      <4>1. p.to \in Ends /\ a \in Nat  BY <2>1, <3>1 DEF Core, Shape, Shaped
      <4>2. HasTaken(rel[Peer(p.to)], a)  BY <2>1, <3>1 DEF Core, AcksTrue
      <4> QED  BY <1>4, <4>1, <4>2, PeerIs
    <3>2. CASE p \in out
      <4>1. Peer(p.to) = e /\ HasTaken(r, a)  BY <2>1, <3>2, PeerIs DEF Advance
      <4> QED  BY <1>1, <4>1
    <3> QED  BY <2>1, <3>1, <3>2 DEF Advance
  <2> QED  BY <2>1 DEF AcksTrue
<1>7. AckedMeansTaken'
  <2>1. ASSUME NEW x \in Ends PROVE AckedTaken(rel'[x], rel[Peer(x)])
    BY <1>1, <2>1 DEF Core, AckedMeansTaken, AckedTaken, HasTaken, Advance
  <2>2. ASSUME NEW x \in Ends PROVE AckedTaken(rel'[x], rel'[Peer(x)])
    <3>1. rel'[x].out_counter \in Nat  BY <1>3 DEF EndOK, RelOK
    <3>2. \A pid \in 0 .. rel'[x].out_counter - 1 : pid \in Nat  BY <3>1
    <3> QED  BY <1>4, <2>1, <3>2, PeerIs DEF AckedTaken
  <2> QED  BY <2>2 DEF AckedMeansTaken, AckedTaken, HasTaken
<1>8. rel[Client].in_counter <= rel'[Client].in_counter
  <2>1. Client \in Ends /\ rel[Client].in_counter \in Nat
    BY <1>3 DEF Ends, EndOK, RelOK
  <2> QED  BY <1>1, <2>1 DEF Advance, Keeps
<1> QED  BY <1>3, <1>5, <1>6, <1>7, <1>8 DEF Core

LEMMA CarryIs == ASSUME NEW out, net' \in Carry(out) PROVE net' \subseteq net \cup out
BY DEF Carry

LEMMA PurgeKeeps ==
    ASSUME Core, NEW p \in net, ~ ForAnotherSession(p),
           NEW a, a = Purged(rel[p.to], p)
    PROVE  /\ EndOK(a) /\ Keeps(rel[p.to], a)
           /\ a.out_counter = rel[p.to].out_counter
           /\ a.unacked \subseteq rel[p.to].unacked
           /\ AckedTaken(a, rel[Peer(p.to)])
<1>1. p.to \in Ends /\ Shaped(p)  BY DEF Core, Shape, Shaped
<1>2. PICK r : r = rel[p.to]  OBVIOUS
<1>3. EndOK(r)  BY <1>1, <1>2 DEF Core
<1>4. /\ EndOK(a) /\ Keeps(r, a) /\ a.out_counter = r.out_counter
      /\ \A u : u \in a.unacked <=> u \in r.unacked /\ u.pid \notin p.acks
  <2>1. Purges(r, p, Purged(r, p))  BY <1>3, PurgedIs
  <2> QED  BY <1>2, <2>1 DEF Purges
<1>5. ASSUME NEW pid \in 0 .. a.out_counter - 1, pid \notin Pids(a.unacked)
      PROVE  HasTaken(rel[Peer(p.to)], pid)
  <2>1. CASE pid \in p.acks
    <3>1. p.ours
      BY <2>1 DEF ForAnotherSession
    <3> QED  BY <2>1, <3>1 DEF Core, AcksTrue
  <2>2. CASE pid \notin p.acks
    <3>1. pid \notin Pids(r.unacked)
      <4>1. SUFFICES ASSUME NEW u \in r.unacked, u.pid = pid PROVE FALSE
        BY DEF Pids
      <4>2. u \in a.unacked  BY <1>4, <2>2, <4>1
      <4> QED  BY <1>5, <4>1, <4>2 DEF Pids
    <3> QED  BY <1>1, <1>2, <1>4, <1>5, <3>1 DEF Core, AckedMeansTaken, HasTaken
  <2> QED  BY <2>1, <2>2
<1>6. AckedTaken(a, rel[Peer(p.to)])  BY <1>5 DEF AckedTaken
<1>7. a.unacked \subseteq r.unacked  BY <1>4
<1> QED  BY <1>2, <1>4, <1>6, <1>7

(* Pumping after r has been reached from the state of end e.               *)
LEMMA PumpAdvances ==
    ASSUME Core, NEW e \in Ends, NEW r, EndOK(r), 0 < r.out_counter,
           Keeps(rel[e], r), \A u \in r.unacked : Shaped(u) /\ u.to = Peer(e),
           AckedTaken(r, rel[Peer(e)]),
           rel' = [rel EXCEPT ![e] = Pumped(e, r)],
           net' \in Carry(PumpOutput(e, r))
    PROVE  Advance(e, Pumped(e, r), PumpOutput(e, r))
<1>1. PICK t : t = Pumped(e, r)  OBVIOUS
<1>2. /\ EndOK(t) /\ Keeps(r, t) /\ r.out_counter <= t.out_counter
      /\ r.unacked \subseteq t.unacked
      /\ \A pid \in 0 .. t.out_counter - 1 \ Pids(t.unacked) : pid < r.out_counter
      /\ \A u \in t.unacked : u \in r.unacked \/ (Shaped(u) /\ u.to = Peer(e))
  BY <1>1, PumpedIs
<1>3. /\ r.out_counter \in Nat /\ t.out_counter \in Nat
      /\ r.in_counter \in Nat /\ t.in_counter \in Nat /\ rel[e].in_counter \in Nat
  BY <1>2 DEF Core, EndOK, RelOK
<1>4. Keeps(rel[e], t)  BY <1>2, <1>3 DEF Keeps
<1>5. AckedTaken(t, rel[Peer(e)])
  <2>1. ASSUME NEW pid \in 0 .. t.out_counter - 1, pid \notin Pids(t.unacked)
        PROVE  pid \in 0 .. r.out_counter - 1 /\ pid \notin Pids(r.unacked)
    <3>1. pid < r.out_counter  BY <1>2, <2>1
    <3>2. pid \notin Pids(r.unacked)  BY <1>2, <2>1 DEF Pids
    <3> QED  BY <1>3, <3>1, <3>2
  <2> QED  BY <2>1 DEF AckedTaken
<1>6. \A p \in PumpOutput(e, r) : /\ Shaped(p) /\ p.to = Peer(e)
                                  /\ \A a \in p.acks : HasTaken(t, a)
  <2>1. ASSUME NEW p \in PumpOutput(e, r)
        PROVE  Shaped(p) /\ p.to = Peer(e) /\ \A a \in p.acks : HasTaken(t, a)
    <3>1. Shaped(p) /\ p.to = Peer(e) /\ \A a \in p.acks : HasTaken(r, a)
      BY OutputIs
    <3>2. p.acks \subseteq Nat  BY <3>1 DEF Shaped
    <3> QED  BY <1>2, <3>1, <3>2 DEF Keeps
  <2> QED  BY <2>1
<1>7. net' \subseteq net \cup PumpOutput(e, r)  BY CarryIs
<1>8. 0 < t.out_counter  BY <1>2, <1>3
<1>9. rel' = [rel EXCEPT ![e] = t]  BY <1>1
<1>10. \A u \in t.unacked : Shaped(u) /\ u.to = Peer(e)  BY <1>2
<1>11. Advance(e, t, PumpOutput(e, r))
  BY <1>2, <1>4, <1>5, <1>6, <1>7, <1>8, <1>9, <1>10 DEF Advance
<1> QED  BY <1>1, <1>11

-----------------------------------------------------------------------------
(* The steps.                                                              *)

(* An end that has sent its reset and no more.                             *)
JustOpened(e, w) ==
    /\ EndOK(w) /\ w.out_counter = 1
    /\ \E reset : /\ w.unacked = {reset} /\ Shaped(reset) /\ reset.to = Peer(e)
                  /\ reset.op = "RESET" /\ reset.pid = 0 /\ reset.acks = {}

LEMMA FreshIs ==
    /\ EndOK(NewReliable) /\ NewReliable.out_counter = 0 /\ NewReliable.unacked = {}
    /\ NewReliable.in_counter = 0 /\ NewReliable.in_buf = {}
    /\ NewReliable = [out_counter |-> 0, unacked |-> {}, held |-> <<>>, in_counter |-> 0,
                      in_buf |-> {}, pending_ack |-> <<>>]
<1>1. /\ NewReliable.out_counter = 0 /\ NewReliable.unacked = {} /\ NewReliable.held = <<>>
      /\ NewReliable.in_counter = 0 /\ NewReliable.in_buf = {}
      /\ NewReliable.pending_ack = <<>>
  BY DEF NewReliable
<1>2. IsFiniteSet({})  BY FS_EmptySet
<1>3. RelOK(NewReliable)  BY <1>1 DEF RelOK, NewReliable
<1>4. BufferAhead(NewReliable) /\ OwesTaken(NewReliable)
  BY <1>1, <1>2 DEF BufferAhead, OwesTaken
<1> QED  BY <1>1, <1>3, <1>4 DEF EndOK, NewReliable

LEMMA ResetIs ==
    ASSUME NEW e \in Ends PROVE JustOpened(e, WithReset(e, NewReliable))
<1>1. PICK reset : reset = Packet(Peer(e), "RESET", 0, <<>>, {})  OBVIOUS
<1>2. /\ Shaped(reset) /\ reset.to = Peer(e) /\ reset.op = "RESET" /\ reset.pid = 0
      /\ reset.acks = {}
  BY <1>1, PeerIs DEF Packet, Shaped
<1>3. PICK n : n = NewReliable  OBVIOUS
<1>4. PICK w : w = WithReset(e, NewReliable)  OBVIOUS
<1>5. n.out_counter = 0 /\ n.unacked = {}  BY <1>3, FreshIs
<1>6. w = [n EXCEPT !.out_counter = @ + 1, !.unacked = @ \cup {reset}]
  BY <1>1, <1>3, <1>4, <1>5 DEF WithReset
<1>7. w = [n EXCEPT !.out_counter = 1, !.unacked = {reset}]
  BY <1>5, <1>6
<1>8. w = [out_counter |-> 1, unacked |-> {reset}, held |-> <<>>, in_counter |-> 0,
           in_buf |-> {}, pending_ack |-> <<>>]
  BY <1>3, <1>7, FreshIs
<1>9. /\ w.out_counter = 1 /\ w.unacked = {reset} /\ w.held = <<>>
      /\ w.in_counter = 0 /\ w.in_buf = {} /\ w.pending_ack = <<>>
  BY <1>8
<1>10. EndOK(w)
  <2>1. IsFiniteSet({})  BY FS_EmptySet
  <2>2. RelOK(w)  BY <1>2, <1>8, <1>9 DEF RelOK
  <2>3. BufferAhead(w) /\ OwesTaken(w)  BY <1>9, <2>1 DEF BufferAhead, OwesTaken
  <2> QED  BY <2>2, <2>3 DEF EndOK
<1>11. JustOpened(e, w)  BY <1>2, <1>9, <1>10 DEF JustOpened
<1> QED  BY <1>4, <1>11

LEMMA CoreInit == Init => Core /\ NoTlsBeforeProof
<1> SUFFICES ASSUME Init PROVE Core /\ NoTlsBeforeProof  OBVIOUS
<1>1. PICK opened : opened = WithReset(Opener, NewReliable)  OBVIOUS
<1>2. JustOpened(Opener, opened)  BY <1>1, ConstantsAre, ResetIs
<1>3. PICK reset : /\ opened.unacked = {reset} /\ Shaped(reset)
                   /\ reset.to = Peer(Opener) /\ reset.pid = 0 /\ reset.acks = {}
  BY <1>2 DEF JustOpened
<1>4. EndOK(opened) /\ opened.out_counter = 1  BY <1>2 DEF JustOpened
<1>10. \A e \in Ends : rel[e] = IF e = Opener THEN opened ELSE NewReliable
  BY <1>1 DEF Init
<1>11. \A e \in Ends : EndOK(rel[e])  BY <1>4, <1>10, FreshIs
<1>12. \A p \in net : p = reset \/ p \in Strays  BY <1>1, <1>3 DEF Init
<1>13. \A p \in Strays : Shaped(p) /\ (p.ours => p.acks = {})
  <2>1. ASSUME NEW e \in Ends, NEW p, p = [Packet(e, "ACK", NoPid, <<>>, {0}) EXCEPT !.ours = FALSE]
        PROVE  Shaped(p) /\ ~ p.ours
    <3>1. p = [to |-> e, op |-> "ACK", pid |-> NoPid, data |-> <<>>, acks |-> {0},
               ours |-> FALSE]
      BY <2>1 DEF Packet
    <3> QED  BY <3>1 DEF Shaped
  <2>2. ASSUME NEW e \in Ends, NEW p, p = Packet(e, "RESET", 1, <<>>, {})
        PROVE  Shaped(p) /\ p.acks = {}
    BY <2>2 DEF Packet, Shaped
  <2> QED  BY <2>1, <2>2 DEF Strays
<1>14. Shape
  <2>1. rel = [e \in Ends |-> rel[e]] /\ tls_in = [e \in Ends |-> tls_in[e]]
        /\ wrote \in [Ends -> Nat]
    BY DEF Init
  <2>2. \A e \in Ends : ~ Opened(e) => rel[e] = NewReliable
    BY <1>4, <1>10 DEF Opened
  <2>3. \A e \in Ends : \A u \in rel[e].unacked : Shaped(u) /\ u.to = Peer(e)
    BY <1>3, <1>10, FreshIs
  <2>4. \A p \in net : Shaped(p)  BY <1>3, <1>12, <1>13
  <2> QED  BY <2>1, <2>2, <2>3, <2>4 DEF Shape
<1>15. AcksTrue  BY <1>3, <1>12, <1>13 DEF AcksTrue
<1>16. AckedMeansTaken
  <2>1. ASSUME NEW e \in Ends, NEW pid \in 0 .. rel[e].out_counter - 1,
               pid \notin Pids(rel[e].unacked)
        PROVE  FALSE
    <3>1. rel[e] = opened  BY <1>10, <2>1, FreshIs
    <3>2. pid = 0  BY <1>4, <2>1, <3>1
    <3> QED  BY <1>3, <2>1, <3>1, <3>2 DEF Pids
  <2> QED  BY <2>1 DEF AckedMeansTaken
<1>17. NoTlsBeforeProof
  <2>1. tls_in[Server] = <<>>  BY DEF Init, Ends
  <2> QED  BY <2>1 DEF NoTlsBeforeProof
<1> QED  BY <1>11, <1>14, <1>15, <1>16, <1>17 DEF Core

(* Open starts from a stream in which nothing has happened.                *)
LEMMA OpenAdvances ==
    ASSUME Core, NEW p, Open(p) PROVE \E e \in Ends : \E r, out : Advance(e, r, out)
<1>1. PICK e : e = p.to  OBVIOUS
<1>2. p \in net /\ Shaped(p) /\ e \in Ends /\ ~ Opened(e)
  BY <1>1 DEF Open, Core, Shape, Shaped
<1>3. rel[e] = NewReliable  BY <1>2 DEF Core, Shape
<1>4. PICK w : w = WithReset(e, NewReliable)  OBVIOUS
<1>5. JustOpened(e, w)  BY <1>2, <1>4, ResetIs
<1>6. PICK reset : /\ w.unacked = {reset} /\ Shaped(reset) /\ reset.to = Peer(e)
                   /\ reset.op = "RESET" /\ reset.pid = 0 /\ reset.acks = {}
  BY <1>5 DEF JustOpened
<1>7. EndOK(w) /\ w.out_counter = 1  BY <1>5 DEF JustOpened
<1>10. PICK r : r = Taken(w, p)  OBVIOUS
<1>11. EndOK(r) /\ SameOutput(w, r)  BY <1>2, <1>7, <1>10, TakenIs
<1>12. PICK t : t = [r EXCEPT !.pending_ack = <<>>]  OBVIOUS
<1>13. t = [out_counter |-> r.out_counter, unacked |-> r.unacked, held |-> r.held,
            in_counter |-> r.in_counter, in_buf |-> r.in_buf, pending_ack |-> <<>>]
  BY <1>11, <1>12 DEF EndOK, RelOK
<1>14. /\ t.out_counter = 1 /\ t.unacked = {reset} /\ t.held = r.held
       /\ t.in_counter = r.in_counter /\ t.in_buf = r.in_buf /\ t.pending_ack = <<>>
  BY <1>6, <1>7, <1>11, <1>13 DEF SameOutput
<1>15. \A pid : HasTaken(t, pid) <=> HasTaken(r, pid)  BY <1>14 DEF HasTaken
<1>16. EndOK(t)
  <2>1. RelOK(t)
    BY <1>6, <1>11, <1>13, <1>14 DEF EndOK, RelOK
  <2>2. BufferAhead(t) /\ OwesTaken(t)
    BY <1>11, <1>14 DEF EndOK, BufferAhead, OwesTaken
  <2> QED  BY <2>1, <2>2 DEF EndOK
<1>17. Keeps(rel[e], t)
  <2>1. rel[e].in_counter = 0 /\ rel[e].in_buf = {}  BY <1>3, FreshIs
  <2>2. t.in_counter \in Nat  BY <1>16 DEF EndOK, RelOK
  <2> QED  BY <2>1, <2>2 DEF Keeps, HasTaken, Pids
<1>18. AckedTaken(t, rel[Peer(e)])
  <2>1. \A pid \in 0 .. 1 - 1 : pid = 0  OBVIOUS
  <2>2. 0 \in Pids(t.unacked)  BY <1>6, <1>14 DEF Pids
  <2> QED  BY <1>14, <2>1, <2>2 DEF AckedTaken
<1>19. PICK out : out = {[u EXCEPT !.acks = ToSet(r.pending_ack)] : u \in r.unacked}
  OBVIOUS
<1>20. rel' = [rel EXCEPT ![e] = t] /\ net' \in Carry(out)
  BY <1>1, <1>4, <1>10, <1>12, <1>19 DEF Open
<1>21. \A q \in out : Shaped(q) /\ q.to = Peer(e) /\ \A a \in q.acks : HasTaken(t, a)
  <2>1. ASSUME NEW q \in out
        PROVE  Shaped(q) /\ q.to = Peer(e) /\ \A a \in q.acks : HasTaken(t, a)
    <3>1. PICK A : A = ToSet(r.pending_ack)  OBVIOUS
    <3>2. A \subseteq Nat /\ \A a \in A : HasTaken(t, a)
      BY <1>11, <1>15, <3>1 DEF ToSet, EndOK, RelOK, OwesTaken
    <3>3. q = [reset EXCEPT !.acks = A]
      BY <1>6, <1>11, <1>19, <2>1, <3>1 DEF SameOutput
    <3>4. q = [to |-> reset.to, op |-> reset.op, pid |-> reset.pid,
               data |-> reset.data, acks |-> A, ours |-> reset.ours]
      BY <1>6, <3>3 DEF Shaped
    <3>5. /\ q.to = Peer(e) /\ q.op = "RESET" /\ q.pid = 0 /\ q.acks = A
          /\ q = [to |-> q.to, op |-> q.op, pid |-> q.pid, data |-> q.data,
                  acks |-> q.acks, ours |-> q.ours]
      BY <1>6, <3>4
    <3> QED  BY <1>2, <3>2, <3>5, PeerIs DEF Shaped
  <2> QED  BY <2>1
<1>22. net' \subseteq net \cup out  BY <1>20, CarryIs
<1>23. 0 < t.out_counter /\ \A u \in t.unacked : Shaped(u) /\ u.to = Peer(e)
  BY <1>6, <1>14
<1>24. Advance(e, t, out)
  BY <1>16, <1>17, <1>18, <1>20, <1>21, <1>22, <1>23 DEF Advance
<1> QED  BY <1>2, <1>24

(* Nothing but packets already held for retransmission is sent.            *)
LEMMA IdleKeeps ==
    ASSUME Core, UNCHANGED <<rel, tls_in, wrote>>, NEW e \in Ends,
           net' \subseteq net \cup rel[e].unacked
    PROVE  Core'
<1>1. \A u \in rel[e].unacked : Shaped(u) /\ u.acks = {}
  BY DEF Core, Shape, EndOK, RelOK
<1>2. Shape'  BY <1>1 DEF Core, Shape, Opened
<1>3. AcksTrue'  BY <1>1 DEF Core, AcksTrue
<1>4. AckedMeansTaken' /\ \A x \in Ends : EndOK(rel'[x])
  BY DEF Core, AckedMeansTaken
<1> QED  BY <1>2, <1>3, <1>4 DEF Core

(* The TLS engine has more output.                                         *)
Writes(r, h) ==
    /\ EndOK(h) /\ h.out_counter = r.out_counter /\ h.unacked = r.unacked
    /\ h.in_counter = r.in_counter /\ h.in_buf = r.in_buf

LEMMA WriteIs ==
    ASSUME NEW r, EndOK(r), NEW x \in Nat
    PROVE  Writes(r, [r EXCEPT !.held = Append(@, x)])
<1>1. PICK q : q = Append(r.held, x)  OBVIOUS
<1>2. q \in Seq(Nat)  BY <1>1 DEF EndOK, RelOK
<1>3. PICK h : h = [r EXCEPT !.held = q]  OBVIOUS
<1>4. h = [out_counter |-> r.out_counter, unacked |-> r.unacked, held |-> q,
           in_counter |-> r.in_counter, in_buf |-> r.in_buf,
           pending_ack |-> r.pending_ack]
  BY <1>3 DEF EndOK, RelOK
<1>5. /\ h.out_counter = r.out_counter /\ h.unacked = r.unacked /\ h.held = q
      /\ h.in_counter = r.in_counter /\ h.in_buf = r.in_buf
      /\ h.pending_ack = r.pending_ack
  BY <1>4
<1>6. RelOK(h)  BY <1>2, <1>4, <1>5 DEF EndOK, RelOK
<1>7. BufferAhead(h) /\ OwesTaken(h)
  BY <1>5 DEF EndOK, BufferAhead, OwesTaken, HasTaken
<1>8. Writes(r, h)  BY <1>5, <1>6, <1>7 DEF Writes, EndOK
<1>9. [r EXCEPT !.held = Append(@, x)] = h  BY <1>1, <1>3
<1> QED  BY <1>8, <1>9

(* An end as it is meets what Advance and PumpAdvances ask of its output.  *)
LEMMA AsItIs ==
    ASSUME Core, NEW e \in Ends, Opened(e), NEW r, EndOK(r),
           r.out_counter = rel[e].out_counter, r.unacked = rel[e].unacked,
           r.in_counter = rel[e].in_counter, r.in_buf = rel[e].in_buf
    PROVE  /\ 0 < r.out_counter /\ Keeps(rel[e], r)
           /\ \A u \in r.unacked : Shaped(u) /\ u.to = Peer(e)
           /\ AckedTaken(r, rel[Peer(e)])
<1>1. 0 < r.out_counter  BY DEF Opened, EndOK, RelOK
<1>2. Keeps(rel[e], r)  BY DEF Keeps, HasTaken, EndOK, RelOK
<1>3. \A u \in r.unacked : Shaped(u) /\ u.to = Peer(e)  BY DEF Core, Shape
<1>4. AckedTaken(r, rel[Peer(e)])
  BY DEF Core, AckedMeansTaken, AckedTaken, HasTaken
<1> QED  BY <1>1, <1>2, <1>3, <1>4

LEMMA KeepsTwice ==
    ASSUME NEW r, NEW s, NEW t, EndOK(r), EndOK(s), EndOK(t), Keeps(r, s), Keeps(s, t)
    PROVE  Keeps(r, t)
BY DEF Keeps, EndOK, RelOK

(* A packet that is taken, on top of its ACKs.                             *)
LEMMA TakeKeeps ==
    ASSUME Core, NEW p \in net, ~ ForAnotherSession(p), Opened(p.to),
           NEW a, a = Purged(rel[p.to], p), NEW r, r = a \/ r = Taken(a, p)
    PROVE  /\ EndOK(r) /\ 0 < r.out_counter /\ Keeps(rel[p.to], r)
           /\ \A u \in r.unacked : Shaped(u) /\ u.to = Peer(p.to)
           /\ AckedTaken(r, rel[Peer(p.to)])
<1>1. p.to \in Ends /\ Shaped(p) /\ EndOK(rel[p.to])  BY DEF Core, Shape, Shaped
<1>2. /\ EndOK(a) /\ Keeps(rel[p.to], a)
      /\ a.out_counter = rel[p.to].out_counter
      /\ a.unacked \subseteq rel[p.to].unacked
      /\ AckedTaken(a, rel[Peer(p.to)])
  BY PurgeKeeps
<1>3. /\ 0 < a.out_counter
      /\ \A u \in a.unacked : Shaped(u) /\ u.to = Peer(p.to)
  BY <1>1, <1>2 DEF Opened, Core, Shape, EndOK, RelOK
<1>4. CASE r = a  BY <1>2, <1>3, <1>4
<1>5. CASE r = Taken(a, p)
  <2>1. EndOK(r) /\ Keeps(a, r) /\ SameOutput(a, r)  BY <1>1, <1>2, <1>5, TakenIs
  <2>2. Keeps(rel[p.to], r)  BY <1>1, <1>2, <2>1, KeepsTwice
  <2>3. r.out_counter = a.out_counter /\ r.unacked = a.unacked  BY <2>1 DEF SameOutput
  <2>4. AckedTaken(r, rel[Peer(p.to)])  BY <1>2, <2>3 DEF AckedTaken
  <2> QED  BY <1>3, <2>1, <2>2, <2>3, <2>4
<1> QED  BY <1>4, <1>5

(* An end whose reset has been acknowledged has a peer that received it.   *)
LEMMA ResetReceived ==
    ASSUME NEW r, NEW q, EndOK(r), EndOK(q), AckedTaken(r, q), ResetAcked(r)
    PROVE  0 < q.in_counter
<1>1. 0 \in 0 .. r.out_counter - 1 /\ 0 \notin Pids(r.unacked)
  BY DEF ResetAcked, EndOK, RelOK
<1>2. HasTaken(q, 0)  BY <1>1 DEF AckedTaken
<1>3. q.in_counter \in Nat /\ \A b \in q.in_buf : b.pid \in Nat /\ q.in_counter < b.pid
  BY DEF EndOK, RelOK, BufferAhead
<1>4. 0 \notin Pids(q.in_buf)  BY <1>3 DEF Pids
<1> QED  BY <1>2, <1>4 DEF HasTaken

(* What a step does to the proof that TLS waits for: the client's counter  *)
(* does not go back, and the server's engine is fed only if it has moved.  *)
ProofKept ==
    /\ rel[Client].in_counter <= rel'[Client].in_counter
    /\ tls_in'[Server] = tls_in[Server] \/ 0 < rel[Client].in_counter

LEMMA ServerReceives ==
    ASSUME Core, NEW p, ServerReceive(p) PROVE Core' /\ ProofKept
<1>1. PICK a : a = Purged(rel[Server], p)  OBVIOUS
<1>2. PICK taken : taken = Taken(a, p)  OBVIOUS
<1>3. PICK bytes : bytes = unproven \o NewBytes(a, p)  OBVIOUS
<1>4. /\ p \in net /\ p.to = Server /\ Opened(Server) /\ wrote' = wrote
      /\ \/ UNCHANGED <<rel, tls_in, net>>
         \/ /\ ~ ForAnotherSession(p)
            /\ rel' = [rel EXCEPT ![Server] = a]
            /\ UNCHANGED <<tls_in, net>>
         \/ /\ ~ ForAnotherSession(p)
            /\ rel' = [rel EXCEPT ![Server] = Pumped(Server, taken)]
            /\ net' \in Carry(PumpOutput(Server, taken))
            /\ tls_in' = IF ResetAcked(taken)
                         THEN [tls_in EXCEPT ![Server] = @ \o bytes] ELSE tls_in
  BY <1>1, <1>2, <1>3 DEF ServerReceive, Alive
<1>5. /\ Server \in Ends /\ Client \in Ends /\ Peer(Server) = Client /\ Server # Client
      /\ EndOK(rel[Client]) /\ rel[Client].in_counter \in Nat
  BY ConstantsAre DEF Ends, Peer, Core, EndOK, RelOK
<1>6. wrote' \in [Ends -> Nat]  BY <1>4 DEF Core, Shape
<1>7. CASE UNCHANGED <<rel, tls_in, net>>
  <2>1. Core'  BY <1>4, <1>5, <1>7, IdleKeeps
  <2> QED  BY <1>5, <1>7, <2>1 DEF ProofKept
<1>8. CASE ~ ForAnotherSession(p) /\ rel' = [rel EXCEPT ![Server] = a]
           /\ UNCHANGED <<tls_in, net>>
  <2>1. /\ EndOK(a) /\ 0 < a.out_counter /\ Keeps(rel[Server], a)
        /\ \A u \in a.unacked : Shaped(u) /\ u.to = Peer(Server)
        /\ AckedTaken(a, rel[Peer(Server)])
    BY <1>1, <1>4, <1>8, TakeKeeps
  <2>2. Advance(Server, a, {})  BY <1>8, <2>1 DEF Advance
  <2>3. tls_in' = [x \in Ends |-> tls_in'[x]]  BY <1>8 DEF Core, Shape
  <2> QED  BY <1>5, <1>6, <1>8, <2>2, <2>3, AdvanceKeeps DEF ProofKept
<1>9. CASE /\ ~ ForAnotherSession(p)
           /\ rel' = [rel EXCEPT ![Server] = Pumped(Server, taken)]
           /\ net' \in Carry(PumpOutput(Server, taken))
           /\ tls_in' = IF ResetAcked(taken)
                        THEN [tls_in EXCEPT ![Server] = @ \o bytes] ELSE tls_in
  <2>1. /\ EndOK(taken) /\ 0 < taken.out_counter /\ Keeps(rel[Server], taken)
        /\ \A u \in taken.unacked : Shaped(u) /\ u.to = Peer(Server)
        /\ AckedTaken(taken, rel[Peer(Server)])
    BY <1>1, <1>2, <1>4, <1>9, TakeKeeps
  <2>2. Advance(Server, Pumped(Server, taken), PumpOutput(Server, taken))
    BY <1>5, <1>9, <2>1, PumpAdvances
  <2>3. tls_in' = [x \in Ends |-> tls_in'[x]]
    BY <1>9 DEF Core, Shape
  <2>4. Core' /\ rel[Client].in_counter <= rel'[Client].in_counter
    BY <1>5, <1>6, <2>2, <2>3, AdvanceKeeps
  <2>5. tls_in'[Server] = tls_in[Server] \/ 0 < rel[Client].in_counter
    <3>1. ResetAcked(taken) => 0 < rel[Client].in_counter
      BY <1>5, <2>1, ResetReceived
    <3> QED  BY <1>9, <3>1
  <2> QED  BY <2>4, <2>5 DEF ProofKept
<1> QED  BY <1>4, <1>7, <1>8, <1>9

LEMMA ClientReceives ==
    ASSUME Core, NEW p, ClientReceive(p) PROVE Core' /\ ProofKept
<1>1. PICK a : a = Purged(rel[Client], p)  OBVIOUS
<1>2. PICK taken : taken = Taken(a, p)  OBVIOUS
<1>3. PICK bytes : bytes = NewBytes(a, p)  OBVIOUS
<1>4. /\ p \in net /\ p.to = Client /\ Opened(Client) /\ UNCHANGED <<wrote, net>>
      /\ \/ UNCHANGED <<rel, tls_in>>
         \/ /\ ~ ForAnotherSession(p)
            /\ \/ rel' = [rel EXCEPT ![Client] = a]
               \/ rel' = [rel EXCEPT ![Client] = taken]
            /\ tls_in' = tls_in \/ tls_in' = [tls_in EXCEPT ![Client] = @ \o bytes]
  BY <1>1, <1>2, <1>3 DEF ClientReceive, Alive
<1>5. /\ Client \in Ends /\ Server # Client /\ Server \in Ends
      /\ rel[Client].in_counter \in Nat
  BY ConstantsAre DEF Ends, Core, EndOK, RelOK
<1>6. wrote' \in [Ends -> Nat]  BY <1>4 DEF Core, Shape
<1>7. CASE UNCHANGED <<rel, tls_in>>
  <2>1. Core'  BY <1>4, <1>5, <1>7, IdleKeeps
  <2> QED  BY <1>5, <1>7, <2>1 DEF ProofKept
<1>8. ASSUME NEW r, r = a \/ r = taken, ~ ForAnotherSession(p),
             rel' = [rel EXCEPT ![Client] = r],
             tls_in' = tls_in \/ tls_in' = [tls_in EXCEPT ![Client] = @ \o bytes]
      PROVE  Core' /\ ProofKept
  <2>1. /\ EndOK(r) /\ 0 < r.out_counter /\ Keeps(rel[Client], r)
        /\ \A u \in r.unacked : Shaped(u) /\ u.to = Peer(Client)
        /\ AckedTaken(r, rel[Peer(Client)])
    BY <1>1, <1>2, <1>4, <1>8, TakeKeeps
  <2>2. Advance(Client, r, {})  BY <1>4, <1>8, <2>1 DEF Advance
  <2>3. tls_in' = [x \in Ends |-> tls_in'[x]] /\ tls_in'[Server] = tls_in[Server]
    BY <1>5, <1>8 DEF Core, Shape
  <2> QED  BY <1>5, <1>6, <2>2, <2>3, AdvanceKeeps DEF ProofKept
<1> QED  BY <1>4, <1>7, <1>8

LEMMA ClientSteps ==
    ASSUME Core, ClientPump \/ ClientWrite PROVE Core' /\ ProofKept
<1>1. /\ Client \in Ends /\ Server # Client /\ Server \in Ends
      /\ EndOK(rel[Client]) /\ rel[Client].in_counter \in Nat
      /\ wrote[Client] \in Nat
  BY ConstantsAre DEF Ends, Core, EndOK, RelOK, Shape
<1>2. tls_in' = tls_in /\ tls_in' = [x \in Ends |-> tls_in'[x]] /\ Opened(Client)
  BY DEF ClientPump, ClientWrite, Alive, Core, Shape
<1>3. wrote' \in [Ends -> Nat]
  BY <1>1 DEF ClientPump, ClientWrite, Core, Shape
<1>4. \E r, out : Advance(Client, r, out)
  <2>1. CASE ClientPump
    <3>1. PICK r : r = rel[Client]  OBVIOUS
    <3>2. /\ rel' = [rel EXCEPT ![Client] = Pumped(Client, r)]
          /\ net' \in Carry(PumpOutput(Client, r))
      BY <2>1, <3>1 DEF ClientPump
    <3>3. /\ 0 < r.out_counter /\ Keeps(rel[Client], r) /\ EndOK(r)
          /\ \A u \in r.unacked : Shaped(u) /\ u.to = Peer(Client)
          /\ AckedTaken(r, rel[Peer(Client)])
      BY <1>1, <1>2, <3>1, AsItIs
    <3>4. Advance(Client, Pumped(Client, r), PumpOutput(Client, r))
      BY <1>1, <3>2, <3>3, PumpAdvances
    <3> QED  BY <3>4
  <2>2. CASE ClientWrite
    <3>1. PICK x : x = wrote'[Client]  OBVIOUS
    <3>2. x \in Nat  BY <1>1, <1>3, <3>1
    <3>3. PICK r : r = [rel[Client] EXCEPT !.held = Append(@, x)]  OBVIOUS
    <3>4. Writes(rel[Client], r)  BY <1>1, <3>2, <3>3, WriteIs
    <3>5. rel' = [rel EXCEPT ![Client] = r] /\ net' = net
      BY <2>2, <3>1, <3>3 DEF ClientWrite
    <3>6. /\ 0 < r.out_counter /\ Keeps(rel[Client], r) /\ EndOK(r)
          /\ \A u \in r.unacked : Shaped(u) /\ u.to = Peer(Client)
          /\ AckedTaken(r, rel[Peer(Client)])
      <4>1. /\ EndOK(r) /\ r.out_counter = rel[Client].out_counter
            /\ r.unacked = rel[Client].unacked
            /\ r.in_counter = rel[Client].in_counter /\ r.in_buf = rel[Client].in_buf
        BY <3>4 DEF Writes
      <4> QED  BY <1>1, <1>2, <4>1, AsItIs
    <3>7. Advance(Client, r, {})  BY <3>5, <3>6 DEF Advance
    <3> QED  BY <3>7
  <2> QED  BY <2>1, <2>2
<1> QED  BY <1>1, <1>2, <1>3, <1>4, AdvanceKeeps DEF ProofKept

LEMMA ServerWrites == ASSUME Core, ServerWrite PROVE Core' /\ ProofKept
<1>1. /\ Client \in Ends /\ Server # Client /\ Server \in Ends
      /\ EndOK(rel[Server]) /\ EndOK(rel[Client]) /\ rel[Client].in_counter \in Nat
      /\ wrote[Server] \in Nat
  BY ConstantsAre DEF Ends, Core, EndOK, RelOK, Shape
<1>2. tls_in' = tls_in /\ tls_in' = [x \in Ends |-> tls_in'[x]] /\ Opened(Server)
  BY DEF ServerWrite, Alive, Core, Shape
<1>3. wrote' \in [Ends -> Nat]  BY <1>1 DEF ServerWrite, Core, Shape
<1>4. PICK x : x = wrote[Server] + 1  OBVIOUS
<1>5. x \in Nat  BY <1>1, <1>4
<1>6. PICK r : r = [rel[Server] EXCEPT !.held = Append(@, x)]  OBVIOUS
<1>7. Writes(rel[Server], r)  BY <1>1, <1>5, <1>6, WriteIs
<1>8. /\ 0 < r.out_counter /\ Keeps(rel[Server], r) /\ EndOK(r)
      /\ \A u \in r.unacked : Shaped(u) /\ u.to = Peer(Server)
      /\ AckedTaken(r, rel[Peer(Server)])
  <2>1. /\ EndOK(r) /\ r.out_counter = rel[Server].out_counter
        /\ r.unacked = rel[Server].unacked
        /\ r.in_counter = rel[Server].in_counter /\ r.in_buf = rel[Server].in_buf
    BY <1>7 DEF Writes
  <2> QED  BY <1>1, <1>2, <2>1, AsItIs
<1>9. \/ rel' = [rel EXCEPT ![Server] = r] /\ net' \in Carry({})
      \/ /\ rel' = [rel EXCEPT ![Server] = Pumped(Server, r)]
         /\ net' \in Carry(PumpOutput(Server, r))
  BY <1>4, <1>6 DEF ServerWrite
<1>10. \E t, out : Advance(Server, t, out)
  <2>1. CASE rel' = [rel EXCEPT ![Server] = r] /\ net' \in Carry({})
    <3>1. net' \subseteq net \cup {}  BY <2>1, CarryIs
    <3>2. Advance(Server, r, {})  BY <1>8, <2>1, <3>1 DEF Advance
    <3> QED  BY <3>2
  <2>2. CASE /\ rel' = [rel EXCEPT ![Server] = Pumped(Server, r)]
             /\ net' \in Carry(PumpOutput(Server, r))
    <3>1. Advance(Server, Pumped(Server, r), PumpOutput(Server, r))
      BY <1>1, <1>8, <2>2, PumpAdvances
    <3> QED  BY <3>1
  <2> QED  BY <1>9, <2>1, <2>2
<1> QED  BY <1>1, <1>2, <1>3, <1>10, AdvanceKeeps DEF ProofKept

LEMMA Ticks == ASSUME Core, NEW e \in Ends, Tick(e) PROVE Core' /\ ProofKept
<1>1. UNCHANGED <<rel, tls_in, wrote>>  BY DEF Tick
<1>2. PICK due \in SUBSET rel[e].unacked : net' \in Carry(due)  BY DEF Tick
<1>3. net' \subseteq net \cup rel[e].unacked  BY <1>2, CarryIs
<1>4. Core'  BY <1>1, <1>3, IdleKeeps
<1>5. Client \in Ends /\ rel[Client].in_counter \in Nat  BY DEF Ends, Core, EndOK, RelOK
<1> QED  BY <1>1, <1>4, <1>5 DEF ProofKept

LEMMA CoreNext ==
    Core /\ NoTlsBeforeProof /\ [Next]_vars => Core' /\ NoTlsBeforeProof'
<1> SUFFICES ASSUME Core, NoTlsBeforeProof, [Next]_vars
             PROVE  Core' /\ NoTlsBeforeProof'
  OBVIOUS
<1>1. Client \in Ends /\ rel[Client].in_counter \in Nat
  BY DEF Ends, Core, EndOK, RelOK
<1>2. ASSUME Core', ProofKept PROVE NoTlsBeforeProof'
  <2>1. rel'[Client].in_counter \in Nat  BY <1>1, <1>2 DEF Core, EndOK, RelOK
  <2> QED  BY <1>1, <1>2, <2>1 DEF NoTlsBeforeProof, ProofKept
<1>3. ASSUME NEW p \in net, Open(p) PROVE Core' /\ ProofKept
  <2>1. UNCHANGED <<tls_in, wrote>>  BY <1>3 DEF Open
  <2>2. wrote' \in [Ends -> Nat] /\ tls_in' = [x \in Ends |-> tls_in'[x]]
    BY <2>1 DEF Core, Shape
  <2>3. PICK e, r, out : e \in Ends /\ Advance(e, r, out)  BY <1>3, OpenAdvances
  <2>4. Core' /\ rel[Client].in_counter <= rel'[Client].in_counter
    BY <2>2, <2>3, AdvanceKeeps
  <2> QED  BY <2>1, <2>4 DEF ProofKept
<1>4. ASSUME UNCHANGED vars PROVE Core' /\ ProofKept
  <2>1. Core'  BY <1>1, <1>4, IdleKeeps DEF vars
  <2> QED  BY <1>1, <1>4, <2>1 DEF vars, ProofKept
<1>5. Core' /\ ProofKept
  BY <1>3, <1>4, ServerReceives, ClientReceives, ClientSteps, ServerWrites, Ticks DEF Next
<1> QED  BY <1>2, <1>5

(* Nothing is forgotten while it can still be missed: an end drops a       *)
(* packet from its retransmission buffer only once the peer has taken it,  *)
(* in order or into its reorder buffer (reliable.rs, recv_packet), with    *)
(* any windows, and however late, often or out of order packets arrive.    *)
THEOREM AckedWasTaken == Spec => []AckedMeansTaken
<1>1. Init => Core /\ NoTlsBeforeProof  BY CoreInit
<1>2. Core /\ NoTlsBeforeProof /\ [Next]_vars => (Core /\ NoTlsBeforeProof)'
  BY CoreNext
<1>3. Core => AckedMeansTaken  BY DEF Core
<1> QED  BY <1>1, <1>2, <1>3, PTL DEF Spec

(* The server's TLS engine sees nothing from a client that has not shown   *)
(* it receives what the server sends (peer.rs, unproven_tls).              *)
THEOREM TlsWaitsForProof == Spec => []NoTlsBeforeProof
<1>1. Init => Core /\ NoTlsBeforeProof  BY CoreInit
<1>2. Core /\ NoTlsBeforeProof /\ [Next]_vars => (Core /\ NoTlsBeforeProof)'
  BY CoreNext
<1> QED  BY <1>1, <1>2, PTL DEF Spec
=============================================================================
