-------------------------------- MODULE Vtcp --------------------------------
(***************************************************************************)
(* Two ends of a TCP connection of the stack (vtcp), each driven by an     *)
(* application and its timers, over a network that loses, repeats and      *)
(* reorders segments.  End "a" opens actively; end "b" waits for a SYN, or *)
(* opens actively too (a simultaneous open).                               *)
(*                                                                         *)
(* A handler is an operator from a connection record to the next one; what *)
(* it queues for the peer gathers in the record's field out, which the     *)
(* action hands to the network.  Bytes are numbered: the i-th byte an end  *)
(* writes is i.  Sequence numbers wrap at SeqMod, as the code's do at      *)
(* 2^32.                                                                   *)
(*                                                                         *)
(* The clock is left out: a timer that is armed may fire at any step, and  *)
(* what is decided by durations or by the congestion window is a choice:   *)
(*   burst  - new segments the congestion window lets out on top of what   *)
(*            is in flight,                                                *)
(*   lost   - whether loss detection deems the first segment lost,         *)
(*   prompt - whether an ACK that may be delayed goes out at once.         *)
(* A challenge ACK held back because another went out shortly before is,   *)
(* to the peer, one that the network loses.                                *)
(***************************************************************************)
EXTENDS Integers, Sequences, FiniteSets

CONSTANTS
    SeqMod,         \* size of the sequence space
    IssA, IssB,     \* initial sequence numbers
    SendCap,        \* send buffer, in bytes
    MAX_RETRIES, ORPHAN_RETRIES,
    Bursts,         \* the choices of burst
    NetCap,         \* segments in flight towards an end; more are lost
    Setups          \* how the two ends may be set up, and the faults there
                    \* may be: segments lost besides those, segments
                    \* delivered twice, timers that fire and losses detected
                    \* while segments are still on their way

Ends == {"a", "b"}

Peer(e) == IF e = "a" THEN "b" ELSE "a"

None == -1

(* How an end is set up: whether it opens actively or waits for a SYN, its *)
(* largest payload, its receive buffer, its window scale, its keepalive    *)
(* probes (0: off), the bytes its application writes, whether the          *)
(* application may close its stream, and may let go of the connection,     *)
(* whether a handshake may outlast the half-open timeout, and whether the  *)
(* whole host may vanish.                                                  *)
ConnConfig ==
    [opens : BOOLEAN, mss : Nat \ {0}, recvCap : Nat \ {0}, shift : Nat,
     keepalives : Nat, bytes : Nat, closes : BOOLEAN, quits : BOOLEAN,
     expires : BOOLEAN, vanishes : BOOLEAN]

ASSUME VtcpAssumption ==
    /\ SeqMod \in Nat /\ SeqMod % 2 = 0
    /\ IssA \in 0 .. SeqMod - 1 /\ IssB \in 0 .. SeqMod - 1
    /\ {SendCap, NetCap} \subseteq Nat \ {0}
    /\ {MAX_RETRIES, ORPHAN_RETRIES} \subseteq Nat
    /\ \A s \in Setups :
        /\ s.a \in ConnConfig /\ s.b \in ConnConfig /\ s.faults \in Nat
        /\ s.a.opens /\ s.a.shift = s.b.shift
        /\ \A c \in {s.a, s.b} : 2 * (c.recvCap + SendCap + 2 ^ c.shift) < SeqMod

(* Sequence arithmetic: the sign of a wrapping difference.                 *)
Add(s, n) == (s + n) % SeqMod
Diff(s, t) == (s - t) % SeqMod
SeqBefore(s, t) == Diff(s, t) >= SeqMod \div 2
SeqAfter(s, t) == Diff(s, t) \in 1 .. SeqMod \div 2 - 1
SeqBeforeEq(s, t) == s = t \/ SeqBefore(s, t)
SeqAfterEq(s, t) == s = t \/ SeqAfter(s, t)
SeqInRange(s, lo, hi) == SeqAfterEq(s, lo) /\ SeqBefore(s, hi)

Smaller(m, n) == IF m < n THEN m ELSE n
Larger(m, n) == IF m > n THEN m ELSE n

Iss(e) == IF e = "a" THEN IssA ELSE IssB

VARIABLES
    conn,   \* per end, its connection
    net,    \* per end, the segments on their way to it
    faults, \* faults there may still be
    gone    \* the ends that have vanished

vars == <<conn, net, faults, gone>>

States == {"Closed", "Listen", "SynSent", "SynReceived", "Established",
           "FinWait1", "FinWait2", "CloseWait", "Closing", "LastAck", "TimeWait"}

IsSynchronized(st) ==
    st \in {"Established", "FinWait1", "FinWait2", "CloseWait", "Closing",
            "LastAck", "TimeWait"}

Segment(fl, seq, ack, wnd, data) ==
    [fl |-> fl, seq |-> seq, ack |-> ack, wnd |-> wnd, data |-> data]

SegLen(seg) ==
    Len(seg.data) + Cardinality(seg.fl \cap {"SYN", "FIN"})

(* A connection before it is opened.  The last fields are the              *)
(* application's: what it wrote and read, whether it closed its stream,    *)
(* the error its handle holds, whether it gave up.                         *)
NewConn(e, cfg) ==
    [cfg |-> cfg, st |-> IF cfg.opens THEN "Closed" ELSE "Listen", closed |-> FALSE,
     una |-> Iss(e), nxt |-> Iss(e), sbuf |-> <<>>,
     wnd |-> 0, maxWnd |-> 0, wl |-> <<>>,
     irs |-> None, rnxt |-> 0, rbuf |-> <<>>, ooo |-> {}, adv |-> None,
     tlp |-> None,
     finPend |-> None, finQueued |-> FALSE, finSent |-> FALSE,
     released |-> FALSE, finSeen |-> FALSE,
     rto |-> FALSE, persist |-> FALSE, delack |-> FALSE, timeWait |-> FALSE,
     keepalive |-> FALSE, retries |-> 0, probes |-> 0, orphans |-> 0, kaSent |-> 0,
     out |-> {},
     wrote |-> 0, shut |-> FALSE, got |-> <<>>,
     error |-> "none", quit |-> FALSE]

Init ==
    /\ \E s \in Setups :
        /\ conn = [e \in Ends |-> NewConn(e, s[e])]
        /\ faults = s.faults
    /\ net = [e \in Ends |-> {}]
    /\ gone = {}

-----------------------------------------------------------------------------
(* The send buffer: bytes from una on, of which nxt - una are sent.        *)

Unacked(c) == Diff(c.nxt, c.una)

Pending(c) == Larger(Len(c.sbuf) - Unacked(c), 0)

(* The n bytes at seq, of those sent.                                      *)
DataAt(c, seq, n) ==
    LET off == Smaller(Diff(seq, c.una), Len(c.sbuf))
        sent == Smaller(Unacked(c), Len(c.sbuf))
    IN SubSeq(c.sbuf, off + 1, Smaller(Larger(sent, off), off + n))

PeekUnsent(c, n) ==
    LET off == Smaller(Unacked(c), Len(c.sbuf))
    IN SubSeq(c.sbuf, off + 1, Smaller(off + n, Len(c.sbuf)))

Acknowledge(c, ack) ==
    IF ~SeqAfter(ack, c.una) THEN c
    ELSE LET to == IF SeqAfter(ack, c.nxt) THEN c.nxt ELSE ack
             n == Smaller(Diff(to, c.una), Len(c.sbuf))
         IN [c EXCEPT !.una = to, !.sbuf = SubSeq(@, n + 1, Len(@))]

FinAcked(c) == c.finSent /\ Unacked(c) = 0

-----------------------------------------------------------------------------
(* The receive buffer: rbuf in order and unread, ooo the bytes held beyond *)
(* a hole, each with its sequence number.                                  *)

Window(c) == Larger(c.cfg.recvCap - Len(c.rbuf), 0)

(* What of the advertised window is left, past rnxt.                       *)
Advertised(c) ==
    IF c.adv # None /\ SeqAfter(c.adv, c.rnxt) THEN Diff(c.adv, c.rnxt) ELSE 0

(* RCV.WND as segments are checked against it, and as the buffer takes     *)
(* data.                                                                   *)
RcvSpace(c) == Larger(Advertised(c), Window(c))

(* Bytes at or past rnxt that are held, as a run from rnxt on.             *)
InOrder(c, held) ==
    LET At(i) == {h \in held : h.at = Add(c.rnxt, i)}
        n == CHOOSE k \in 0 .. Cardinality(held) :
                /\ \A i \in 0 .. k - 1 : At(i) # {}
                /\ At(k) = {}
    IN [i \in 1 .. n |-> (CHOOSE h \in At(i - 1) : TRUE).byte]

(* Mutant of Insert: a segment that starts before rnxt is not trimmed.     *)
InsertUntrimmed(c, seq, data) ==
    [c EXCEPT !.rbuf = IF SeqBeforeEq(seq, c.rnxt) THEN @ \o data ELSE @,
              !.rnxt = IF SeqBeforeEq(seq, c.rnxt) THEN Add(@, Len(data)) ELSE @]

(* Mutant of Insert: what does not fit is dropped, but counts as received. *)
InsertDropping(c, seq, data) ==
    IF seq # c.rnxt THEN c
    ELSE [c EXCEPT !.rbuf = IF Len(c.rbuf) + Len(data) > c.cfg.recvCap THEN @ ELSE @ \o data,
                   !.rnxt = Add(@, Len(data))]

(* insert: trims what is before rnxt and past the right edge; a segment    *)
(* at rnxt replaces what was held out of order, one beyond it does not.    *)
Insert(c, seq, data) ==
    LET new == {[at |-> Add(seq, i - 1), byte |-> data[i]] : i \in 1 .. Len(data)}
        fits == {h \in new : SeqInRange(h.at, c.rnxt, Add(c.rnxt, RcvSpace(c)))}
        wins == IF SeqBeforeEq(seq, c.rnxt) THEN fits ELSE c.ooo
        held == wins \cup {h \in fits \cup c.ooo : \A w \in wins : w.at # h.at}
        run == InOrder(c, held)
        nxt == Add(c.rnxt, Len(run))
    IN [c EXCEPT !.rbuf = @ \o run,
                 !.rnxt = nxt,
                 !.ooo = {h \in held : SeqAfterEq(h.at, nxt)}]

(* Receiver silly-window avoidance: the right edge moves in steps of at    *)
(* least thresh, and not back.                                             *)
RcvWndBytes(c) ==
    LET thresh == Smaller(c.cfg.mss, Larger(c.cfg.recvCap \div 2, 1))
    IN IF c.adv = None THEN IF Window(c) < thresh THEN 0 ELSE Window(c)
       ELSE IF SeqAfterEq(Add(c.rnxt, Window(c)), Add(c.adv, thresh)) THEN Window(c)
       ELSE Smaller(Advertised(c), Window(c))

Unit(c) == 2 ^ c.cfg.shift

(* In units of the window scale, rounded up.                               *)
RcvWindow(c) == (RcvWndBytes(c) + Unit(c) - 1) \div Unit(c)

-----------------------------------------------------------------------------
(* Sending.                                                                *)

(* An ACK, on whatever it rides, settles the delayed one and moves the     *)
(* advertised edge on; a SYN's window is never scaled.                     *)
QueueSeg(c, seg) ==
    LET unit == IF "SYN" \in seg.fl THEN 1 ELSE Unit(c)
        edge == Add(seg.ack, seg.wnd * unit)
        d == [c EXCEPT !.out = @ \cup {seg}]
    IN IF "ACK" \notin seg.fl \/ c.irs = None THEN d
       ELSE [d EXCEPT !.delack = FALSE,
                      !.adv = IF @ = None \/ SeqAfter(edge, @) THEN edge ELSE @]

QueueAt(c, fl, seq, data) == QueueSeg(c, Segment(fl, seq, c.rnxt, RcvWindow(c), data))

QueueAck(c) == QueueAt(c, {"ACK"}, c.nxt, <<>>)

QueueRst(c, seq) == QueueSeg(c, Segment({"RST"}, seq, 0, 0, <<>>))

QueueSyn(c) == QueueSeg(c, Segment({"SYN"}, c.una, 0, RcvWndBytes(c), <<>>))

ResendSynAck(c) ==
    QueueSeg(c, Segment({"SYN", "ACK"}, c.una, c.rnxt, RcvWndBytes(c), <<>>))

(* At most one in OOW_ACK_INTERVAL: one that is held back for that is, to  *)
(* the peer, one that is lost.                                             *)
QueueChallengeAck(c) == QueueAck(c)

QueueFin(c) ==
    [QueueAt(c, {"FIN", "ACK"}, c.nxt, <<>>) EXCEPT
        !.nxt = Add(@, 1), !.finQueued = FALSE, !.finSent = TRUE, !.rto = TRUE]

(* The first segment in flight: data, or the FIN once only it is left.     *)
ResendHead(c) ==
    LET data == DataAt(c, c.una, c.cfg.mss)
    IN IF Unacked(c) = 0 THEN c
       ELSE IF data # <<>> THEN [QueueAt(c, {"ACK"}, c.una, data) EXCEPT !.rto = TRUE]
       ELSE IF c.finSent THEN [QueueAt(c, {"FIN", "ACK"}, c.una, <<>>) EXCEPT !.rto = TRUE]
       ELSE c

(* One round of the send loop: nothing without room in the peer's window;  *)
(* a short segment waits while something is in flight, unless it is the    *)
(* last before our FIN or half the largest window the peer ever offered.   *)
SendNew(c, mayPassInFlight) ==
    LET n == Smaller(Smaller(Larger(c.wnd - Unacked(c), 0), c.cfg.mss), Pending(c))
        bigEnough == n >= c.cfg.mss \/ (c.maxWnd >= 2 /\ n >= c.maxWnd \div 2)
        inFlight == Unacked(c) > 0
    IN IF n = 0 \/ (inFlight /\ ~mayPassInFlight)
          \/ (inFlight /\ ~bigEnough /\ ~c.finQueued) THEN c
       ELSE [QueueAt(c, {"ACK"}, c.nxt, PeekUnsent(c, n)) EXCEPT
                !.nxt = Add(@, n), !.rto = TRUE]

SendLoop(c, burst) ==
    LET sent[i \in 0 .. Len(c.sbuf)] ==
            IF i = 0 THEN c ELSE SendNew(sent[i - 1], i <= burst)
    IN sent[Len(c.sbuf)]

(* Mutant of SendFin: a FIN held back by a closed window is not probed     *)
(* for.                                                                    *)
SendFinUnprobed(c) ==
    IF /\ c.finQueued /\ Pending(c) = 0 /\ c.st \in {"FinWait1", "Closing", "LastAck"}
       /\ c.wnd > Unacked(c)
    THEN QueueFin(c) ELSE c

(* Our FIN goes behind the last byte, and needs a byte of window.          *)
SendFin(c) ==
    IF ~c.finQueued \/ Pending(c) > 0 \/ c.st \notin {"FinWait1", "Closing", "LastAck"}
    THEN c
    ELSE IF c.wnd > Unacked(c) THEN QueueFin(c)
    ELSE IF Unacked(c) = 0 THEN [c EXCEPT !.persist = TRUE]
    ELSE c

ZeroWindowProbing(c) ==
    IF Pending(c) > 0 /\ c.wnd = 0 THEN [c EXCEPT !.persist = TRUE] ELSE c

(* A zero window is the persist timer's and the RTO's to probe.            *)
RetransmitLost(c, ch) ==
    IF ch.lost /\ c.wnd > 0 /\ IsSynchronized(c.st) THEN ResendHead(c) ELSE c

FlushSendQueue(c, ch) ==
    ZeroWindowProbing(SendFin(SendLoop(RetransmitLost(c, ch), ch.burst)))

-----------------------------------------------------------------------------
(* Ending.                                                                 *)

(* Once nothing more is sent or received; what the application has yet to  *)
(* read stays, unless nobody will.                                         *)
ReleaseBuffers(c) ==
    [c EXCEPT !.sbuf = <<>>, !.ooo = {}, !.rbuf = IF c.released THEN <<>> ELSE @]

TearDown(c) ==
    ReleaseBuffers([c EXCEPT
        !.st = "Closed", !.closed = TRUE, !.rto = FALSE, !.delack = FALSE,
        !.keepalive = FALSE, !.persist = FALSE, !.timeWait = FALSE,
        !.finSeen = TRUE])

(* Not from SYN-SENT, nor where both ends have closed.                     *)
Abort(c) ==
    IF c.st = "Closed" THEN c
    ELSE IF c.st \in {"SynReceived", "Established", "FinWait1", "FinWait2", "CloseWait"}
         THEN QueueRst(TearDown(c), c.nxt)
         ELSE TearDown(c)

StartTimeWait(c) ==
    ReleaseBuffers([c EXCEPT !.st = "TimeWait", !.rto = FALSE, !.keepalive = FALSE,
                             !.persist = FALSE, !.timeWait = TRUE])

NoteAlive(c) == [c EXCEPT !.probes = 0, !.kaSent = 0]

StartKeepalive(c) == [c EXCEPT !.keepalive = c.cfg.keepalives > 0]

-----------------------------------------------------------------------------
(* Taking in the ACK field.                                                *)

(* Not of what was never sent, nor from further back than any window the   *)
(* peer offered.                                                           *)
AckValid(c, seg) ==
    /\ ~SeqAfter(seg.ack, c.nxt)
    /\ ~SeqBefore(seg.ack, Add(c.una, -c.maxWnd))

SetSndWnd(c, wnd) == [c EXCEPT !.wnd = wnd, !.maxWnd = Larger(@, wnd)]

(* Only from a segment not older than the one that last set it.            *)
UpdateSendWindow(c, seg) ==
    IF /\ c.wl # <<>>
       /\ \/ SeqBefore(seg.seq, c.wl[1])
          \/ seg.seq = c.wl[1] /\ SeqBefore(seg.ack, c.wl[2])
    THEN c
    ELSE [SetSndWnd(c, seg.wnd * Unit(c)) EXCEPT !.wl = <<seg.seq, seg.ack>>]

(* c before the ACK, d with it taken.                                      *)
SettleTimers(c, d, advanced) ==
    [d EXCEPT !.persist = @ /\ ~(d.wnd > 0 /\ (advanced \/ d.wnd # c.wnd)),
              !.rto = IF advanced THEN Unacked(d) > 0 ELSE @,
              !.retries = IF advanced THEN 0 ELSE @]

(* An ACK up to where the loss probe ended answers it.                     *)
TlpOnAck(c, ack) ==
    IF c.tlp # None /\ SeqAfterEq(ack, c.tlp) THEN [c EXCEPT !.tlp = None] ELSE c

TakeAck(c, seg, ch) ==
    FlushSendQueue(
        SettleTimers(c, Acknowledge(UpdateSendWindow(TlpOnAck(c, seg.ack), seg), seg.ack),
                     SeqAfter(seg.ack, c.una)),
        ch)

(* process_ack, and what its callers do when it succeeds.                  *)
ProcessAck(c, seg, ch) ==
    IF AckValid(c, seg) THEN NoteAlive(TakeAck(c, seg, ch)) ELSE QueueChallengeAck(c)

-----------------------------------------------------------------------------
(* Taking in data and the peer's FIN.                                      *)

FinTransition(c) ==
    LET d == [c EXCEPT !.rnxt = Add(@, 1), !.finSeen = TRUE]
    IN CASE c.st = "Established" -> [d EXCEPT !.st = "CloseWait"]
         [] c.st = "FinWait1" /\ ~FinAcked(c) -> [d EXCEPT !.st = "Closing"]
         [] c.st = "FinWait2" \/ (c.st = "FinWait1" /\ FinAcked(c)) -> StartTimeWait(d)
         [] OTHER -> [c EXCEPT !.rnxt = Add(@, 1)]

(* Data may complete the stream up to a FIN that came before it.           *)
ProcessData(c, seg) ==
    LET d == Insert(c, seg.seq, seg.data)
    IN IF d.finPend # None /\ d.finPend = d.rnxt
       THEN FinTransition([d EXCEPT !.finPend = None])
       ELSE d

(* Mutant of ProcessFin: the ACK of our FIN moves nothing.                 *)
ProcessFinOnly(c, seg) ==
    LET finSeq == Add(seg.seq, Len(seg.data))
    IN IF "FIN" \notin seg.fl THEN c
       ELSE IF finSeq = c.rnxt THEN FinTransition(c) ELSE [c EXCEPT !.finPend = finSeq]

ProcessFin(c, seg) ==
    LET finSeq == Add(seg.seq, Len(seg.data))
    IN IF "FIN" \in seg.fl
       THEN IF finSeq = c.rnxt THEN FinTransition(c) ELSE [c EXCEPT !.finPend = finSeq]
       ELSE IF c.st = "FinWait1" /\ FinAcked(c) THEN [c EXCEPT !.st = "FinWait2"]
       ELSE c

(* An ACK is not delayed for a FIN, nor for data that is old, out of       *)
(* order, fills a hole, does not fit, or leaves less than a segment of     *)
(* window.  c before the segment, d with it taken.                         *)
AckNow(c, d, seg) ==
    LET end == Add(seg.seq, Len(seg.data))
    IN \/ "FIN" \in seg.fl
       \/ seg.seq # c.rnxt
       \/ c.ooo # {} \/ d.ooo # {}
       \/ SeqBefore(d.rnxt, end)
       \/ RcvWndBytes(d) < c.cfg.mss

AckData(c, d, seg, ch) ==
    IF seg.data = <<>> /\ "FIN" \notin seg.fl THEN d
    ELSE IF ch.prompt \/ AckNow(c, d, seg) THEN QueueAck(d)
    ELSE [d EXCEPT !.delack = TRUE]

TakeData(c, seg, ch) ==
    AckData(c, ProcessFin(IF seg.data = <<>> THEN c ELSE ProcessData(c, seg), seg),
            seg, ch)

(* Data for a released connection is for nobody: it is reset.              *)
HandleDataState(c, seg, ch) ==
    LET d == ProcessAck(c, seg, ch)
    IN IF ~AckValid(c, seg) THEN d
       ELSE IF d.released /\ seg.data # <<>> /\ SeqAfter(Add(seg.seq, Len(seg.data)), d.rnxt)
       THEN Abort(d)
       ELSE TakeData(d, seg, ch)

HandleClosing(c, seg, ch) ==
    LET d == ProcessAck(c, seg, ch)
    IN IF FinAcked(d) THEN StartTimeWait(d) ELSE d

HandleLastAck(c, seg, ch) ==
    LET d == ProcessAck(c, seg, ch)
    IN IF FinAcked(d) THEN TearDown(d) ELSE d

(* Only a FIN sent again is answered, and puts the end of TIME-WAIT off.   *)
HandleTimeWait(c, seg) == IF "FIN" \in seg.fl THEN QueueAck(c) ELSE c

-----------------------------------------------------------------------------
(* The handshake.                                                          *)

(* What both ends of the handshake do once it is complete.                 *)
Establish(c) == StartKeepalive([c EXCEPT !.st = "Established", !.retries = 0])

OpenPassive(c, seg) ==
    LET d == [c EXCEPT !.st = "SynReceived", !.irs = seg.seq, !.rnxt = Add(seg.seq, 1)]
    IN [ResendSynAck(d) EXCEPT !.nxt = Add(@, 1), !.rto = TRUE]

HandleSynReceived(c, seg, ch) ==
    IF seg.ack # c.nxt THEN QueueRst(c, seg.ack)
    ELSE LET d == Establish([SetSndWnd(Acknowledge(c, Add(c.una, 1)), seg.wnd * Unit(c))
                                EXCEPT !.rto = FALSE])
         IN HandleDataState(
                IF d.finQueued THEN FlushSendQueue([d EXCEPT !.st = "FinWait1"], ch) ELSE d,
                seg, ch)

(* The window of a SYN is never scaled.                                    *)
HandleSynSent(c, seg, ch) ==
    LET d == [SetSndWnd(NoteAlive(c), seg.wnd) EXCEPT
                !.irs = seg.seq, !.rnxt = Add(seg.seq, 1), !.rto = FALSE, !.retries = 0]
    IN IF "ACK" \in seg.fl /\ (SeqBeforeEq(seg.ack, c.una) \/ SeqAfter(seg.ack, c.nxt))
       THEN IF "RST" \in seg.fl THEN c ELSE QueueRst(c, seg.ack)
       ELSE IF "RST" \in seg.fl THEN IF "ACK" \in seg.fl THEN TearDown(c) ELSE c
       ELSE IF "SYN" \notin seg.fl THEN c
       ELSE IF "ACK" \in seg.fl
       THEN FlushSendQueue(QueueAck(Establish(Acknowledge(d, seg.ack))), ch)
       ELSE [ResendSynAck([d EXCEPT !.st = "SynReceived"]) EXCEPT !.rto = TRUE]

-----------------------------------------------------------------------------
(* Any segment.                                                            *)

HandleClosed(c, seg) ==
    IF "RST" \in seg.fl THEN c
    ELSE IF "ACK" \in seg.fl THEN QueueRst(c, seg.ack)
    ELSE QueueSeg(c, Segment({"RST", "ACK"}, 0, Add(seg.seq, SegLen(seg)), 0, <<>>))

SegmentAcceptable(c, seg) ==
    LET edge == Add(c.rnxt, RcvSpace(c))
        last == Add(seg.seq, SegLen(seg) - 1)
    IN IF SegLen(seg) = 0 THEN SeqInRange(seg.seq, c.rnxt, edge) \/ seg.seq = edge
       ELSE IF RcvSpace(c) = 0 THEN seg.seq = c.rnxt
       ELSE SeqInRange(seg.seq, c.rnxt, edge) \/ SeqInRange(last, c.rnxt, edge)

(* The peer sent one octet into our closed window, so that its later       *)
(* segments lie just past it; their ACK fields still count.                *)
AcksPastClosedWindow(c, seg) ==
    /\ c.st \in {"Established", "FinWait1", "FinWait2"}
    /\ seg.fl \cap {"ACK", "SYN", "RST"} = {"ACK"}
    /\ RcvSpace(c) = 0
    /\ seg.seq = Add(c.rnxt, 1)

HandleAckPastClosedWindow(c, seg, ch) ==
    LET d == ProcessAck(c, seg, ch)
    IN QueueAck(IF AckValid(c, seg) /\ d.st = "FinWait1" /\ FinAcked(d)
                   THEN [d EXCEPT !.st = "FinWait2"] ELSE d)

Unacceptable(c, seg, ch) ==
    IF AcksPastClosedWindow(c, seg) THEN HandleAckPastClosedWindow(c, seg, ch)
    ELSE IF "RST" \in seg.fl THEN c
    ELSE IF c.st = "TimeWait" /\ "FIN" \in seg.fl THEN QueueAck(c)
    ELSE QueueAck(c)

(* A reset counts at rnxt exactly; elsewhere in the window it is           *)
(* challenged.                                                             *)
HandleRst(c, seg, ch) ==
    LET edge == IF Advertised(c) > 0 THEN c.adv ELSE Add(c.rnxt, Window(c))
    IN IF seg.seq = c.rnxt THEN TearDown(c)
       ELSE IF SeqInRange(seg.seq, c.rnxt, edge) THEN QueueChallengeAck(c)
       ELSE c

(* The peer's SYN-ACK in a simultaneous open: its SYN again, with an ACK   *)
(* of ours.                                                                *)
IsSimopenSynAck(c, seg) ==
    /\ c.st = "SynReceived"
    /\ seg.fl \cap {"SYN", "ACK", "RST"} = {"SYN", "ACK"}
    /\ seg.ack = c.nxt
    /\ Add(seg.seq, 1) = c.rnxt

HandleByState(c, seg, ch) ==
    CASE c.st = "SynReceived" -> HandleSynReceived(c, seg, ch)
      [] c.st \in {"Established", "FinWait1", "FinWait2"} -> HandleDataState(c, seg, ch)
      [] c.st = "CloseWait" -> ProcessAck(c, seg, ch)
      [] c.st = "Closing" -> HandleClosing(c, seg, ch)
      [] c.st = "LastAck" -> HandleLastAck(c, seg, ch)
      [] c.st = "TimeWait" -> HandleTimeWait(c, seg)

HandleSynchronized(c, seg, ch) ==
    IF /\ c.st = "SynReceived"
       /\ seg.fl \cap {"SYN", "ACK", "RST"} = {"SYN"}
       /\ seg.seq = c.irs
    THEN ResendSynAck(c)
    ELSE IF ~SegmentAcceptable(c, seg) /\ ~IsSimopenSynAck(c, seg)
    THEN Unacceptable(c, seg, ch)
    ELSE IF "RST" \in seg.fl THEN HandleRst(c, seg, ch)
    ELSE IF "SYN" \in seg.fl /\ ~IsSimopenSynAck(c, seg) THEN QueueChallengeAck(c)
    ELSE IF "ACK" \notin seg.fl THEN c
    ELSE HandleByState(c, seg, ch)

(* A listener opens a connection for a bare SYN.                           *)
HandleSegment(c, seg, ch) ==
    CASE c.st = "Closed" -> HandleClosed(c, seg)
      [] c.st = "Listen" ->
            IF seg.fl \cap {"SYN", "ACK", "RST"} = {"SYN"} THEN OpenPassive(c, seg) ELSE c
      [] c.st = "SynSent" -> HandleSynSent(c, seg, ch)
      [] OTHER -> HandleSynchronized(c, seg, ch)

-----------------------------------------------------------------------------
(* Timers.                                                                 *)

ProbesExhausted(c) ==
    c.probes >= MAX_RETRIES \/ (c.released /\ c.orphans >= ORPHAN_RETRIES)

CountProbe(c) ==
    [c EXCEPT !.probes = @ + 1, !.orphans = IF c.released THEN @ + 1 ELSE @]

RtoResend(c) ==
    CASE c.st = "SynSent" -> QueueSyn(c)
      [] c.st = "SynReceived" -> ResendSynAck(c)
      [] c.st \in {"Established", "CloseWait", "FinWait1", "Closing", "LastAck"} ->
            ResendHead(c)
      [] OTHER -> c

(* In flight with the window closed, what is resent is a probe, and only   *)
(* unanswered ones count.                                                  *)
OnRtoTimeout(c) ==
    IF c.wnd = 0 /\ c.st \notin {"SynSent", "SynReceived"}
    THEN IF ProbesExhausted(c) THEN TearDown(c)
         ELSE RtoResend([CountProbe(c) EXCEPT !.tlp = None])
    ELSE IF c.retries >= MAX_RETRIES THEN TearDown(c)
    ELSE RtoResend([c EXCEPT !.retries = @ + 1, !.tlp = None])

(* The probe is a byte in flight, or nothing at SND.UNA-1; a FIN waiting   *)
(* on the window is its own probe.                                         *)
OnPersistTimeout(c, ch) ==
    IF c.wnd > 0 THEN FlushSendQueue([c EXCEPT !.persist = FALSE], ch)
    ELSE IF Pending(c) = 0
    THEN IF c.finQueued /\ Unacked(c) = 0
         THEN QueueFin([c EXCEPT !.persist = FALSE])
         ELSE [c EXCEPT !.persist = FALSE]
    ELSE IF ProbesExhausted(c) THEN TearDown(c)
    ELSE LET data == DataAt(c, c.una, 1)
         IN QueueAt(CountProbe(c), {"ACK"},
                    IF data = <<>> THEN Add(c.una, -1) ELSE c.una, data)

(* While nothing is in flight or held back; a released end in FIN-WAIT-2   *)
(* has a timeout of its own.                                               *)
OnKeepalive(c) ==
    IF ~IsSynchronized(c.st) \/ c.st = "TimeWait" THEN [c EXCEPT !.keepalive = FALSE]
    ELSE IF Unacked(c) > 0 \/ Pending(c) > 0 \/ (c.st = "FinWait2" /\ c.released) THEN c
    ELSE IF c.kaSent >= c.cfg.keepalives THEN TearDown(c)
    ELSE QueueAt([c EXCEPT !.kaSent = @ + 1], {"ACK"}, Add(c.nxt, -1), <<>>)

(* New data whatever the congestion window, or the last segment in flight  *)
(* again, to draw an ACK; not twice before one comes.  The code asks also  *)
(* that a round trip was measured since the last probe, and may hold the   *)
(* next one back for longer: fewer probes than here.                       *)
OnLossProbe(c) ==
    LET n == Smaller(Smaller(Larger(c.wnd - Unacked(c), 0), c.cfg.mss), Pending(c))
        sent == Smaller(Unacked(c), Len(c.sbuf))
        from == Add(c.una, Larger(sent - c.cfg.mss, 0))
        d == IF n > 0
             THEN [QueueAt(c, {"ACK"}, c.nxt, PeekUnsent(c, n)) EXCEPT !.nxt = Add(@, n)]
             ELSE IF c.finSent THEN QueueAt(c, {"FIN", "ACK"}, Add(c.nxt, -1), <<>>)
             ELSE QueueAt(c, {"ACK"}, from, DataAt(c, from, c.cfg.mss))
    IN [d EXCEPT !.tlp = d.nxt]

OnDelayedAck(c) == QueueAck([c EXCEPT !.delack = FALSE])

OnTimeWait(c) ==
    ReleaseBuffers([c EXCEPT !.st = "Closed", !.closed = TRUE, !.timeWait = FALSE])

-----------------------------------------------------------------------------
(* The application.                                                        *)

Connect(c) ==
    [QueueSyn([c EXCEPT !.st = "SynSent"]) EXCEPT !.nxt = Add(@, 1), !.rto = TRUE]

Write(c, ch) ==
    FlushSendQueue([c EXCEPT !.sbuf = Append(@, c.wrote + 1), !.wrote = @ + 1], ch)

(* Worth a segment once the window at least doubles, or when everything    *)
(* is read and a short segment's ACK is held.                              *)
Read(c, n, ch) ==
    LET d == [c EXCEPT !.got = @ \o SubSeq(c.rbuf, 1, n),
                       !.rbuf = SubSeq(@, n + 1, Len(@))]
        open == RcvWndBytes(d)
    IN IF /\ d.st \in {"Established", "FinWait1", "FinWait2"}
          /\ \/ open > Advertised(d) /\ open >= 2 * Advertised(d)
             \/ d.delack /\ ch.prompt /\ d.rbuf = <<>>
       THEN QueueAck(d) ELSE d

Close(c, ch) ==
    CASE c.st = "Established" ->
            FlushSendQueue([c EXCEPT !.st = "FinWait1", !.finQueued = TRUE], ch)
      [] c.st = "CloseWait" ->
            FlushSendQueue([c EXCEPT !.st = "LastAck", !.finQueued = TRUE], ch)
      [] c.st = "SynReceived" -> [c EXCEPT !.finQueued = TRUE]
      [] c.st \in {"FinWait1", "FinWait2", "Closing", "LastAck", "TimeWait"} -> c
      [] OTHER -> TearDown(c)

Release(c, ch) ==
    LET d == [c EXCEPT !.released = TRUE]
    IN IF c.closed THEN ReleaseBuffers(d)
       ELSE IF c.st = "TimeWait" THEN ReleaseBuffers(d)
       ELSE IF c.rbuf # <<>> THEN Abort(d)
       ELSE Close(d, ch)

-----------------------------------------------------------------------------
(* End e is left with d, and what it queued goes to the peer, some of it   *)
(* lost; left is the network without what the step took from it, and extra *)
(* the faults of the step itself.                                          *)
Transmit(e, d, left, extra) ==
    LET p == Peer(e)
        new == d.out \ left[p]
    IN \E sent \in SUBSET (IF p \in gone THEN {} ELSE new) :
        LET inFlight == Cardinality(left[p]) + Cardinality(sent)
            lost == IF inFlight = NetCap \/ p \in gone THEN 0 ELSE Cardinality(new \ sent)
        IN /\ e \notin gone
           /\ inFlight <= NetCap
           /\ lost + extra <= faults
           /\ faults' = faults - lost - extra
           /\ net' = [left EXCEPT ![p] = @ \cup sent]
           /\ conn' = [conn EXCEPT ![e] = [d EXCEPT !.out = {}]]
           /\ UNCHANGED gone

Choices(c) ==
    [burst : IF c.sbuf = <<>> THEN {0} ELSE Bursts,
     lost : IF Unacked(c) = 0 \/ faults = 0 THEN {FALSE} ELSE BOOLEAN,
     prompt : BOOLEAN]

Count(p) == IF p THEN 1 ELSE 0

(* handle_inbound for a connection in the table: a reset that cuts the     *)
(* stream short is an error.  The accept queue never is full, nor does the *)
(* stack refuse data for want of memory (admit): there the segment would   *)
(* be lost, or count for its ACK only, and come again.                     *)
Deliver(e) ==
    \E seg \in net[e], ch \in Choices(conn[e]),
       again \in IF faults = 0 THEN {FALSE} ELSE BOOLEAN :
        LET d == HandleSegment(conn[e], seg, ch)
            cut == "RST" \in seg.fl /\ d.closed /\ ~conn[e].finSeen
        IN Transmit(e, IF cut THEN [d EXCEPT !.error = "reset"] ELSE d,
                    IF again THEN net ELSE [net EXCEPT ![e] = @ \ {seg}],
                    Count(again) + Count(ch.lost))

(* A call of the application's.                                            *)
Call(e, d) == Transmit(e, d, net, 0)

Early == Count(\E x \in Ends : net[x] # {})

(* Mutant of Tick: the error of a connection that gave up is not recorded. *)
TickSilently(e, d) == Transmit(e, d, net, Early)

(* tick_at: a connection that ends by itself before its stream has is an   *)
(* error.  A table of two has no TIME_WAIT too many to cut short.          *)
Tick(e, d) ==
    Transmit(e, IF d.closed /\ ~conn[e].finSeen THEN [d EXCEPT !.error = "timed out"] ELSE d,
             net, Early)

AppConnect(e) ==
    /\ conn[e].st = "Closed" /\ ~conn[e].closed
    /\ Call(e, Connect(conn[e]))

AppWrite(e) ==
    /\ conn[e].st \in {"Established", "CloseWait"}
    /\ conn[e].wrote < conn[e].cfg.bytes
    /\ Len(conn[e].sbuf) < SendCap
    /\ \E ch \in Choices([conn[e] EXCEPT !.sbuf = Append(@, 0)]) :
            Call(e, Write(conn[e], ch))

AppRead(e) ==
    /\ ~conn[e].quit
    /\ \E n \in {1, Len(conn[e].rbuf)} \ {0}, ch \in Choices(conn[e]) :
            n <= Len(conn[e].rbuf) /\ Call(e, Read(conn[e], n, ch))

(* A half-close; before the handshake it gives the connection up.          *)
AppClose(e) ==
    /\ conn[e].cfg.closes
    /\ ~conn[e].shut /\ ~conn[e].closed
    /\ conn[e].st \notin {"Closed", "Listen"}
    /\ \E ch \in Choices(conn[e]) :
            Call(e, [Close(conn[e], ch) EXCEPT !.shut = TRUE,
                        !.quit = @ \/ conn[e].st = "SynSent"])

AppRelease(e) ==
    /\ conn[e].cfg.quits
    /\ ~conn[e].released
    /\ conn[e].closed \/ conn[e].st \notin {"Closed", "Listen"}
    /\ \E ch \in Choices(conn[e]) :
            Call(e, [Release(conn[e], ch) EXCEPT !.shut = TRUE, !.quit = TRUE])

RtoTimeout(e) == conn[e].rto /\ Tick(e, OnRtoTimeout(conn[e]))

PersistTimeout(e) ==
    /\ conn[e].persist
    /\ \E ch \in Choices(conn[e]) : Tick(e, OnPersistTimeout(conn[e], ch))

KeepaliveTimeout(e) == conn[e].keepalive /\ Tick(e, OnKeepalive(conn[e]))

DelayedAckTimeout(e) == conn[e].delack /\ Call(e, OnDelayedAck(conn[e]))

TimeWaitTimeout(e) == conn[e].timeWait /\ Tick(e, OnTimeWait(conn[e]))

FinWait2Timeout(e) ==
    /\ conn[e].st = "FinWait2" /\ conn[e].released
    /\ Tick(e, Abort(conn[e]))

LossProbeTimeout(e) ==
    /\ IsSynchronized(conn[e].st)
    /\ Unacked(conn[e]) > 0 /\ conn[e].wnd > 0
    /\ conn[e].tlp = None
    /\ Tick(e, OnLossProbe(conn[e]))

(* The reordering timer and pacing.                                        *)
FlushTimeout(e) ==
    /\ IsSynchronized(conn[e].st)
    /\ \E ch \in Choices(conn[e]) : Tick(e, FlushSendQueue(conn[e], ch))

(* tick_at: a handshake that takes too long is given up silently.          *)
HalfOpenTimeout(e) ==
    /\ conn[e].cfg.expires
    /\ conn[e].st = "SynReceived"
    /\ Tick(e, [TearDown(conn[e]) EXCEPT !.out = {}])

Timers(e) ==
    \/ RtoTimeout(e)
    \/ PersistTimeout(e)
    \/ KeepaliveTimeout(e)
    \/ DelayedAckTimeout(e)
    \/ TimeWaitTimeout(e)
    \/ FinWait2Timeout(e)
    \/ LossProbeTimeout(e)
    \/ FlushTimeout(e)
    \/ HalfOpenTimeout(e)

Application(e) ==
    \/ AppConnect(e)
    \/ AppWrite(e)
    \/ AppRead(e)
    \/ AppClose(e)
    \/ AppRelease(e)

(* The host stops: no application, no timer, no answer.                    *)
Vanish(e) ==
    /\ conn[e].cfg.vanishes
    /\ e \notin gone
    /\ gone' = gone \cup {e}
    /\ net' = [net EXCEPT ![e] = {}]
    /\ UNCHANGED <<conn, faults>>

Next == \E e \in Ends : Deliver(e) \/ Application(e) \/ Timers(e) \/ Vanish(e)

Spec == Init /\ [][Next]_vars

(* The link carries what it does not lose, an application that is there    *)
(* reads what there is, and the clock ticks: an armed timer runs out.  For *)
(* Deliver, AppRead and the timers that send data again, weak fairness is  *)
(* spelt out by what enables them and what shows that they ran.            *)
Waiting(e, armed) == e \notin gone /\ armed /\ \A x \in Ends : net[x] = {}

GaveUpOrTried(c, d) == d.closed \/ d.retries > c.retries \/ d.probes > c.probes

Fairness ==
    \A e \in Ends :
        /\ []<>(net[e] = {}) \/ []<><<net[e] \ net'[e] # {}>>_vars
        /\ \/ []<>(conn[e].rbuf = <<>> \/ conn[e].quit \/ e \in gone)
           \/ []<><<conn'[e].got # conn[e].got>>_vars
        /\ \/ []<>~Waiting(e, conn[e].rto)
           \/ []<><<GaveUpOrTried(conn[e], conn'[e])>>_vars
        /\ \/ []<>~Waiting(e, conn[e].persist)
           \/ []<><<GaveUpOrTried(conn[e], conn'[e]) \/ ~conn'[e].persist>>_vars
        /\ WF_vars(DelayedAckTimeout(e))
        /\ WF_vars(TimeWaitTimeout(e))
        /\ WF_vars(FinWait2Timeout(e))

FairSpec == Spec /\ Fairness

-----------------------------------------------------------------------------
(* Properties.                                                             *)

TypeOK ==
    /\ \A e \in Ends :
        /\ conn[e].st \in States
        /\ {conn[e].una, conn[e].nxt, conn[e].rnxt} \subseteq 0 .. SeqMod - 1
        /\ Len(conn[e].sbuf) <= SendCap
    /\ faults \in Nat /\ gone \subseteq Ends

(* A read with nothing left to give returns the error there was, or else   *)
(* the end of the stream.                                                  *)
Eof(c) == c.rbuf = <<>> /\ (c.finSeen \/ c.closed) /\ c.error = "none" /\ ~c.quit

(* The two applications have a byte stream each way, whatever the network  *)
(* does: in order, nothing lost or repeated, and a clean end only behind   *)
(* the peer's last byte.                                                   *)
Stream ==
    INSTANCE TcpStream WITH
        wrote <- [e \in Ends |-> conn[e].wrote],
        shut <- [e \in Ends |-> conn[e].shut],
        read <- [e \in Ends |-> Len(conn[e].got)],
        eof <- [e \in Ends |-> Eof(conn[e])]

ImplementsStream == Stream!Spec

(* Bytes reach the reader as they were written.                            *)
StreamIntact ==
    \A e \in Ends : conn[e].got \o conn[e].rbuf =
        [i \in 1 .. Len(conn[e].got) + Len(conn[e].rbuf) |-> i]

(* What an end has been told is received, its peer holds or has read:      *)
(* bytes are dropped from the send buffer only then.                       *)
AckedIsHeld ==
    \A e \in Ends :
        LET c == conn[e]
            p == conn[Peer(e)]
        IN (IsSynchronized(c.st) /\ c.st # "TimeWait" /\ ~p.released) =>
             c.wrote - Len(c.sbuf) <= Len(p.got) + Len(p.rbuf)

(* A stream that is closed reaches its reader to the last byte and with    *)
(* its end, and once both are closed so are both connections, unless an    *)
(* application or a host gives up.                                         *)
Delivered ==
    LET gaveUp == conn["a"].quit \/ conn["b"].quit \/ gone # {}
    IN /\ \A e \in Ends :
            conn[e].shut ~>
               (gaveUp \/ (Eof(conn[Peer(e)]) /\ Len(conn[Peer(e)].got) = conn[e].wrote))
       /\ (conn["a"].shut /\ conn["b"].shut) ~>
               (gaveUp \/ (conn["a"].closed /\ conn["b"].closed))

(* A connection that nobody holds does not stay for ever, whatever becomes *)
(* of the peer, also with keepalive off, as it is by default.              *)
OrphansEnd == \A e \in Ends : conn[e].released ~> (conn[e].closed \/ e \in gone)

(* Except where the peer's FIN came ahead of its last byte with the ACK of *)
(* ours (see OrphansEnd).                                                  *)
OrphansEndOrGap ==
    \A e \in Ends :
        conn[e].released ~>
            \/ conn[e].closed \/ e \in gone
            \/ conn[e].st = "FinWait1" /\ conn[e].finPend # None
=============================================================================
