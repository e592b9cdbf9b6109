------------------------------- MODULE MCVtcp -------------------------------
(* Setups of the two TCP ends for model checking.                          *)
EXTENDS Vtcp

Plain ==
    [opens |-> FALSE, mss |-> 1, recvCap |-> 1, shift |-> 0, keepalives |-> 0, bytes |-> 0,
     closes |-> TRUE, quits |-> FALSE, expires |-> FALSE, vanishes |-> FALSE]

Opener == [Plain EXCEPT !.opens = TRUE]

Setup(a, b, n) == [a |-> a, b |-> b, faults |-> n]

(* Out of order and sent again; a window that closes, also in units of two *)
(* bytes; both ways at once; an application that lets go at either end; a  *)
(* simultaneous open; keepalive and a host that vanishes.                  *)
TransferSetups ==
    {Setup([Opener EXCEPT !.bytes = 2, !.mss = 2],
           [Plain EXCEPT !.recvCap = 2, !.mss = 2, !.closes = FALSE], 2),
     Setup([Opener EXCEPT !.bytes = 2], [Plain EXCEPT !.closes = FALSE], 1),
     Setup([Opener EXCEPT !.bytes = 3, !.shift = 1],
           [Plain EXCEPT !.shift = 1, !.closes = FALSE], 0),
     Setup([Opener EXCEPT !.bytes = 1], [Plain EXCEPT !.bytes = 1], 0),
     Setup([Opener EXCEPT !.bytes = 1], [Plain EXCEPT !.recvCap = 2], 1),
     Setup([Opener EXCEPT !.bytes = 1, !.quits = TRUE, !.closes = FALSE], Plain, 1),
     Setup([Opener EXCEPT !.bytes = 1], [Plain EXCEPT !.quits = TRUE, !.closes = FALSE], 1),
     Setup(Opener, [Opener EXCEPT !.expires = TRUE], 1),
     Setup([Opener EXCEPT !.keepalives = 1], [Plain EXCEPT !.vanishes = TRUE], 0)}

(* A loss and a retransmission, a window that closes; an orphan whose peer *)
(* vanishes.                                                               *)
LiveSetups ==
    {Setup([Opener EXCEPT !.bytes = 1], Plain, 1),
     Setup([Opener EXCEPT !.bytes = 2], Plain, 0),
     Setup([Opener EXCEPT !.bytes = 1, !.quits = TRUE], [Plain EXCEPT !.vanishes = TRUE], 0),
     Setup([Opener EXCEPT !.quits = TRUE, !.closes = FALSE, !.recvCap = 2],
           [Plain EXCEPT !.vanishes = TRUE, !.bytes = 1], 1)}

(* The peer of an orphan vanishes before its last byte arrives.            *)
OrphanSetups ==
    {Setup([Opener EXCEPT !.quits = TRUE, !.closes = FALSE, !.recvCap = 2],
           [Plain EXCEPT !.vanishes = TRUE, !.bytes = 1], 2)}
=============================================================================
