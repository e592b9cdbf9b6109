----------------------------- MODULE OvpnStream -----------------------------
(***************************************************************************)
(* What an OpenVPN key's control channel promises the TLS engines at its   *)
(* two ends: a reliable byte stream in each direction.  The stream an end  *)
(* writes is the sequence 1, 2, 3, ..., of which a reader has been given a *)
(* prefix: a gap, a repetition, a reordering or a unit nobody wrote is not *)
(* a step.                                                                 *)
(***************************************************************************)
EXTENDS Integers, Sequences

CONSTANTS Client, Server

Ends == {Client, Server}

Peer(e) == IF e = Client THEN Server ELSE Client

VARIABLES
    wrote,      \* per end, the units its TLS engine has written
    read        \* per end, the units it has been given, in order

vars == <<wrote, read>>

Init ==
    /\ wrote = [e \in Ends |-> 0]
    /\ read = [e \in Ends |-> <<>>]

Write(e) ==
    /\ wrote' = [wrote EXCEPT ![e] = @ + 1]
    /\ UNCHANGED read

(* The next few units of what the peer has written, none skipped.          *)
Read(e) ==
    /\ \E n \in Len(read[e]) + 1 .. wrote[Peer(e)] :
            read' = [read EXCEPT ![e] = [i \in 1 .. n |-> i]]
    /\ UNCHANGED wrote

Next == \E e \in Ends : Write(e) \/ Read(e)

Spec == Init /\ [][Next]_vars
=============================================================================
