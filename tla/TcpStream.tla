----------------------------- MODULE TcpStream ------------------------------
(***************************************************************************)
(* What a TCP connection of the stack promises the two applications that   *)
(* use it: a byte stream in each direction.  The bytes an end writes are   *)
(* 1, 2, 3, ..., so a reader's state is a number of bytes, and a gap, a    *)
(* repetition or a reordering is not a step.  A reader is told of a clean  *)
(* end of stream only behind the last byte its peer wrote before closing;  *)
(* a connection that breaks instead is reported as broken.                 *)
(***************************************************************************)
EXTENDS Integers

Ends == {"a", "b"}

Peer(e) == IF e = "a" THEN "b" ELSE "a"

VARIABLES
    wrote,      \* per end, the bytes its application has written
    shut,       \* per end, whether its application has closed its stream
    read,       \* per end, the bytes of its peer's stream it has been given
    eof         \* per end, whether it has been told of a clean end of stream

vars == <<wrote, shut, read, eof>>

Init ==
    /\ wrote = [e \in Ends |-> 0]
    /\ shut = [e \in Ends |-> FALSE]
    /\ read = [e \in Ends |-> 0]
    /\ eof = [e \in Ends |-> FALSE]

Write(e) ==
    /\ ~shut[e]
    /\ wrote' = [wrote EXCEPT ![e] = @ + 1]
    /\ UNCHANGED <<shut, read, eof>>

Shut(e) ==
    /\ ~shut[e]
    /\ shut' = [shut EXCEPT ![e] = TRUE]
    /\ UNCHANGED <<wrote, read, eof>>

(* More of the stream, and with its last byte perhaps the end.             *)
Read(e) ==
    /\ ~eof[e]
    /\ \E n \in read[e] .. wrote[Peer(e)], end \in BOOLEAN :
        /\ end => shut[Peer(e)] /\ n = wrote[Peer(e)]
        /\ read' = [read EXCEPT ![e] = n]
        /\ eof' = [eof EXCEPT ![e] = end]
    /\ UNCHANGED <<wrote, shut>>

(* An application that lets go of its end is told nothing.                 *)
Leave(e) ==
    /\ shut' = [shut EXCEPT ![e] = TRUE]
    /\ eof' = [eof EXCEPT ![e] = FALSE]
    /\ UNCHANGED <<wrote, read>>

Next == \E e \in Ends : Write(e) \/ Shut(e) \/ Read(e) \/ Leave(e)

Spec == Init /\ [][Next]_vars
=============================================================================
