---------------------------- MODULE MCWgAdapter -----------------------------
(* Bounded scopes for WgAdapter: how often each thing may happen, so that  *)
(* between them they reach every step.  Nothing bounds time or retries.    *)
EXTENDS WgAdapter, TLC

Quiet(readers, persistent) ==
    [e \in Events |-> 0] @@ [readers |-> readers, persistent |-> persistent]

One == {CHOOSE r \in Readers : TRUE}

(* Sending to a peer that may lose packets, its session, or itself.        *)
Sending(fault) == [Quiet(One, 0) EXCEPT !.sends = 1, !.peerSends = 1, !.ages = 1, ![fault] = 1]

(* A session that dies under packets staged for it.                        *)
Staging == [Quiet(One, 0) EXCEPT !.sends = 3, !.ages = 1]

(* A peer kept alive, that leaves; both ends may initiate.                 *)
KeptAlive == [Quiet(One, 2) EXCEPT !.connects = 1, !.leaves = 1, !.peerInits = 1]

(* A peer removed, or expired, while a packet waits for it, and taken back. *)
Leaving(how) == [Quiet(One, 0) EXCEPT !.sends = 1, !.adds = 1, ![how] = 1]

(* Two connects at once, and whatever the owner does meanwhile.            *)
Wiring == [Quiet(Readers, 0) EXCEPT !.peerInits = 2, !.allows = 1, !.removes = 1, !.adds = 1]
Closing == [Quiet(Readers, 0) EXCEPT !.peerInits = 2, !.allows = 1, !.closes = 1]

AllScopes ==
    {Sending("losses"), Sending("restarts"), Sending("leaves"), Staging, KeptAlive,
     Leaving("removes"), Leaving("expiries"), Wiring, Closing}
=============================================================================
