---------------------------- MODULE MCWgHandler -----------------------------
(* Bounds and symmetry of WgHandler for TLC.                               *)
EXTENDS WgHandler, TLC

Scope(peers, indexes, n, stamps, closed, events) ==
    [peers |-> peers, indexes |-> indexes, ids |-> n, timestamps |-> stamps,
     closes |-> closed, events |-> events]

All == {"initiate", "unknown", "expire", "age"}

Alone(indexes, n, stamps, closed, events) ==
    {Scope({p}, indexes, n, stamps, closed, events) : p \in Peers}

Together(k, n, events) ==
    {Scope(Peers, s, n, 1, 0, events) :
        s \in {s \in SUBSET Indexes : Cardinality(s) = k}}

(* Two peers that come, go and collide; one that rekeys time and again;    *)
(* one with a close among its handshakes; one that is removed and back     *)
(* while a keypair of its is being unindexed; and two peers whose          *)
(* tombstones are in each other's way.                                     *)
PeersRekeysClose ==
    Together(2, 2, All \ {"age"})
    \cup Alone(Indexes, 3, 2, 0, All \ {"unknown"})
    \cup Alone(Indexes, 2, 1, 1, All)
    \cup Alone(Indexes, 4, 1, 0, {"initiate"})
    \cup Together(1, 3, {"unknown", "expire"})

Symmetry ==
    Permutations(Peers) \cup Permutations(Threads) \cup Permutations(Indexes)
=============================================================================
