----------------------------- MODULE L2HubProofs ----------------------------
(***************************************************************************)
(* Proofs about the learning switch, for any threads, stations, ports and  *)
(* limits.                                                                 *)
(***************************************************************************)
EXTENDS L2Hub, TLAPS, FiniteSetTheorems

(* The learning table and its counts.                                      *)
Counted(tb) ==
    /\ tb = [entries |-> tb.entries, per_port |-> tb.per_port,
             prune_after |-> tb.prune_after]
    /\ tb.entries = [k \in DOMAIN tb.entries |-> tb.entries[k]]
    /\ IsFiniteSet(DOMAIN tb.entries)
    /\ \A k \in DOMAIN tb.entries : tb.entries[k].port \in Ids
                                     /\ tb.entries[k].expires \in Int
    /\ tb.per_port = [i \in Ids |-> Cardinality(EntriesOf(tb, i))]

Within(n) == NoLimit \in Limits \/ \E limit \in Limits : n <= limit

Bounded(tb) ==
    /\ Cardinality(DOMAIN tb.entries) <= MAC_TABLE_MAX_SIZE
    /\ \A i \in Ids : Within(tb.per_port[i])

(* A port table, published or in a snapshot.                               *)
PortTable(p) ==
    /\ p = [i \in DOMAIN p |-> p[i]]
    /\ DOMAIN p \subseteq Ids
    /\ \A i \in DOMAIN p : /\ p[i] = [limit |-> p[i].limit, mode |-> p[i].mode,
                                      secure |-> p[i].secure]
                           /\ p[i].limit \in Limits

(* A frame under way has not read the clock ahead of its time.             *)
UnderWay(w) ==
    /\ w = [pc |-> w.pc, port |-> w.port, snap |-> w.snap, frame |-> w.frame,
            vlan |-> w.vlan, now |-> w.now]
    /\ w.pc \in {"read", "write", "lookup", "evict"}
    /\ PortTable(w.snap) /\ w.port \in DOMAIN w.snap
    /\ w.now \in Nat /\ w.now <= clock

HubInv ==
    /\ scope \in Scopes /\ clock \in Nat
    /\ last_id \in Nat /\ last_id <= scope.max_ports
    /\ PortTable(ports) /\ DOMAIN ports \subseteq 1 .. last_id
    /\ Counted(table) /\ Bounded(table)
    /\ work = [t \in Threads |-> work[t]]
    /\ \A t \in Threads : work[t] = Idle \/ UnderWay(work[t])

-----------------------------------------------------------------------------
(* The table's operators.                                                  *)

LEMMA LessOne == ASSUME NEW n \in Nat, n # 0 PROVE Max({0, n - 1}) = n - 1
<1>1. \E x \in {0, n - 1} : \A y \in {0, n - 1} : x >= y  OBVIOUS
<1>2. PICK m : m = Max({0, n - 1})  OBVIOUS
<1>3. m \in {0, n - 1} /\ \A y \in {0, n - 1} : m >= y
  BY <1>1, <1>2 DEF Max
<1> QED  BY <1>2, <1>3

LEMMA EntriesFinite ==
    ASSUME NEW tb, Counted(tb), NEW i
    PROVE  IsFiniteSet(EntriesOf(tb, i)) /\ Cardinality(EntriesOf(tb, i)) \in Nat
  BY FS_Subset, FS_CardinalityType DEF Counted, EntriesOf

LEMMA UncountedIs ==
    ASSUME NEW tb, Counted(tb), NEW key
    PROVE  Uncounted(tb, key) = [i \in Ids |-> Cardinality(EntriesOf(tb, i) \ {key})]
<1> DEFINE E(i) == EntriesOf(tb, i)
<1>1. tb.per_port = [i \in Ids |-> Cardinality(E(i))]  BY DEF Counted
<1>2. CASE key \notin DOMAIN tb.entries
  <2>1. \A i : E(i) \ {key} = E(i)  BY <1>2 DEF EntriesOf
  <2> QED  BY <1>1, <1>2, <2>1 DEF Uncounted
<1>3. CASE key \in DOMAIN tb.entries
  <2>1. PICK p \in Ids : p = tb.entries[key].port  BY <1>3 DEF Counted
  <2>2. key \in E(p) /\ \A i : i # p => E(i) \ {key} = E(i)
    BY <1>3, <2>1 DEF EntriesOf
  <2>3. IsFiniteSet(E(p)) /\ Cardinality(E(p)) \in Nat  BY EntriesFinite
  <2>4. Cardinality(E(p)) # 0  BY <2>2, <2>3, FS_EmptySet
  <2>5. Cardinality(E(p) \ {key}) = Cardinality(E(p)) - 1
    BY <2>2, <2>3, FS_RemoveElement
  <2>6. Max({0, Cardinality(E(p)) - 1}) = Cardinality(E(p)) - 1
    BY <2>3, <2>4, LessOne
  <2>7. Uncounted(tb, key) =
            [tb.per_port EXCEPT ![p] = Max({0, tb.per_port[p] - 1})]
    BY <1>3, <2>1 DEF Uncounted, Without
  <2>8. tb.per_port[p] = Cardinality(E(p))  BY <1>1
  <2>9. Uncounted(tb, key)[p] = Cardinality(E(p) \ {key})
    BY <1>1, <2>5, <2>6, <2>7, <2>8
  <2>10. \A i \in Ids \ {p} : Uncounted(tb, key)[i] = Cardinality(E(i) \ {key})
    BY <1>1, <2>2, <2>7
  <2>11. Uncounted(tb, key) = [i \in Ids |-> Uncounted(tb, key)[i]]
    BY <1>1, <2>7
  <2> QED  BY <2>9, <2>10, <2>11
<1> QED  BY <1>2, <1>3

LEMMA RemoveIs ==
    ASSUME NEW tb, Counted(tb), NEW key
    PROVE  LET n == Remove(tb, key)
           IN  /\ Counted(n)
               /\ DOMAIN n.entries = DOMAIN tb.entries \ {key}
               /\ \A k \in DOMAIN n.entries : n.entries[k] = tb.entries[k]
<1>1. PICK n : n = Remove(tb, key)  OBVIOUS
<1>2. /\ n = [entries |-> n.entries, per_port |-> n.per_port,
              prune_after |-> n.prune_after]
      /\ n.entries = [k \in DOMAIN tb.entries \ {key} |-> tb.entries[k]]
      /\ n.per_port = Uncounted(tb, key)
  BY <1>1 DEF Remove, Counted, Restrict
<1>3. IsFiniteSet(DOMAIN n.entries)  BY <1>2, FS_RemoveElement DEF Counted
<1>4. \A i : EntriesOf(n, i) = EntriesOf(tb, i) \ {key}
  BY <1>2 DEF EntriesOf
<1>5. n.per_port = [i \in Ids |-> Cardinality(EntriesOf(n, i))]
  BY <1>2, <1>4, UncountedIs
<1>6. Counted(n)  BY <1>2, <1>3, <1>5 DEF Counted
<1> QED  BY <1>1, <1>2, <1>6

LEMMA InsertIs ==
    ASSUME NEW tb, Counted(tb), NEW key, NEW entry, entry.port \in Ids,
           entry.expires \in Int
    PROVE  LET n == Insert(tb, key, entry)
           IN  /\ Counted(n)
               /\ DOMAIN n.entries = DOMAIN tb.entries \cup {key}
               /\ n.entries[key] = entry
               /\ \A k \in DOMAIN tb.entries \ {key} : n.entries[k] = tb.entries[k]
<1>1. PICK n : n = Insert(tb, key, entry)  OBVIOUS
<1>2. PICK p \in Ids : p = entry.port  OBVIOUS
<1>3. PICK u : u = Uncounted(tb, key)  OBVIOUS
<1>4. /\ n = [entries |-> n.entries, per_port |-> n.per_port,
              prune_after |-> n.prune_after]
      /\ n.entries = [k \in DOMAIN tb.entries \cup {key} |->
                        IF k = key THEN entry ELSE tb.entries[k]]
      /\ n.per_port = [u EXCEPT ![p] = u[p] + 1]
  BY <1>1, <1>2, <1>3 DEF Insert, Counted, Put
<1>5. IsFiniteSet(DOMAIN n.entries)  BY <1>4, FS_AddElement DEF Counted
<1>6. u = [i \in Ids |-> Cardinality(EntriesOf(tb, i) \ {key})]
  BY <1>3, UncountedIs
<1>7. /\ EntriesOf(n, p) = (EntriesOf(tb, p) \ {key}) \cup {key}
      /\ \A i : i # p => EntriesOf(n, i) = EntriesOf(tb, i) \ {key}
  BY <1>2, <1>4 DEF EntriesOf
<1>8. Cardinality(EntriesOf(n, p)) = Cardinality(EntriesOf(tb, p) \ {key}) + 1
  <2>1. IsFiniteSet(EntriesOf(tb, p) \ {key})
    BY EntriesFinite, FS_RemoveElement
  <2> QED  BY <1>7, <2>1, FS_AddElement
<1>9. n.per_port[p] = Cardinality(EntriesOf(n, p))  BY <1>4, <1>6, <1>8
<1>10. \A i \in Ids \ {p} : n.per_port[i] = Cardinality(EntriesOf(n, i))
  BY <1>4, <1>6, <1>7
<1>11. n.per_port = [i \in Ids |-> n.per_port[i]]  BY <1>4, <1>6
<1>12. n.per_port = [i \in Ids |-> Cardinality(EntriesOf(n, i))]
  BY <1>9, <1>10, <1>11
<1>13. \A k \in DOMAIN n.entries : n.entries[k].port \in Ids /\ n.entries[k].expires \in Int
  BY <1>4 DEF Counted
<1>14. n.entries = [k \in DOMAIN n.entries |-> n.entries[k]]  BY <1>4
<1>15. Counted(n)  BY <1>4, <1>5, <1>12, <1>13, <1>14 DEF Counted
<1> QED  BY <1>1, <1>4, <1>15

(* Only entries of tb are left, and their counts.                          *)
Part(n, tb) ==
    /\ Counted(n)
    /\ DOMAIN n.entries \subseteq DOMAIN tb.entries
    /\ \A k \in DOMAIN n.entries : n.entries[k] = tb.entries[k]

LEMMA PruneIs ==
    ASSUME NEW tb, Counted(tb), NEW now
    PROVE  LET n == PruneExpired(tb, now)
           IN  Part(n, tb)
<1>1. PICK n : n = PruneExpired(tb, now)  OBVIOUS
<1>2. CASE n = tb  BY <1>1, <1>2 DEF Part
<1>3. CASE n # tb
  <2>1. PICK live : live = {k \in DOMAIN tb.entries : tb.entries[k].expires > now}
    OBVIOUS
  <2>2. /\ n = [entries |-> n.entries, per_port |-> n.per_port,
                prune_after |-> n.prune_after]
        /\ n.entries = [k \in live |-> tb.entries[k]]
        /\ n.per_port = [i \in Ids |-> Cardinality(live \cap EntriesOf(tb, i))]
    BY <1>1, <1>3, <2>1 DEF PruneExpired, Restrict
  <2>3. \A i : EntriesOf(n, i) = live \cap EntriesOf(tb, i)
    BY <2>1, <2>2 DEF EntriesOf
  <2>4. IsFiniteSet(live)  BY <2>1, FS_Subset DEF Counted
  <2>5. Counted(n)  BY <2>1, <2>2, <2>3, <2>4 DEF Counted
  <2> QED  BY <1>1, <2>1, <2>2, <2>5 DEF Part
<1> QED  BY <1>2, <1>3

LEMMA PurgeIs ==
    ASSUME NEW tb, Counted(tb), NEW id
    PROVE  Part(PurgePort(tb, id), tb)
<1>1. PICK n : n = PurgePort(tb, id)  OBVIOUS
<1>2. PICK rest : rest = DOMAIN tb.entries \ EntriesOf(tb, id)  OBVIOUS
<1>3. /\ n = [entries |-> n.entries, per_port |-> n.per_port,
              prune_after |-> n.prune_after]
      /\ n.entries = [k \in rest |-> tb.entries[k]]
      /\ n.per_port = [tb.per_port EXCEPT ![id] = 0]
  BY <1>1, <1>2 DEF PurgePort, Restrict, Counted
<1>4. EntriesOf(n, id) = {} /\ \A i : i # id => EntriesOf(n, i) = EntriesOf(tb, i)
  BY <1>2, <1>3 DEF EntriesOf
<1>5. IsFiniteSet(rest)  BY <1>2, FS_Subset DEF Counted
<1>6. \A i \in Ids : n.per_port[i] = Cardinality(EntriesOf(n, i))
  <2>1. tb.per_port = [i \in Ids |-> Cardinality(EntriesOf(tb, i))]  BY DEF Counted
  <2>2. \A i \in Ids : i # id => n.per_port[i] = Cardinality(EntriesOf(tb, i))
    BY <1>3, <2>1
  <2>3. id \in Ids => n.per_port[id] = 0  BY <1>3, <2>1
  <2>4. Cardinality(EntriesOf(n, id)) = 0  BY <1>4, FS_EmptySet
  <2> QED  BY <1>4, <2>2, <2>3, <2>4
<1>7. n.per_port = [i \in Ids |-> n.per_port[i]]
  <2>1. tb.per_port = [i \in Ids |-> Cardinality(EntriesOf(tb, i))]  BY DEF Counted
  <2> QED  BY <1>3, <2>1
<1>8. Counted(n)  BY <1>2, <1>3, <1>5, <1>6, <1>7 DEF Counted
<1> QED  BY <1>1, <1>2, <1>3, <1>8 DEF Part

-----------------------------------------------------------------------------
(* The bounds.                                                             *)

LEMMA LimitsAre == ASSUME scope \in Scopes PROVE Limits \subseteq Nat \cup {NoLimit}
  BY HubAssumption DEF Limits

LEMMA WithinLess ==
    ASSUME scope \in Scopes, NEW n \in Int, NEW m \in Int, m <= n, Within(n)
    PROVE  Within(m)
  BY LimitsAre DEF Within, NoLimit

LEMMA EntriesFewer ==
    ASSUME scope \in Scopes, NEW tb, Counted(tb), Bounded(tb), NEW n, Counted(n),
           NEW i \in Ids, EntriesOf(n, i) \subseteq EntriesOf(tb, i)
    PROVE  Within(n.per_port[i])
<1>1. IsFiniteSet(EntriesOf(tb, i))  BY EntriesFinite
<1>2. Cardinality(EntriesOf(n, i)) <= Cardinality(EntriesOf(tb, i))
  BY <1>1, FS_Subset
<1>3. /\ tb.per_port[i] = Cardinality(EntriesOf(tb, i)) /\ tb.per_port[i] \in Int
      /\ n.per_port[i] = Cardinality(EntriesOf(n, i)) /\ n.per_port[i] \in Int
  BY EntriesFinite DEF Counted
<1> QED  BY <1>2, <1>3, WithinLess DEF Bounded

LEMMA SizeSmaller ==
    ASSUME NEW tb, Counted(tb), Bounded(tb), NEW n,
           DOMAIN n.entries \subseteq DOMAIN tb.entries
    PROVE  Cardinality(DOMAIN n.entries) <= MAC_TABLE_MAX_SIZE
<1>1. IsFiniteSet(DOMAIN tb.entries)  BY DEF Counted
<1>2. /\ Cardinality(DOMAIN n.entries) <= Cardinality(DOMAIN tb.entries)
      /\ Cardinality(DOMAIN n.entries) \in Nat /\ Cardinality(DOMAIN tb.entries) \in Nat
  BY <1>1, FS_Subset, FS_CardinalityType
<1> QED  BY <1>2, HubAssumption DEF Bounded

LEMMA PartBounded ==
    ASSUME scope \in Scopes, NEW tb, Counted(tb), Bounded(tb), NEW n, Part(n, tb)
    PROVE  Bounded(n)
<1>1. \A i \in Ids : EntriesOf(n, i) \subseteq EntriesOf(tb, i)
  BY DEF Part, EntriesOf
<1> QED  BY <1>1, EntriesFewer, SizeSmaller DEF Part, Bounded

(* What writing an address makes of the table: entries go, stay, or, for   *)
(* the frame's own source, come to its port.                               *)
Rewritten(n, tb, w) ==
    /\ Counted(n) /\ Bounded(n)
    /\ \A k \in DOMAIN n.entries :
            \/ k \in DOMAIN tb.entries /\ n.entries[k] = tb.entries[k]
            \/ k = SourceKey(w) /\ n.entries[k].port = w.port

LEMMA ClaimedIs ==
    ASSUME scope \in Scopes, NEW tb, Counted(tb), Bounded(tb), NEW w, UnderWay(w),
           NEW now \in Nat
    PROVE  Rewritten(Claimed(tb, w, now).table, tb, w)
<1>1. PICK key : key = SourceKey(w)  OBVIOUS
<1>2. PICK known : known = (key \in DOMAIN tb.entries)  OBVIOUS
<1>3. PICK here : here = (known /\ tb.entries[key].port = w.port)  OBVIOUS
<1>4. PICK room : room = IF ~ here /\ Full(tb, w, known) THEN PruneExpired(tb, now) ELSE tb
  OBVIOUS
<1>5. PICK entry : entry = [port |-> w.port, expires |-> now + MAC_AGING]  OBVIOUS
<1>6. PICK port \in Ids : port = w.port  BY DEF UnderWay, PortTable
<1>7. entry.port = port /\ entry.expires \in Int
  BY <1>5, <1>6, HubAssumption
<1>8. Part(room, tb) /\ (here => room = tb)
  <2>1. Part(tb, tb)  BY DEF Part
  <2> QED  BY <1>4, <2>1, PruneIs
<1>9. CASE ~ here /\ Full(room, w, known)
  <2>1. PICK n : n = Remove(room, key)  OBVIOUS
  <2>2. Claimed(tb, w, now).table = n
    BY <1>1, <1>2, <1>3, <1>4, <1>9, <2>1 DEF Claimed
  <2>3. Part(n, room)  BY <1>8, <2>1, RemoveIs DEF Part
  <2>4. Part(n, tb)  BY <1>8, <2>3 DEF Part
  <2> QED  BY <2>2, <2>4, PartBounded DEF Rewritten, Part
<1>10. CASE here \/ ~ Full(room, w, known)
  <2>1. PICK n : n = Insert(room, key, entry)  OBVIOUS
  <2>2. Claimed(tb, w, now).table = n
    BY <1>1, <1>2, <1>3, <1>4, <1>5, <1>10, <2>1 DEF Claimed
  <2>3. /\ Counted(n)
        /\ DOMAIN n.entries = DOMAIN room.entries \cup {key}
        /\ n.entries[key] = entry
        /\ \A k \in DOMAIN room.entries \ {key} : n.entries[k] = room.entries[k]
    BY <1>7, <1>8, <2>1, InsertIs DEF Part
  <2>4. Cardinality(DOMAIN n.entries) <= MAC_TABLE_MAX_SIZE
    <3>1. CASE known
      BY <1>2, <1>8, <2>3, <3>1, SizeSmaller DEF Part
    <3>2. CASE ~ known
      <4>1. ~ (Cardinality(DOMAIN room.entries) >= MAC_TABLE_MAX_SIZE)
        BY <1>3, <1>10, <3>2 DEF Full
      <4>2. IsFiniteSet(DOMAIN room.entries)  BY <1>8 DEF Part, Counted
      <4>3. PICK m \in Nat : m = Cardinality(DOMAIN room.entries)
        BY <4>2, FS_CardinalityType
      <4>4. Cardinality(DOMAIN n.entries) \in {m, m + 1}
        BY <2>3, <4>2, <4>3, FS_AddElement
      <4> QED  BY <4>1, <4>3, <4>4, HubAssumption
    <3> QED  BY <3>1, <3>2
  <2>5. ASSUME NEW i \in Ids PROVE Within(n.per_port[i])
    <3>1. CASE i # port
      <4>1. EntriesOf(n, i) \subseteq EntriesOf(tb, i)
        BY <1>7, <1>8, <2>3, <3>1 DEF EntriesOf, Part
      <4> QED  BY <2>3, <4>1, EntriesFewer
    <3>2. CASE i = port /\ here
      <4>1. EntriesOf(n, i) \subseteq EntriesOf(tb, i)
        BY <1>2, <1>3, <1>6, <1>8, <2>3, <3>2 DEF EntriesOf, Part
      <4> QED  BY <2>3, <4>1, EntriesFewer
    <3>3. CASE i = port /\ ~ here
      <4>1. PICK limit \in Limits : limit = Source(w).limit
        BY DEF Source, UnderWay, PortTable
      <4>2. limit = NoLimit \/ ~ (room.per_port[port] >= limit)
        BY <1>6, <1>10, <3>3, <4>1 DEF Full
      <4>3. CASE limit = NoLimit  BY <4>3 DEF Within
      <4>4. CASE limit # NoLimit
        <5>1. limit \in Nat  BY <4>4, LimitsAre
        <5>2. PICK m \in Nat : m = room.per_port[port] /\ m = Cardinality(EntriesOf(room, port))
          BY <1>8, EntriesFinite DEF Part, Counted
        <5>3. EntriesOf(n, port) = EntriesOf(room, port) \cup {key}
          BY <1>7, <2>3 DEF EntriesOf
        <5>4. IsFiniteSet(EntriesOf(room, port))  BY <1>8, EntriesFinite DEF Part
        <5>5. Cardinality(EntriesOf(n, port)) \in {m, m + 1}
          <6>1. PICK S : S = EntriesOf(room, port)  OBVIOUS
          <6>2. IsFiniteSet(S) /\ Cardinality(S) = m /\ EntriesOf(n, port) = S \cup {key}
            BY <5>2, <5>3, <5>4, <6>1
          <6>3. CASE key \in S
            <7>1. S \cup {key} = S  BY <6>3
            <7> QED  BY <6>2, <7>1
          <6>4. CASE key \notin S
            <7>1. Cardinality(S \cup {key}) = Cardinality(S) + 1
              BY <6>2, <6>4, FS_AddElement
            <7> QED  BY <6>2, <7>1
          <6> QED  BY <6>3, <6>4
        <5>6. n.per_port[port] = Cardinality(EntriesOf(n, port))  BY <2>3 DEF Counted
        <5>7. n.per_port[port] <= limit  BY <4>2, <4>4, <5>1, <5>2, <5>5, <5>6
        <5> QED  BY <3>3, <5>7 DEF Within
      <4> QED  BY <4>3, <4>4
    <3> QED  BY <3>1, <3>2, <3>3
  <2>6. ASSUME NEW k \in DOMAIN n.entries
        PROVE  \/ k \in DOMAIN tb.entries /\ n.entries[k] = tb.entries[k]
               \/ k = key /\ n.entries[k].port = w.port
    BY <1>5, <1>8, <2>3 DEF Part
  <2> QED  BY <1>1, <2>2, <2>3, <2>4, <2>5, <2>6 DEF Rewritten, Bounded
<1> QED  BY <1>9, <1>10

LEMMA LearnedIs ==
    ASSUME scope \in Scopes, NEW tb, Counted(tb), Bounded(tb), NEW w, UnderWay(w),
           NEW now \in Nat, NEW n, n = Learned(tb, w, now).table
    PROVE  Rewritten(n, tb, w) /\ (HeldElsewhere(tb, w, now) => n = tb)
<1>1. CASE HeldElsewhere(tb, w, now)
  <2>1. n = tb  BY <1>1 DEF Learned
  <2> QED  BY <2>1 DEF Rewritten
<1>2. CASE ~ HeldElsewhere(tb, w, now)
  <2>1. n = Claimed(tb, w, now).table  BY <1>2 DEF Learned
  <2> QED  BY <1>2, <2>1, ClaimedIs
<1> QED  BY <1>1, <1>2

-----------------------------------------------------------------------------
(* Steps.                                                                  *)

LEMMA UnderWayLater ==
    ASSUME scope' = scope, clock \in Nat, clock' \in Nat, clock <= clock',
           NEW w, UnderWay(w)
    PROVE  UnderWay(w)'
<1>1. Limits' = Limits  BY DEF Limits
<1>2. w.now <= clock'  BY DEF UnderWay
<1> QED  BY <1>1, <1>2 DEF UnderWay, PortTable

LEMMA TablePrimed ==
    ASSUME scope' = scope, NEW tb, tb = table', Counted(tb), Bounded(tb)
    PROVE  Counted(table)' /\ Bounded(table)'
<1>1. Limits' = Limits  BY DEF Limits
<1> QED  BY <1>1 DEF Counted, Bounded, Within, EntriesOf

LEMMA PortsPrimed ==
    ASSUME scope' = scope, NEW p, p = ports', PortTable(p)
    PROVE  PortTable(ports)'
<1>1. Limits' = Limits  BY DEF Limits
<1> QED  BY <1>1 DEF PortTable

(* Thread t ends with its frame, or is left with one under way.            *)
Moves(t) == \E x : (x = Idle \/ UnderWay(x)) /\ work' = [work EXCEPT ![t] = x]

LEMMA MovesKeep ==
    ASSUME HubInv, UNCHANGED <<clock, scope>>, NEW t \in Threads, Moves(t)
    PROVE  /\ work' = [u \in Threads |-> work'[u]]
           /\ \A u \in Threads : work'[u] = Idle \/ UnderWay(work[u])'
<1>1. PICK x : (x = Idle \/ UnderWay(x)) /\ work' = [work EXCEPT ![t] = x]
  BY DEF Moves
<1>2. work = [u \in Threads |-> work[u]] /\ clock \in Nat  BY DEF HubInv
<1>3. ASSUME NEW u \in Threads PROVE work'[u] = Idle \/ UnderWay(work[u])'
  <2>1. PICK w : w = work'[u]  OBVIOUS
  <2>2. w = Idle \/ UnderWay(w)
    <3>1. CASE u = t  BY <1>1, <1>2, <2>1, <3>1
    <3>2. CASE u # t  BY <1>1, <1>2, <2>1, <3>2 DEF HubInv
    <3> QED  BY <3>1, <3>2
  <2>3. UnderWay(w) => UnderWay(w)'  BY <1>2, UnderWayLater
  <2> QED  BY <2>1, <2>2, <2>3 DEF UnderWay, PortTable
<1> QED  BY <1>1, <1>2, <1>3

LEMMA GoOnMoves ==
    ASSUME NEW t, NEW w, UnderWay(w), GoOn(t, w)
    PROVE  Moves(t)
<1>1. PICK x : x = [w EXCEPT !.pc = "lookup"]  OBVIOUS
<1>2. UnderWay(x)  BY <1>1 DEF UnderWay
<1>3. work' = [work EXCEPT ![t] = Idle] \/ work' = [work EXCEPT ![t] = x]
  BY <1>1 DEF GoOn
<1> QED  BY <1>2, <1>3 DEF Moves

LEMMA DoneMoves ==
    ASSUME NEW t, NEW out, Done(t, out)
    PROVE  Moves(t)
  BY DEF Done, Moves

LEMMA NotIdle ==
    ASSUME HubInv, NEW t \in Threads, work[t].pc \in {"read", "write", "lookup", "evict"}
    PROVE  UnderWay(work[t]) /\ work[t] # Idle
  BY DEF HubInv, Idle

LEMMA ThreadMoves ==
    ASSUME HubInv, NEW t \in Threads,
           \/ \E id \in Ids, f \in Ever("frames") : Arrive(t, id, f)
           \/ LearnRead(t) \/ LearnWrite(t) \/ Lookup(t) \/ Evict(t)
    PROVE  Moves(t) /\ UNCHANGED <<clock, ports, last_id, scope>>
<1>1. ASSUME NEW id \in Ids, NEW f, Arrive(t, id, f) PROVE Moves(t)
  <2>1. PICK w : w = [pc |-> "read", port |-> id, snap |-> ports, frame |-> f,
                      vlan |-> IngressVlan(ports[id].mode, f.tags), now |-> clock]
    OBVIOUS
  <2>2. id \in DOMAIN ports /\ clock \in Nat /\ PortTable(ports)
    BY <1>1 DEF Arrive, HubInv
  <2>3. UnderWay(w)  BY <2>1, <2>2 DEF UnderWay
  <2>4. work' = [work EXCEPT ![t] = w] \/ GoOn(t, w)
    BY <1>1, <2>1 DEF Arrive
  <2>5. CASE work' = [work EXCEPT ![t] = w]  BY <2>3, <2>5 DEF Moves
  <2>6. CASE GoOn(t, w)  BY <2>3, <2>6, GoOnMoves
  <2> QED  BY <2>4, <2>5, <2>6
<1>2. ASSUME LearnRead(t) PROVE Moves(t)
  <2>1. PICK w : w = work[t]  OBVIOUS
  <2>2. UnderWay(w)  BY <1>2, <2>1, NotIdle DEF LearnRead
  <2>3. PICK now \in w.now .. clock :
            \/ GoOn(t, [w EXCEPT !.now = now])
            \/ Done(t, {})
            \/ work' = [work EXCEPT ![t] = [[w EXCEPT !.now = now] EXCEPT !.pc = "write"]]
    <3>1. PICK now \in w.now .. clock :
            CASE KnownAndFresh(table, w, now) -> GoOn(t, [w EXCEPT !.now = now])
              [] HeldElsewhere(table, w, now) -> Done(t, {})
              [] OTHER -> /\ work' = [work EXCEPT ![t] =
                                        [[w EXCEPT !.now = now] EXCEPT !.pc = "write"]]
                          /\ copies' = {}
      BY <1>2, <2>1 DEF LearnRead
    <3>2. CASE KnownAndFresh(table, w, now)
      <4>1. ~ HeldElsewhere(table, w, now)
        BY <3>2 DEF KnownAndFresh, HeldElsewhere
      <4> QED  BY <3>1, <3>2, <4>1
    <3>3. CASE ~ KnownAndFresh(table, w, now)
      BY <3>1, <3>3
    <3> QED  BY <3>2, <3>3
  <2>4. PICK x : x = [w EXCEPT !.now = now]  OBVIOUS
  <2>5. PICK y : y = [x EXCEPT !.pc = "write"]  OBVIOUS
  <2>6. now \in Nat /\ now <= clock  BY <2>2 DEF UnderWay, HubInv
  <2>7. UnderWay(x)  BY <2>2, <2>4, <2>6 DEF UnderWay
  <2>8. UnderWay(y)  BY <2>5, <2>7 DEF UnderWay
  <2>9. GoOn(t, x) \/ Done(t, {}) \/ work' = [work EXCEPT ![t] = y]
    BY <2>3, <2>4, <2>5
  <2>10. CASE work' = [work EXCEPT ![t] = y]  BY <2>8, <2>10 DEF Moves
  <2> QED  BY <2>7, <2>9, <2>10, GoOnMoves, DoneMoves
<1>3. ASSUME LearnWrite(t) PROVE Moves(t)
  <2>1. PICK w : w = work[t]  OBVIOUS
  <2>2. UnderWay(w)  BY <1>3, <2>1, NotIdle DEF LearnWrite
  <2>3. GoOn(t, w) \/ Done(t, {})  BY <1>3, <2>1 DEF LearnWrite
  <2> QED  BY <2>2, <2>3, GoOnMoves, DoneMoves
<1>4. ASSUME Lookup(t) PROVE Moves(t)
  <2>1. PICK w : w = work[t]  OBVIOUS
  <2>2. UnderWay(w)  BY <1>4, <2>1, NotIdle DEF Lookup
  <2>3. PICK x : x = [w EXCEPT !.pc = "evict"]  OBVIOUS
  <2>4. UnderWay(x)  BY <2>2, <2>3 DEF UnderWay
  <2>5. (\E out : Done(t, out)) \/ work' = [work EXCEPT ![t] = x]
    BY <1>4, <2>1, <2>3 DEF Lookup
  <2>6. CASE work' = [work EXCEPT ![t] = x]  BY <2>4, <2>6 DEF Moves
  <2> QED  BY <2>5, <2>6, DoneMoves
<1>5. ASSUME Evict(t) PROVE Moves(t)
  BY <1>5, DoneMoves DEF Evict
<1> QED
  BY <1>1, <1>2, <1>3, <1>4, <1>5 DEF Arrive, LearnRead, LearnWrite, Lookup, Evict

(* What a step makes of the learning table.                                *)
LEMMA TableSteps ==
    ASSUME HubInv, [Next]_vars
    PROVE  \/ Part(table', table)
           \/ \E t \in Threads :
                /\ LearnWrite(t) /\ UnderWay(work[t]) /\ work[t] # Idle
                /\ Rewritten(table', table, work[t])
                /\ HeldElsewhere(table, work[t], work[t].now) => table' = table
<1>1. Counted(table) /\ Bounded(table) /\ scope \in Scopes  BY DEF HubInv
<1>2. CASE table' = table  BY <1>1, <1>2 DEF Part
<1>3. ASSUME NEW t \in Threads, LearnWrite(t)
      PROVE  /\ UnderWay(work[t]) /\ work[t] # Idle
             /\ Rewritten(table', table, work[t])
             /\ HeldElsewhere(table, work[t], work[t].now) => table' = table
  <2>1. PICK w : w = work[t]  OBVIOUS
  <2>2. UnderWay(w) /\ w # Idle  BY <1>3, <2>1, NotIdle DEF LearnWrite
  <2>3. table' = Learned(table, w, w.now).table  BY <1>3, <2>1 DEF LearnWrite
  <2>4. w.now \in Nat  BY <2>2 DEF UnderWay
  <2>5. Rewritten(table', table, w) /\ (HeldElsewhere(table, w, w.now) => table' = table)
    BY <1>1, <2>2, <2>3, <2>4, LearnedIs
  <2> QED  BY <2>1, <2>2, <2>5
<1>4. ASSUME NEW t \in Threads, Evict(t) PROVE Part(table', table)
  BY <1>1, <1>4, RemoveIs DEF Evict, Part
<1>5. ASSUME NEW id, Purge(id) PROVE Part(table', table)
  BY <1>1, <1>5, PurgeIs DEF Purge
<1> QED
  BY <1>2, <1>3, <1>4, <1>5 DEF Next, Arrive, LearnRead, Lookup, Connect,
     SetPortMacLimit, SetPortSecure, SetPortMode, Reconfigure, Disconnect, Tick, vars

LEMMA HubInit == Init => HubInv
<1> SUFFICES ASSUME Init PROVE HubInv  OBVIOUS
<1>1. PICK p : p = scope.ports  OBVIOUS
<1>2. scope \in Scopes  BY DEF Init
<1>3. /\ p \in Seq(Range(p)) /\ Len(p) <= scope.max_ports /\ scope.max_ports <= MAX_PORTS
      /\ scope.max_ports \in Nat
      /\ \A x \in Range(p) : x = [limit |-> x.limit, mode |-> x.mode, secure |-> x.secure]
      /\ {x.limit : x \in Range(p)} \subseteq Limits
  BY <1>1, <1>2, HubAssumption DEF Limits
<1>4. Len(p) \in Nat /\ DOMAIN p = 1 .. Len(p) /\ p = [i \in DOMAIN p |-> p[i]]
  BY <1>3
<1>5. \A i \in DOMAIN p : p[i] \in Range(p)  BY DEF Range
<1>6. PortTable(p)  BY <1>3, <1>4, <1>5, HubAssumption DEF PortTable, Ids
<1>7. PICK tb : tb = table  OBVIOUS
<1>8. /\ tb = [entries |-> <<>>, per_port |-> [i \in Ids |-> 0], prune_after |-> NoTime]
  BY <1>7 DEF Init
<1>9. DOMAIN tb.entries = {} /\ tb.entries = [k \in {} |-> tb.entries[k]]  BY <1>8
<1>10. \A i : EntriesOf(tb, i) = {}  BY <1>9 DEF EntriesOf
<1>11. Counted(tb)  BY <1>8, <1>9, <1>10, FS_EmptySet DEF Counted
<1>12. Within(0)
  <2>1. scope.port_limit \in Limits  BY DEF Limits
  <2>2. scope.port_limit \in Nat \cup {NoLimit}  BY <1>2, <2>1, LimitsAre
  <2> QED  BY <2>1, <2>2 DEF Within
<1>13. Bounded(tb)
  BY <1>8, <1>9, <1>12, FS_EmptySet, HubAssumption DEF Bounded
<1>14. clock = 0 /\ ports = p /\ last_id = Len(p) /\ work = [t \in Threads |-> Idle]
  BY <1>1 DEF Init
<1> QED
  BY <1>2, <1>3, <1>4, <1>6, <1>7, <1>11, <1>13, <1>14 DEF HubInv

(* A new port table keeps what is known of port tables.                    *)
LEMMA PortSteps ==
    ASSUME HubInv, [Next]_vars
    PROVE  /\ scope' = scope /\ clock' \in Nat /\ clock <= clock'
           /\ last_id' \in Nat /\ last_id' <= scope.max_ports
           /\ PortTable(ports') /\ DOMAIN ports' \subseteq 1 .. last_id'
<1>1. /\ scope \in Scopes /\ clock \in Nat /\ last_id \in Nat
      /\ last_id <= scope.max_ports
      /\ PortTable(ports) /\ DOMAIN ports \subseteq 1 .. last_id
  BY DEF HubInv
<1>2. CASE UNCHANGED <<clock, ports, last_id, scope>>
  BY <1>1, <1>2
<1>3. ASSUME Connect
      PROVE  /\ UNCHANGED <<clock, scope>>
             /\ last_id' \in Nat /\ last_id' <= scope.max_ports
             /\ PortTable(ports') /\ DOMAIN ports' \subseteq 1 .. last_id'
  <2>1. PICK x : x = [limit |-> scope.port_limit, mode |-> Transparent, secure |-> FALSE]
    OBVIOUS
  <2>2. /\ last_id' = last_id + 1 /\ last_id < scope.max_ports
        /\ ports' = [i \in DOMAIN ports \cup {last_id'} |->
                        IF i = last_id' THEN x ELSE ports[i]]
        /\ UNCHANGED <<clock, scope>>
    BY <1>3, <2>1 DEF Connect, Put
  <2>3. scope.max_ports \in Nat /\ scope.max_ports <= MAX_PORTS /\ MAX_PORTS \in Nat
    BY <1>1, HubAssumption
  <2>4. x.limit \in Limits
        /\ x = [limit |-> x.limit, mode |-> x.mode, secure |-> x.secure]
    BY <2>1 DEF Limits
  <2>5. last_id' \in Ids  BY <1>1, <2>2, <2>3 DEF Ids
  <2>6. PortTable(ports')  BY <1>1, <2>2, <2>4, <2>5 DEF PortTable
  <2> QED  BY <1>1, <2>2, <2>3, <2>6
<1>4. ASSUME NEW id, NEW field \in {"limit", "mode", "secure"}, NEW value,
             Reconfigure(id, field, value), field = "limit" => value \in Limits
      PROVE  UNCHANGED <<clock, last_id, scope>> /\ PortTable(ports')
             /\ DOMAIN ports' \subseteq 1 .. last_id'
  <2>1. /\ ports' = [i \in DOMAIN ports |->
                        IF i = id THEN [ports[i] EXCEPT ![field] = value] ELSE ports[i]]
        /\ UNCHANGED <<clock, last_id, scope>>
    BY <1>4 DEF Reconfigure
  <2>2. ASSUME NEW i \in DOMAIN ports
        PROVE  /\ ports'[i].limit \in Limits
               /\ ports'[i] = [limit |-> ports'[i].limit, mode |-> ports'[i].mode,
                               secure |-> ports'[i].secure]
    <3>1. PICK x : x = ports[i]  OBVIOUS
    <3>2. /\ x = [limit |-> x.limit, mode |-> x.mode, secure |-> x.secure]
          /\ x.limit \in Limits
      BY <1>1, <3>1 DEF PortTable
    <3>3. PICK y : y = [x EXCEPT ![field] = value]  OBVIOUS
    <3>4. /\ y = [limit |-> y.limit, mode |-> y.mode, secure |-> y.secure]
          /\ y.limit \in Limits
      <4>1. CASE field = "limit"  BY <1>4, <3>2, <3>3, <4>1
      <4>2. CASE field = "mode"  BY <1>4, <3>2, <3>3, <4>2
      <4>3. CASE field = "secure"  BY <1>4, <3>2, <3>3, <4>3
      <4> QED  BY <4>1, <4>2, <4>3
    <3>5. ports'[i] \in {x, y}  BY <2>1, <3>1, <3>3
    <3> QED  BY <3>2, <3>4, <3>5
  <2>3. PortTable(ports')  BY <1>1, <2>1, <2>2 DEF PortTable
  <2> QED  BY <1>1, <2>1, <2>3
<1>5. ASSUME NEW id, Disconnect(id)
      PROVE  UNCHANGED <<clock, last_id, scope>> /\ PortTable(ports')
             /\ DOMAIN ports' \subseteq 1 .. last_id'
  BY <1>1, <1>5 DEF Disconnect, Restrict, PortTable
<1>6. ASSUME NEW id, NEW limit, SetPortMacLimit(id, limit)
      PROVE  UNCHANGED <<clock, last_id, scope>> /\ PortTable(ports')
             /\ DOMAIN ports' \subseteq 1 .. last_id'
  <2>1. limit \in Limits  BY <1>6 DEF SetPortMacLimit, Limits
  <2> QED  BY <1>4, <1>6, <2>1 DEF SetPortMacLimit
<1>7. ASSUME NEW id, NEW value, SetPortSecure(id, value) \/ SetPortMode(id, value)
      PROVE  UNCHANGED <<clock, last_id, scope>> /\ PortTable(ports')
             /\ DOMAIN ports' \subseteq 1 .. last_id'
  BY <1>4, <1>7 DEF SetPortSecure, SetPortMode
<1>8. ASSUME Tick
      PROVE  UNCHANGED <<ports, last_id, scope>> /\ clock' \in Nat /\ clock <= clock'
  BY <1>1, <1>8 DEF Tick
<1>9. \/ UNCHANGED <<clock, ports, last_id, scope>>
      \/ Connect
      \/ \E id : Disconnect(id)
      \/ \E id, limit : SetPortMacLimit(id, limit)
      \/ \E id, value : SetPortSecure(id, value) \/ SetPortMode(id, value)
      \/ Tick
  <2>1. ASSUME NEW t, \/ \E id, f : Arrive(t, id, f)
                     \/ LearnRead(t) \/ LearnWrite(t) \/ Lookup(t) \/ Evict(t)
        PROVE  UNCHANGED <<clock, ports, last_id, scope>>
    BY <2>1 DEF Arrive, LearnRead, LearnWrite, Lookup, Evict
  <2>2. ASSUME NEW id, Purge(id) PROVE UNCHANGED <<clock, ports, last_id, scope>>
    BY <2>2 DEF Purge
  <2>3. CASE UNCHANGED vars  BY <2>3 DEF vars
  <2>4. CASE Next  BY <2>1, <2>2, <2>4, Zenon DEF Next
  <2> QED  BY <2>3, <2>4
<1>10. \/ UNCHANGED <<clock, ports, last_id, scope>>
       \/ Connect
       \/ /\ UNCHANGED <<clock, last_id, scope>>
          /\ PortTable(ports') /\ DOMAIN ports' \subseteq 1 .. last_id'
       \/ Tick
  BY <1>5, <1>6, <1>7, <1>9, Zenon
<1> QED  BY <1>1, <1>2, <1>3, <1>8, <1>10

LEMMA HubNext == HubInv /\ [Next]_vars => HubInv'
<1> SUFFICES ASSUME HubInv, [Next]_vars PROVE HubInv'  OBVIOUS
<1>1. /\ scope' = scope /\ clock' \in Nat /\ clock <= clock' /\ clock \in Nat
      /\ last_id' \in Nat /\ last_id' <= scope.max_ports
      /\ PortTable(ports') /\ DOMAIN ports' \subseteq 1 .. last_id'
      /\ scope \in Scopes
  BY PortSteps DEF HubInv
<1>2. PortTable(ports)'  BY <1>1, PortsPrimed
<1>3. Counted(table') /\ Bounded(table')
  BY <1>1, TableSteps, PartBounded DEF Part, Rewritten, HubInv
<1>4. Counted(table)' /\ Bounded(table)'  BY <1>1, <1>3, TablePrimed
<1>5. /\ work' = [u \in Threads |-> work'[u]]
      /\ \A u \in Threads : work'[u] = Idle \/ UnderWay(work[u])'
  <2>1. ASSUME NEW t \in Threads,
               \/ \E id \in Ids, f \in Ever("frames") : Arrive(t, id, f)
               \/ LearnRead(t) \/ LearnWrite(t) \/ Lookup(t) \/ Evict(t)
        PROVE  /\ work' = [u \in Threads |-> work'[u]]
               /\ \A u \in Threads : work'[u] = Idle \/ UnderWay(work[u])'
    BY <2>1, ThreadMoves, MovesKeep
  <2>2. CASE work' = work
    <3>1. ASSUME NEW u \in Threads PROVE work'[u] = Idle \/ UnderWay(work[u])'
      <4>1. PICK w : w = work[u] /\ w = work'[u]  BY <2>2
      <4>2. w = Idle \/ UnderWay(w)  BY <4>1 DEF HubInv
      <4>3. UnderWay(w) => UnderWay(w)'  BY <1>1, UnderWayLater
      <4> QED  BY <4>1, <4>2, <4>3 DEF UnderWay, PortTable
    <3> QED  BY <2>2, <3>1 DEF HubInv
  <2> QED
    BY <2>1, <2>2 DEF Next, Connect, SetPortMacLimit, SetPortSecure, SetPortMode,
       Reconfigure, Disconnect, Purge, Tick, vars
<1> QED  BY <1>1, <1>2, <1>4, <1>5 DEF HubInv

(* The per-port counts are the numbers of entries, and the table and what  *)
(* a port has of it stay within their limits, through moves of addresses,  *)
(* sweeps, purges, evictions and reconfigurations in any order.            *)
THEOREM CountsAreRight == Spec => []CountsMatch
<1>1. HubInv => CountsMatch
  BY DEF HubInv, Counted, Bounded, Within, CountsMatch
<1> QED  BY <1>1, HubInit, HubNext, PTL DEF Spec

(* An address that a secure port holds is not taken over by a frame that   *)
(* took its snapshot with the port secure, however the locks interleave.   *)
THEOREM SecureKeepsAddress == Spec => HeldNotStolen
<1> DEFINE A == \A k \in DOMAIN table.entries :
                    Holds(k) /\ SecureToAll(table.entries[k].port) =>
                        \/ k \notin DOMAIN table'.entries
                        \/ table'.entries[k].port = table.entries[k].port
<1>1. HubInv /\ [Next]_vars => [A]_vars
  <2> SUFFICES ASSUME HubInv, [Next]_vars, NEW k \in DOMAIN table.entries,
                      Holds(k), SecureToAll(table.entries[k].port),
                      k \in DOMAIN table'.entries
               PROVE  table'.entries[k].port = table.entries[k].port
    OBVIOUS
  <2>1. CASE Part(table', table)  BY <2>1 DEF Part
  <2>2. ASSUME NEW t \in Threads, LearnWrite(t), UnderWay(work[t]), work[t] # Idle,
               Rewritten(table', table, work[t]),
               HeldElsewhere(table, work[t], work[t].now) => table' = table
        PROVE  table'.entries[k].port = table.entries[k].port
    <3>1. PICK w : w = work[t]  OBVIOUS
    <3>2. CASE k = SourceKey(w) /\ table'.entries[k].port = w.port
                /\ table.entries[k].port # w.port
      <4>1. PICK e : e = table.entries[k]  OBVIOUS
      <4>2. e.port \in DOMAIN w.snap /\ w.snap[e.port].secure
        BY <2>2, <3>1, <4>1 DEF SecureToAll
      <4>3. e.expires > w.now
        BY <2>2, <3>1, <4>1 DEF Holds, UnderWay, HubInv, Counted
      <4>4. HeldElsewhere(table, w, w.now)
        BY <3>2, <4>1, <4>2, <4>3 DEF HeldElsewhere
      <4> QED  BY <2>2, <3>1, <4>4
    <3> QED  BY <2>2, <3>1, <3>2 DEF Rewritten
  <2> QED  BY <2>1, <2>2, TableSteps
<1>2. Spec => [][A]_vars  BY <1>1, HubInit, HubNext, PTL DEF Spec
<1> QED  BY <1>2 DEF HeldNotStolen

-----------------------------------------------------------------------------
(* Tags.                                                                   *)

Read(mode, vlan) == IF vlan = 0 THEN IngressVlan(mode, <<>>) ELSE vlan

KeepsVlan(c) == IngressVlan(c.mode, c.tags) = Read(c.mode, c.vlan)

(* Whatever the mode and the stack of tags, what leaves is read back as of *)
(* the same VLAN, or on VLAN 0 as an untagged frame would be.              *)
LEMMA LeavingKeeps ==
    ASSUME NEW mode, NEW vlan, NEW tags, NEW out \in Leaving(mode, vlan, tags)
    PROVE  IngressVlan(mode, out) = Read(mode, vlan)
<1>1. PICK bare : bare = IF tags = <<>> THEN {<<>>} ELSE PopVlan(tags)  OBVIOUS
<1>2. \A s \in bare : s = <<>>  BY <1>1 DEF PopVlan
<1>3. CASE mode.kind = "access"
  <2>1. mode.vlan = vlan /\ out = <<>>  BY <1>1, <1>2, <1>3 DEF Leaving
  <2> QED  BY <1>3, <2>1 DEF IngressVlan, Read
<1>4. CASE mode.kind # "access"
  <2>1. vlan \in mode.allowed  BY <1>4 DEF Leaving
  <2>2. CASE mode.native = vlan
    <3>1. out = <<>>  BY <1>1, <1>2, <1>4, <2>1, <2>2 DEF Leaving
    <3> QED  BY <1>4, <2>1, <2>2, <3>1 DEF IngressVlan, Read
  <2>3. CASE mode.native # vlan /\ tags # <<>> /\ Head(tags) = vlan
    <3>1. out = tags  BY <1>4, <2>1, <2>3 DEF Leaving
    <3> QED  BY <1>4, <2>1, <2>3, <3>1 DEF IngressVlan, Read
  <2>4. CASE mode.native # vlan /\ ~ (tags # <<>> /\ Head(tags) = vlan)
    <3>1. out \in {PushVlan(s, vlan) : s \in bare}
      BY <1>1, <1>4, <2>1, <2>4 DEF Leaving
    <3>2. out = <<vlan>>  BY <1>2, <3>1 DEF PushVlan
    <3>3. out # <<>> /\ Head(out) = vlan  BY <3>2
    <3> QED  BY <1>4, <2>1, <3>3 DEF IngressVlan, Read
  <2> QED  BY <2>2, <2>3, <2>4
<1> QED  BY <1>3, <1>4

LEMMA SentKeeps ==
    ASSUME NEW w, NEW ids, NEW c \in Sent(w, ids)
    PROVE  KeepsVlan(c)
<1>1. PICK i \in ids : \E s \in Leaving(w.snap[i].mode, w.vlan, w.frame.tags) :
            c = [port |-> i, mode |-> w.snap[i].mode, vlan |-> w.vlan, tags |-> s]
  BY DEF Sent
<1>2. /\ c.mode = w.snap[i].mode /\ c.vlan = w.vlan
      /\ c.tags \in Leaving(w.snap[i].mode, w.vlan, w.frame.tags)
  BY <1>1
<1> QED  BY <1>2, LeavingKeeps DEF KeepsVlan

(* What leaves a port, retagged or stripped as its mode says, is read at   *)
(* the other end as being on the VLAN the frame was admitted to; but on    *)
(* VLAN 0 it is read as an untagged frame is, whatever that port's native  *)
(* VLAN.                                                                   *)
THEOREM VlansStayApart == Spec => []CopiesKeepVlan
<1>1. Init => CopiesKeepVlan  BY DEF Init, CopiesKeepVlan
<1>2. CopiesKeepVlan /\ [Next]_vars => CopiesKeepVlan'
  <2> SUFFICES ASSUME CopiesKeepVlan, [Next]_vars PROVE CopiesKeepVlan'  OBVIOUS
  <2>1. \/ copies' \in {copies, {}}
        \/ \E w, ids : copies' = Sent(w, ids)
    <3>1. ASSUME NEW t, NEW w, GoOn(t, w)
          PROVE  copies' = {} \/ \E ids : copies' = Sent(w, ids)
      BY <3>1 DEF GoOn, Flooded
    <3>2. ASSUME NEW t, NEW id, NEW f, Arrive(t, id, f)
          PROVE  copies' = {} \/ \E w, ids : copies' = Sent(w, ids)
      BY <3>1, <3>2 DEF Arrive
    <3>3. ASSUME NEW t, LearnRead(t)
          PROVE  copies' = {} \/ \E w, ids : copies' = Sent(w, ids)
      <4>1. PICK w : w = work[t]  OBVIOUS
      <4>2. PICK now \in w.now .. clock :
                CASE KnownAndFresh(table, w, now) -> GoOn(t, [w EXCEPT !.now = now])
                  [] HeldElsewhere(table, w, now) -> Done(t, {})
                  [] OTHER -> /\ work' = [work EXCEPT ![t] =
                                            [[w EXCEPT !.now = now] EXCEPT !.pc = "write"]]
                              /\ copies' = {}
        BY <3>3, <4>1 DEF LearnRead
      <4>3. CASE KnownAndFresh(table, w, now)
        <5>1. ~ HeldElsewhere(table, w, now)
          BY <4>3 DEF KnownAndFresh, HeldElsewhere
        <5> QED  BY <3>1, <4>2, <4>3, <5>1
      <4>4. CASE ~ KnownAndFresh(table, w, now)  BY <4>2, <4>4 DEF Done
      <4> QED  BY <4>3, <4>4
    <3>4. ASSUME NEW t, LearnWrite(t)
          PROVE  copies' = {} \/ \E w, ids : copies' = Sent(w, ids)
      BY <3>1, <3>4 DEF LearnWrite, Done
    <3>5. ASSUME NEW t, Lookup(t)
          PROVE  copies' = {} \/ \E w, ids : copies' = Sent(w, ids)
      BY <3>5 DEF Lookup, Done, Flooded
    <3>6. ASSUME NEW t, Evict(t) PROVE \E w, ids : copies' = Sent(w, ids)
      BY <3>6 DEF Evict, Done, Flooded
    <3> QED
      BY <3>2, <3>3, <3>4, <3>5, <3>6 DEF Next, Connect, SetPortMacLimit,
         SetPortSecure, SetPortMode, Reconfigure, Disconnect, Purge, Tick, vars
  <2> QED  BY <2>1, SentKeeps DEF CopiesKeepVlan, KeepsVlan, Read
<1> QED  BY <1>1, <1>2, PTL DEF Spec
=============================================================================
