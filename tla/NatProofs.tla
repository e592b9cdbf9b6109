----------------------------- MODULE NatProofs -----------------------------
(***************************************************************************)
(* The NAT's tables agree, its ports are accounted for, a forwarded port   *)
(* leads to the forward's endpoint, an expected one to the endpoint it was *)
(* handed out for, a sweep leaves nothing idle, and a live session keeps   *)
(* its port: for any endpoints, ports, limits and timeouts.                *)
(*                                                                         *)
(* The invariant is a predicate on the record inner, kept by each of the   *)
(* operators that the handlers are built from; beside it, each leaves the  *)
(* live sessions where they were.                                          *)
(***************************************************************************)
EXTENDS Nat, TLAPS, FiniteSetTheorems, WellFoundedInduction, NaturalsInduction

Rks == Protos \X Ports

(* The record's fields.                                                    *)
Rec(t) ==
    t = [mappings |-> t.mappings, reverse |-> t.reverse, holders |-> t.holders,
         nextPort |-> t.nextPort, reclaim |-> t.reclaim, forwards |-> t.forwards,
         byEndpoint |-> t.byEndpoint, expectations |-> t.expectations,
         hosts |-> t.hosts, limits |-> t.limits]

(* A side of a mapping; and a mapping, which has displaced at most one.    *)
Side(s) ==
    /\ s = [port |-> s.port, left |-> s.left, peers |-> s.peers, open |-> s.open,
            openLeft |-> s.openLeft, alias |-> s.alias]
    /\ s.port \in Ports

MappingOK(m) ==
    /\ Side(m)
    /\ \/ m.alias = {}
       \/ \E a \in m.alias : /\ m.alias = {a} /\ Side(a)
                             /\ a.alias = {} /\ a.port # m.port

MappingsOK(t) == \A k \in DOMAIN t.mappings : k \in Keys /\ MappingOK(t.mappings[k])

(* The reverse table and the mappings agree.                               *)
Agree(t) ==
    /\ \A rk \in DOMAIN t.reverse :
          /\ t.reverse[rk] \in DOMAIN t.mappings
          /\ \E p \in PortsOf(t.mappings[t.reverse[rk]]) : rk = At(t.reverse[rk], p)
    /\ \A k \in DOMAIN t.mappings : \A p \in PortsOf(t.mappings[k]) :
          At(k, p) \in DOMAIN t.reverse /\ t.reverse[At(k, p)] = k

(* A port's holders are the entries on it.                                 *)
OnPort(rks, p) == {rk \in rks : rk[2] = p}
ExpectedOn(es, p) == {e \in es : e.port = p}

Counted(t) ==
    /\ DOMAIN t.reverse \subseteq Rks /\ DOMAIN t.forwards \subseteq Rks
    /\ IsFiniteSet(DOMAIN t.expectations)
    /\ \A e \in DOMAIN t.expectations : e.target \in Keys /\ e.port \in Ports
    /\ t.holders = [p \in Ports |-> Cardinality(OnPort(DOMAIN t.reverse, p))
                                    + Cardinality(OnPort(DOMAIN t.forwards, p))
                                    + Cardinality(ExpectedOn(DOMAIN t.expectations, p))]

(* The forwards and their index by endpoint agree, and a forwarded port is *)
(* bound to its endpoint or to none.                                       *)
Forwarded(t) ==
    /\ \A k \in DOMAIN t.byEndpoint :
          t.byEndpoint[k] \in DOMAIN t.forwards /\ Endpoint(t, t.byEndpoint[k]) = k
    /\ \A rk \in DOMAIN t.forwards :
          /\ Endpoint(t, rk) \in Keys /\ At(Endpoint(t, rk), rk[2]) = rk
          /\ Endpoint(t, rk) \in DOMAIN t.byEndpoint
          /\ t.byEndpoint[Endpoint(t, rk)] = rk
          /\ rk \in DOMAIN t.reverse => t.reverse[rk] = Endpoint(t, rk)

(* A mapping that displaced one is on a forwarded port, or on one of rks.  *)
Displaced(t, rks) ==
    \A k \in DOMAIN t.mappings :
        t.mappings[k].alias # {} /\ At(k, t.mappings[k].port) \notin rks =>
            /\ At(k, t.mappings[k].port) \in DOMAIN t.forwards
            /\ Endpoint(t, At(k, t.mappings[k].port)) = k

(* A port that is expected is not forwarded.  A TCP one, unless it is      *)
(* shared, is expected for one endpoint and bound to that or to none; an   *)
(* ALG reserves only TCP ports for one remote.                             *)
Rk(e) == At(e.target, e.port)

Reserves(e, S) == e.target.proto = "tcp" /\ Rk(e) \notin S

ExpectingBut(t, S) ==
    /\ \A e \in Live(t) :
          /\ Rk(e) \notin DOMAIN t.forwards
          /\ Reserves(e, S) =>
                /\ Rk(e) \in DOMAIN t.reverse => t.reverse[Rk(e)] = e.target
                /\ \A d \in Live(t) : Rk(d) = Rk(e) => d.target = e.target
    /\ \A e \in DOMAIN t.expectations :
          t.expectations[e].one => e.target.proto = "tcp"

Expecting(t) == ExpectingBut(t, shared)

(* All of it but where displaced mappings are.                             *)
Sound(t) ==
    /\ Rec(t) /\ MappingsOK(t) /\ Agree(t) /\ Counted(t)
    /\ Forwarded(t) /\ Expecting(t)

NatInv(t) == Sound(t) /\ Displaced(t, {})

NatInvariant == NatInv(inner)

-----------------------------------------------------------------------------
(* What the tables' own operations do.                                     *)

(* n is t in all but the tables of ports and mappings.                     *)
Rest(t, n) ==
    /\ n.nextPort = t.nextPort /\ n.reclaim = t.reclaim
    /\ n.hosts = t.hosts /\ n.limits = t.limits

SameForwards(t, n) == n.forwards = t.forwards /\ n.byEndpoint = t.byEndpoint

LEMMA PutIs ==
    ASSUME NEW f, NEW x, NEW v
    PROVE  /\ DOMAIN Put(f, x, v) = DOMAIN f \cup {x}
           /\ Put(f, x, v)[x] = v
           /\ \A y \in DOMAIN f : y # x => Put(f, x, v)[y] = f[y]
BY DEF Put

LEMMA WithoutIs ==
    ASSUME NEW f, NEW S
    PROVE  /\ DOMAIN Without(f, S) = DOMAIN f \ S
           /\ \A y \in DOMAIN f \ S : Without(f, S)[y] = f[y]
BY DEF Without, Restrict

LEMMA ReleaseIs ==
    ASSUME NEW t, Rec(t), NEW rks, NEW n, n = Release(t, rks)
    PROVE  /\ Rec(n) /\ Rest(t, n) /\ SameForwards(t, n)
           /\ n.mappings = t.mappings /\ n.reverse = t.reverse
           /\ n.expectations = t.expectations
           /\ n.holders = [p \in Ports |-> t.holders[p] - Cardinality(OnPort(rks, p))]
<1>1. PICK h : h = [p \in Ports |-> t.holders[p] - Cardinality({rk \in rks : rk[2] = p})]
  OBVIOUS
<1>2. n = [t EXCEPT !.holders = h]  BY <1>1 DEF Release
<1>3. n = [mappings |-> t.mappings, reverse |-> t.reverse, holders |-> h,
           nextPort |-> t.nextPort, reclaim |-> t.reclaim, forwards |-> t.forwards,
           byEndpoint |-> t.byEndpoint, expectations |-> t.expectations,
           hosts |-> t.hosts, limits |-> t.limits]
  BY <1>2 DEF Rec
<1>4. h = [p \in Ports |-> t.holders[p] - Cardinality(OnPort(rks, p))]
  BY <1>1 DEF OnPort
<1> QED  BY <1>3, <1>4 DEF Rec, Rest, SameForwards

(* n is t with port p held once more.                                      *)
Acquires(t, n, p) ==
    /\ Rec(n) /\ Rest(t, n) /\ SameForwards(t, n)
    /\ n.mappings = t.mappings /\ n.reverse = t.reverse
    /\ n.expectations = t.expectations
    /\ n.holders = [t.holders EXCEPT ![p] = @ + 1]

LEMMA AcquireIs ==
    ASSUME NEW t, Rec(t), NEW p, NEW n, n = Acquire(t, p) PROVE Acquires(t, n, p)
<1>1. PICK h : h = [t.holders EXCEPT ![p] = @ + 1]  OBVIOUS
<1>2. n = [t EXCEPT !.holders = h]  BY <1>1 DEF Acquire
<1>3. n = [mappings |-> t.mappings, reverse |-> t.reverse, holders |-> h,
           nextPort |-> t.nextPort, reclaim |-> t.reclaim, forwards |-> t.forwards,
           byEndpoint |-> t.byEndpoint, expectations |-> t.expectations,
           hosts |-> t.hosts, limits |-> t.limits]
  BY <1>2 DEF Rec
<1> QED  BY <1>1, <1>3 DEF Acquires, Rec, Rest, SameForwards

(* n is t with rk bound to k.                                              *)
Binds(t, n, rk, k) ==
    /\ Rec(n) /\ Rest(t, n) /\ SameForwards(t, n)
    /\ n.mappings = t.mappings /\ n.expectations = t.expectations
    /\ n.reverse = Put(t.reverse, rk, k)
    /\ n.holders = IF rk \in DOMAIN t.reverse THEN t.holders
                   ELSE [t.holders EXCEPT ![rk[2]] = @ + 1]

LEMMA BindIs ==
    ASSUME NEW t, Rec(t), NEW rk, NEW k, NEW n, n = Bind(t, rk, k)
    PROVE  Binds(t, n, rk, k)
<1>1. PICK u : u = IF rk \in DOMAIN t.reverse THEN t ELSE Acquire(t, rk[2])  OBVIOUS
<1>2. /\ Rec(u) /\ Rest(t, u) /\ SameForwards(t, u)
      /\ u.mappings = t.mappings /\ u.reverse = t.reverse
      /\ u.expectations = t.expectations
      /\ u.holders = IF rk \in DOMAIN t.reverse THEN t.holders
                     ELSE [t.holders EXCEPT ![rk[2]] = @ + 1]
  BY <1>1, AcquireIs DEF Acquires, Rest, SameForwards
<1>3. PICK r : r = Put(t.reverse, rk, k)  OBVIOUS
<1>4. n = [u EXCEPT !.reverse = r]  BY <1>1, <1>2, <1>3 DEF Bind
<1>5. n = [mappings |-> u.mappings, reverse |-> r, holders |-> u.holders,
           nextPort |-> u.nextPort, reclaim |-> u.reclaim, forwards |-> u.forwards,
           byEndpoint |-> u.byEndpoint, expectations |-> u.expectations,
           hosts |-> u.hosts, limits |-> u.limits]
  BY <1>2, <1>4 DEF Rec
<1> QED  BY <1>2, <1>3, <1>5 DEF Binds, Rec, Rest, SameForwards

(* n is t with rks unbound.                                                *)
Unbinds(t, n, rks) ==
    /\ Rec(n) /\ Rest(t, n) /\ SameForwards(t, n)
    /\ n.mappings = t.mappings /\ n.expectations = t.expectations
    /\ n.reverse = Without(t.reverse, rks)
    /\ n.holders = [p \in Ports |->
                      t.holders[p]
                      - Cardinality(OnPort(rks \cap DOMAIN t.reverse, p))]

LEMMA UnbindIs ==
    ASSUME NEW t, Rec(t), NEW rks, NEW n, n = Unbind(t, rks)
    PROVE  Unbinds(t, n, rks)
<1>1. PICK u : u = Release(t, rks \cap DOMAIN t.reverse)  OBVIOUS
<1>2. /\ Rec(u) /\ Rest(t, u) /\ SameForwards(t, u)
      /\ u.mappings = t.mappings /\ u.reverse = t.reverse
      /\ u.expectations = t.expectations
      /\ u.holders = [p \in Ports |-> t.holders[p]
                                      - Cardinality(OnPort(rks \cap DOMAIN t.reverse, p))]
  BY <1>1, ReleaseIs
<1>3. PICK r : r = Without(t.reverse, rks)  OBVIOUS
<1>4. n = [u EXCEPT !.reverse = r]  BY <1>1, <1>2, <1>3 DEF Unbind
<1>5. n = [mappings |-> u.mappings, reverse |-> r, holders |-> u.holders,
           nextPort |-> u.nextPort, reclaim |-> u.reclaim, forwards |-> u.forwards,
           byEndpoint |-> u.byEndpoint, expectations |-> u.expectations,
           hosts |-> u.hosts, limits |-> u.limits]
  BY <1>2, <1>4 DEF Rec
<1> QED  BY <1>2, <1>3, <1>5 DEF Unbinds, Rec, Rest, SameForwards

(* n is t without the forwards on rks.                                     *)
Unforwards(t, n, rks) ==
    /\ Rec(n) /\ Rest(t, n)
    /\ n.mappings = t.mappings /\ n.reverse = t.reverse
    /\ n.expectations = t.expectations
    /\ n.forwards = Without(t.forwards, rks \cap DOMAIN t.forwards)
    /\ n.byEndpoint =
         Without(t.byEndpoint,
                 {k \in DOMAIN t.byEndpoint :
                    /\ t.byEndpoint[k] \in rks \cap DOMAIN t.forwards
                    /\ k = Endpoint(t, t.byEndpoint[k])})
    /\ n.holders = [p \in Ports |->
                      t.holders[p]
                      - Cardinality(OnPort(rks \cap DOMAIN t.forwards, p))]

LEMMA ForwardsRemoveIs ==
    ASSUME NEW t, Rec(t), NEW rks, NEW n, n = ForwardsRemove(t, rks)
    PROVE  Unforwards(t, n, rks)
<1>1. PICK u : u = Release(t, rks \cap DOMAIN t.forwards)  OBVIOUS
<1>2. /\ Rec(u) /\ Rest(t, u) /\ SameForwards(t, u)
      /\ u.mappings = t.mappings /\ u.reverse = t.reverse
      /\ u.expectations = t.expectations
      /\ u.holders = [p \in Ports |-> t.holders[p]
                                      - Cardinality(OnPort(rks \cap DOMAIN t.forwards, p))]
  BY <1>1, ReleaseIs
<1>3. PICK f : f = Without(t.forwards, rks \cap DOMAIN t.forwards)  OBVIOUS
<1>4. PICK b : b = Without(t.byEndpoint,
                           {k \in DOMAIN t.byEndpoint :
                              /\ t.byEndpoint[k] \in rks \cap DOMAIN t.forwards
                              /\ k = Endpoint(t, t.byEndpoint[k])})
  OBVIOUS
<1>5. n = [u EXCEPT !.forwards = f, !.byEndpoint = b]
  BY <1>1, <1>2, <1>3, <1>4 DEF ForwardsRemove, SameForwards
<1>6. n = [mappings |-> u.mappings, reverse |-> u.reverse, holders |-> u.holders,
           nextPort |-> u.nextPort, reclaim |-> u.reclaim, forwards |-> f,
           byEndpoint |-> b, expectations |-> u.expectations,
           hosts |-> u.hosts, limits |-> u.limits]
  BY <1>2, <1>5 DEF Rec
<1> QED  BY <1>2, <1>3, <1>4, <1>6 DEF Unforwards, Rec, Rest, SameForwards

(* n is t with forward f on rk, u being t without one there.               *)
Inserts(t, u, n, rk, f) ==
    /\ Rec(n) /\ Rest(t, n)
    /\ n.mappings = t.mappings /\ n.reverse = t.reverse
    /\ n.expectations = t.expectations
    /\ n.forwards = Put(u.forwards, rk, f)
    /\ n.byEndpoint = Put(u.byEndpoint, f.key, rk)
    /\ n.holders = [u.holders EXCEPT ![rk[2]] = @ + 1]

LEMMA ForwardsInsertIs ==
    ASSUME NEW t, Rec(t), NEW rk, NEW f, NEW u, u = ForwardsRemove(t, {rk}),
           NEW n, n = ForwardsInsert(t, rk, f)
    PROVE  Inserts(t, u, n, rk, f)
<1>1. /\ Rec(u) /\ Rest(t, u)
      /\ u.mappings = t.mappings /\ u.reverse = t.reverse
      /\ u.expectations = t.expectations
  <2>1. PICK rks : rks = {rk}  OBVIOUS
  <2>2. u = ForwardsRemove(t, rks)  BY <2>1
  <2>3. Unforwards(t, u, rks)  BY <2>2, ForwardsRemoveIs
  <2> QED  BY <2>3 DEF Unforwards
<1>2. PICK v : v = Acquire(u, rk[2])  OBVIOUS
<1>3. /\ Rec(v) /\ Rest(u, v) /\ SameForwards(u, v)
      /\ v.mappings = u.mappings /\ v.reverse = u.reverse
      /\ v.expectations = u.expectations
      /\ v.holders = [u.holders EXCEPT ![rk[2]] = @ + 1]
  <2>1. PICK p : p = rk[2]  OBVIOUS
  <2>2. v = Acquire(u, p)  BY <1>2, <2>1
  <2>3. Acquires(u, v, p)  BY <1>1, <2>2, AcquireIs
  <2> QED  BY <2>1, <2>3 DEF Acquires
<1>4. PICK fs : fs = Put(u.forwards, rk, f)  OBVIOUS
<1>5. PICK b : b = Put(u.byEndpoint, f.key, rk)  OBVIOUS
<1>6. n = [v EXCEPT !.forwards = fs, !.byEndpoint = b]
  BY <1>2, <1>3, <1>4, <1>5 DEF ForwardsInsert, SameForwards
<1>7. n = [mappings |-> v.mappings, reverse |-> v.reverse, holders |-> v.holders,
           nextPort |-> v.nextPort, reclaim |-> v.reclaim, forwards |-> fs,
           byEndpoint |-> b, expectations |-> v.expectations,
           hosts |-> v.hosts, limits |-> v.limits]
  BY <1>3, <1>6 DEF Rec
<1> QED  BY <1>1, <1>3, <1>4, <1>5, <1>7 DEF Inserts, Rec, Rest

(* n is t without the expectations es.                                     *)
Drops(t, n, es) ==
    /\ Rec(n) /\ Rest(t, n) /\ SameForwards(t, n)
    /\ n.mappings = t.mappings /\ n.reverse = t.reverse
    /\ n.expectations = Without(t.expectations, es)
    /\ n.holders = [p \in Ports |-> t.holders[p] - Cardinality(ExpectedOn(es, p))]

LEMMA ExpectationsDropIs ==
    ASSUME NEW t, Rec(t), NEW es, NEW n, n = ExpectationsDrop(t, es)
    PROVE  Drops(t, n, es)
<1>1. PICK h : h = [p \in Ports |-> t.holders[p] - Cardinality({e \in es : e.port = p})]
  OBVIOUS
<1>2. PICK x : x = Without(t.expectations, es)  OBVIOUS
<1>3. n = [t EXCEPT !.expectations = x, !.holders = h]
  BY <1>1, <1>2 DEF ExpectationsDrop
<1>4. n = [mappings |-> t.mappings, reverse |-> t.reverse, holders |-> h,
           nextPort |-> t.nextPort, reclaim |-> t.reclaim, forwards |-> t.forwards,
           byEndpoint |-> t.byEndpoint, expectations |-> x,
           hosts |-> t.hosts, limits |-> t.limits]
  BY <1>3 DEF Rec
<1>5. h = [p \in Ports |-> t.holders[p] - Cardinality(ExpectedOn(es, p))]
  BY <1>1 DEF ExpectedOn
<1> QED  BY <1>2, <1>4, <1>5 DEF Drops, Rec, Rest, SameForwards

(* n is t with one expectation more.                                       *)
Pushes(t, n, e, one) ==
    /\ Rec(n) /\ Rest(t, n) /\ SameForwards(t, n)
    /\ n.mappings = t.mappings /\ n.reverse = t.reverse
    /\ n.expectations = Put(t.expectations, e, [left |-> EXPECT, one |-> one])
    /\ n.holders = [t.holders EXCEPT ![e.port] = @ + 1]

LEMMA ExpectationsPushIs ==
    ASSUME NEW t, Rec(t), NEW e, NEW one, NEW n, n = ExpectationsPush(t, e, one)
    PROVE  Pushes(t, n, e, one)
<1>1. PICK u : u = Acquire(t, e.port)  OBVIOUS
<1>2. /\ Rec(u) /\ Rest(t, u) /\ SameForwards(t, u)
      /\ u.mappings = t.mappings /\ u.reverse = t.reverse
      /\ u.expectations = t.expectations
      /\ u.holders = [t.holders EXCEPT ![e.port] = @ + 1]
  BY <1>1, AcquireIs DEF Acquires
<1>3. PICK x : x = Put(t.expectations, e, [left |-> EXPECT, one |-> one])  OBVIOUS
<1>4. n = [u EXCEPT !.expectations = x]  BY <1>1, <1>2, <1>3 DEF ExpectationsPush
<1>5. n = [mappings |-> u.mappings, reverse |-> u.reverse, holders |-> u.holders,
           nextPort |-> u.nextPort, reclaim |-> u.reclaim, forwards |-> u.forwards,
           byEndpoint |-> u.byEndpoint, expectations |-> x,
           hosts |-> u.hosts, limits |-> u.limits]
  BY <1>2, <1>4 DEF Rec
<1> QED  BY <1>2, <1>3, <1>5 DEF Pushes, Rec, Rest, SameForwards

(* n is t with other mappings.                                             *)
Remapped(t, n, ms) ==
    /\ Rec(n) /\ Rest(t, n) /\ SameForwards(t, n)
    /\ n.mappings = ms /\ n.reverse = t.reverse /\ n.holders = t.holders
    /\ n.expectations = t.expectations

LEMMA RemappedIs ==
    ASSUME NEW t, Rec(t), NEW ms PROVE Remapped(t, [t EXCEPT !.mappings = ms], ms)
<1>1. PICK n : n = [t EXCEPT !.mappings = ms]  OBVIOUS
<1>2. n = [mappings |-> ms, reverse |-> t.reverse, holders |-> t.holders,
           nextPort |-> t.nextPort, reclaim |-> t.reclaim, forwards |-> t.forwards,
           byEndpoint |-> t.byEndpoint, expectations |-> t.expectations,
           hosts |-> t.hosts, limits |-> t.limits]
  BY <1>1 DEF Rec
<1> QED  BY <1>1, <1>2 DEF Remapped, Rec, Rest, SameForwards

(* n has the tables of t: at most the next port, the time of the next      *)
(* reclaim, the hosts in mind or the limits differ.                        *)
SameTables(t, n) ==
    /\ Rec(n) /\ SameForwards(t, n)
    /\ n.mappings = t.mappings /\ n.reverse = t.reverse /\ n.holders = t.holders
    /\ n.expectations = t.expectations

LEMMA SameTablesIs ==
    ASSUME NEW t, Rec(t), NEW v
    PROVE  /\ SameTables(t, [t EXCEPT !.nextPort = v])
           /\ SameTables(t, [t EXCEPT !.reclaim = v])
           /\ SameTables(t, [t EXCEPT !.hosts = v])
           /\ SameTables(t, [t EXCEPT !.limits = v])
<1>1. [t EXCEPT !.nextPort = v] =
          [mappings |-> t.mappings, reverse |-> t.reverse, holders |-> t.holders,
           nextPort |-> v, reclaim |-> t.reclaim, forwards |-> t.forwards,
           byEndpoint |-> t.byEndpoint, expectations |-> t.expectations,
           hosts |-> t.hosts, limits |-> t.limits]
  BY DEF Rec
<1>2. [t EXCEPT !.reclaim = v] =
          [mappings |-> t.mappings, reverse |-> t.reverse, holders |-> t.holders,
           nextPort |-> t.nextPort, reclaim |-> v, forwards |-> t.forwards,
           byEndpoint |-> t.byEndpoint, expectations |-> t.expectations,
           hosts |-> t.hosts, limits |-> t.limits]
  BY DEF Rec
<1>3. [t EXCEPT !.hosts = v] =
          [mappings |-> t.mappings, reverse |-> t.reverse, holders |-> t.holders,
           nextPort |-> t.nextPort, reclaim |-> t.reclaim, forwards |-> t.forwards,
           byEndpoint |-> t.byEndpoint, expectations |-> t.expectations,
           hosts |-> v, limits |-> t.limits]
  BY DEF Rec
<1>4. [t EXCEPT !.limits = v] =
          [mappings |-> t.mappings, reverse |-> t.reverse, holders |-> t.holders,
           nextPort |-> t.nextPort, reclaim |-> t.reclaim, forwards |-> t.forwards,
           byEndpoint |-> t.byEndpoint, expectations |-> t.expectations,
           hosts |-> t.hosts, limits |-> v]
  BY DEF Rec
<1>5. SameTables(t, [t EXCEPT !.nextPort = v])
  BY <1>1 DEF SameTables, Rec, SameForwards
<1>6. SameTables(t, [t EXCEPT !.reclaim = v])
  BY <1>2 DEF SameTables, Rec, SameForwards
<1>7. SameTables(t, [t EXCEPT !.hosts = v])
  BY <1>3 DEF SameTables, Rec, SameForwards
<1>8. SameTables(t, [t EXCEPT !.limits = v])
  BY <1>4 DEF SameTables, Rec, SameForwards
<1> QED  BY <1>5, <1>6, <1>7, <1>8

-----------------------------------------------------------------------------
(* The count of a port's holders.                                          *)

LEMMA OnPortFinite ==
    ASSUME NEW rks \in SUBSET Rks, NEW p
    PROVE  IsFiniteSet(OnPort(rks, p)) /\ Cardinality(OnPort(rks, p)) \in Nat
<1>1. IsFiniteSet(Protos)
  <2>1. IsFiniteSet({})  BY FS_EmptySet
  <2>2. IsFiniteSet({} \cup {"tcp"})  BY <2>1, FS_AddElement
  <2>3. IsFiniteSet(({} \cup {"tcp"}) \cup {"udp"})  BY <2>2, FS_AddElement
  <2>4. Protos = ({} \cup {"tcp"}) \cup {"udp"}  BY DEF Protos
  <2> QED  BY <2>3, <2>4
<1>2. IsFiniteSet(Rks)  BY <1>1, NatAssumption, FS_Product DEF Rks
<1>3. OnPort(rks, p) \in SUBSET Rks  BY DEF OnPort
<1>4. IsFiniteSet(OnPort(rks, p))  BY <1>2, <1>3, FS_Subset
<1> QED  BY <1>4, FS_CardinalityType

LEMMA OnPortAdd ==
    ASSUME NEW rks \in SUBSET Rks, NEW rk \in Rks, rk \notin rks, NEW p
    PROVE  Cardinality(OnPort(rks \cup {rk}, p)) =
               Cardinality(OnPort(rks, p)) + (IF rk[2] = p THEN 1 ELSE 0)
<1>1. PICK S : S = OnPort(rks, p)  OBVIOUS
<1>2. IsFiniteSet(S) /\ Cardinality(S) \in Nat  BY <1>1, OnPortFinite
<1>3. rk \notin S  BY <1>1 DEF OnPort
<1>4. CASE rk[2] = p
  <2>1. OnPort(rks \cup {rk}, p) = S \cup {rk}  BY <1>1, <1>4 DEF OnPort
  <2>2. Cardinality(S \cup {rk}) = Cardinality(S) + 1  BY <1>2, <1>3, FS_AddElement
  <2> QED  BY <1>1, <1>4, <2>1, <2>2
<1>5. CASE rk[2] # p
  <2>1. OnPort(rks \cup {rk}, p) = S  BY <1>1, <1>5 DEF OnPort
  <2> QED  BY <1>1, <1>2, <1>5, <2>1
<1> QED  BY <1>4, <1>5

LEMMA OnPortDrop ==
    ASSUME NEW rks \in SUBSET Rks, NEW out \in SUBSET rks, NEW p
    PROVE  Cardinality(OnPort(rks \ out, p)) =
               Cardinality(OnPort(rks, p)) - Cardinality(OnPort(out, p))
<1>1. PICK S : S = OnPort(rks, p)  OBVIOUS
<1>2. PICK T : T = OnPort(out, p)  OBVIOUS
<1>3. IsFiniteSet(S)  BY <1>1, OnPortFinite
<1>4. S \cap T = T /\ OnPort(rks \ out, p) = S \ T  BY <1>1, <1>2 DEF OnPort
<1>5. Cardinality(S \ T) = Cardinality(S) - Cardinality(S \cap T)
  BY <1>3, FS_Difference
<1> QED  BY <1>1, <1>2, <1>4, <1>5

LEMMA ExpectedOnFinite ==
    ASSUME NEW es, IsFiniteSet(es), NEW p
    PROVE  IsFiniteSet(ExpectedOn(es, p)) /\ Cardinality(ExpectedOn(es, p)) \in Nat
<1>1. ExpectedOn(es, p) \in SUBSET es  BY DEF ExpectedOn
<1>2. IsFiniteSet(ExpectedOn(es, p))  BY <1>1, FS_Subset
<1> QED  BY <1>2, FS_CardinalityType

LEMMA ExpectedOnAdd ==
    ASSUME NEW es, IsFiniteSet(es), NEW e, e \notin es, NEW p
    PROVE  Cardinality(ExpectedOn(es \cup {e}, p)) =
               Cardinality(ExpectedOn(es, p)) + (IF e.port = p THEN 1 ELSE 0)
<1>1. PICK S : S = ExpectedOn(es, p)  OBVIOUS
<1>2. IsFiniteSet(S) /\ Cardinality(S) \in Nat  BY <1>1, ExpectedOnFinite
<1>3. e \notin S  BY <1>1 DEF ExpectedOn
<1>4. CASE e.port = p
  <2>1. ExpectedOn(es \cup {e}, p) = S \cup {e}  BY <1>1, <1>4 DEF ExpectedOn
  <2>2. Cardinality(S \cup {e}) = Cardinality(S) + 1  BY <1>2, <1>3, FS_AddElement
  <2> QED  BY <1>1, <1>4, <2>1, <2>2
<1>5. CASE e.port # p
  <2>1. ExpectedOn(es \cup {e}, p) = S  BY <1>1, <1>5 DEF ExpectedOn
  <2> QED  BY <1>1, <1>2, <1>5, <2>1
<1> QED  BY <1>4, <1>5

LEMMA ExpectedOnDrop ==
    ASSUME NEW es, IsFiniteSet(es), NEW out \in SUBSET es, NEW p
    PROVE  Cardinality(ExpectedOn(es \ out, p)) =
               Cardinality(ExpectedOn(es, p)) - Cardinality(ExpectedOn(out, p))
<1>1. PICK S : S = ExpectedOn(es, p)  OBVIOUS
<1>2. PICK T : T = ExpectedOn(out, p)  OBVIOUS
<1>3. IsFiniteSet(S)  BY <1>1, ExpectedOnFinite
<1>4. S \cap T = T /\ ExpectedOn(es \ out, p) = S \ T  BY <1>1, <1>2 DEF ExpectedOn
<1>5. Cardinality(S \ T) = Cardinality(S) - Cardinality(S \cap T)
  BY <1>3, FS_Difference
<1> QED  BY <1>1, <1>2, <1>4, <1>5

(* The three counts of a port.                                             *)
Bound(t, p) == Cardinality(OnPort(DOMAIN t.reverse, p))
Forwards(t, p) == Cardinality(OnPort(DOMAIN t.forwards, p))
Expects(t, p) == Cardinality(ExpectedOn(DOMAIN t.expectations, p))

LEMMA CountsAre ==
    ASSUME NEW t, Counted(t), NEW p \in Ports
    PROVE  /\ Bound(t, p) \in Nat /\ Forwards(t, p) \in Nat /\ Expects(t, p) \in Nat
           /\ t.holders[p] = Bound(t, p) + Forwards(t, p) + Expects(t, p)
BY OnPortFinite, ExpectedOnFinite DEF Counted, Bound, Forwards, Expects

IsCount(h) == h = [p \in Ports |-> h[p]]

LEMMA RaisedIs ==
    ASSUME NEW h, IsCount(h), NEW q PROVE IsCount([h EXCEPT ![q] = @ + 1])
<1>1. DOMAIN h = Ports  BY DEF IsCount
<1>2. PICK g : g = [h EXCEPT ![q] = @ + 1]  OBVIOUS
<1>3. g = [p \in Ports |-> IF p = q THEN h[q] + 1 ELSE h[p]]  BY <1>1, <1>2
<1>4. IsCount(g)  BY <1>3 DEF IsCount
<1> QED  BY <1>2, <1>4

LEMMA CountedIs ==
    ASSUME NEW t, DOMAIN t.reverse \subseteq Rks, DOMAIN t.forwards \subseteq Rks,
           IsFiniteSet(DOMAIN t.expectations),
           \A e \in DOMAIN t.expectations : e.target \in Keys /\ e.port \in Ports,
           IsCount(t.holders),
           \A p \in Ports : t.holders[p] = Bound(t, p) + Forwards(t, p) + Expects(t, p)
    PROVE  Counted(t)
BY DEF Counted, Bound, Forwards, Expects, IsCount


LEMMA BindCounted ==
    ASSUME NEW t, Rec(t), Counted(t), NEW rk \in Rks, NEW k, NEW n, Binds(t, n, rk, k)
    PROVE  Counted(n)
<1>1. DOMAIN n.reverse = DOMAIN t.reverse \cup {rk}  BY DEF Binds, Put
<1>2. n.forwards = t.forwards /\ n.expectations = t.expectations
  BY DEF Binds, SameForwards
<1>3. rk[2] \in Ports  BY DEF Rks
<1>4. IsCount(t.holders)  BY DEF Counted, IsCount
<1>5. ASSUME NEW p \in Ports
      PROVE  n.holders[p] = Bound(n, p) + Forwards(n, p) + Expects(n, p)
  <2>1. Forwards(n, p) = Forwards(t, p) /\ Expects(n, p) = Expects(t, p)
    BY <1>2 DEF Forwards, Expects
  <2>2. /\ Bound(t, p) \in Nat /\ Forwards(t, p) \in Nat /\ Expects(t, p) \in Nat
        /\ t.holders[p] = Bound(t, p) + Forwards(t, p) + Expects(t, p)
    BY CountsAre
  <2>3. CASE rk \in DOMAIN t.reverse
    <3>1. Bound(n, p) = Bound(t, p)
      <4>1. DOMAIN n.reverse = DOMAIN t.reverse  BY <1>1, <2>3
      <4> QED  BY <4>1 DEF Bound
    <3>2. n.holders = t.holders  BY <2>3 DEF Binds
    <3> QED  BY <2>1, <2>2, <3>1, <3>2
  <2>4. CASE rk \notin DOMAIN t.reverse
    <3>1. Bound(n, p) = Bound(t, p) + (IF rk[2] = p THEN 1 ELSE 0)
      BY <1>1, <2>4, OnPortAdd DEF Bound, Counted
    <3>2. n.holders = [t.holders EXCEPT ![rk[2]] = @ + 1]  BY <2>4 DEF Binds
    <3>3. n.holders[p] = t.holders[p] + (IF rk[2] = p THEN 1 ELSE 0)
      BY <1>3, <1>4, <2>2, <3>2 DEF IsCount
    <3> QED  BY <2>1, <2>2, <3>1, <3>3
  <2> QED  BY <2>3, <2>4
<1>6. IsCount(n.holders)
  <2>1. CASE n.holders = t.holders  BY <1>4, <2>1
  <2>2. CASE n.holders = [t.holders EXCEPT ![rk[2]] = @ + 1]
    BY <1>4, <2>2, RaisedIs
  <2> QED  BY <2>1, <2>2 DEF Binds
<1>7. DOMAIN n.reverse \subseteq Rks  BY <1>1 DEF Counted
<1> QED  BY <1>2, <1>5, <1>6, <1>7, CountedIs DEF Counted

LEMMA UnbindCounted ==
    ASSUME NEW t, Rec(t), Counted(t), NEW rks, NEW n, Unbinds(t, n, rks)
    PROVE  Counted(n)
<1>1. DOMAIN n.reverse = DOMAIN t.reverse \ rks  BY WithoutIs DEF Unbinds
<1>2. n.forwards = t.forwards /\ n.expectations = t.expectations
  BY DEF Unbinds, SameForwards
<1>3. PICK out : out = rks \cap DOMAIN t.reverse  OBVIOUS
<1>4. n.holders = [p \in Ports |-> t.holders[p] - Cardinality(OnPort(out, p))]
  BY <1>3 DEF Unbinds
<1>5. ASSUME NEW p \in Ports
      PROVE  n.holders[p] = Bound(n, p) + Forwards(n, p) + Expects(n, p)
  <2>1. Forwards(n, p) = Forwards(t, p) /\ Expects(n, p) = Expects(t, p)
    BY <1>2 DEF Forwards, Expects
  <2>2. /\ Bound(t, p) \in Nat /\ Forwards(t, p) \in Nat /\ Expects(t, p) \in Nat
        /\ t.holders[p] = Bound(t, p) + Forwards(t, p) + Expects(t, p)
    BY CountsAre
  <2>3. DOMAIN n.reverse = DOMAIN t.reverse \ out  BY <1>1, <1>3
  <2>4. out \in SUBSET DOMAIN t.reverse  BY <1>3
  <2>5. DOMAIN t.reverse \in SUBSET Rks  BY DEF Counted
  <2>6. Bound(n, p) = Bound(t, p) - Cardinality(OnPort(out, p))
    BY <2>3, <2>4, <2>5, OnPortDrop DEF Bound
  <2>7. Cardinality(OnPort(out, p)) \in Nat
    <3>1. out \in SUBSET Rks  BY <2>4, <2>5
    <3> QED  BY <3>1, OnPortFinite
  <2> QED  BY <1>4, <2>1, <2>2, <2>6, <2>7
<1>6. IsCount(n.holders)  BY <1>4 DEF IsCount
<1>7. DOMAIN n.reverse \subseteq Rks  BY <1>1 DEF Counted
<1> QED  BY <1>2, <1>5, <1>6, <1>7, CountedIs DEF Counted

LEMMA UnforwardCounted ==
    ASSUME NEW t, Rec(t), Counted(t), NEW rks, NEW n, Unforwards(t, n, rks)
    PROVE  Counted(n)
<1>1. PICK out : out = rks \cap DOMAIN t.forwards  OBVIOUS
<1>2. n.reverse = t.reverse /\ n.expectations = t.expectations  BY DEF Unforwards
<1>3. n.forwards = Without(t.forwards, out)  BY <1>1 DEF Unforwards
<1>4. n.holders = [p \in Ports |-> t.holders[p] - Cardinality(OnPort(out, p))]
  BY <1>1 DEF Unforwards
<1>5. DOMAIN n.forwards = DOMAIN t.forwards \ out  BY <1>3, WithoutIs
<1>6. ASSUME NEW p \in Ports
      PROVE  n.holders[p] = Bound(n, p) + Forwards(n, p) + Expects(n, p)
  <2>1. Bound(n, p) = Bound(t, p) /\ Expects(n, p) = Expects(t, p)
    BY <1>2 DEF Bound, Expects
  <2>2. /\ Bound(t, p) \in Nat /\ Forwards(t, p) \in Nat /\ Expects(t, p) \in Nat
        /\ t.holders[p] = Bound(t, p) + Forwards(t, p) + Expects(t, p)
    BY CountsAre
  <2>3. out \in SUBSET DOMAIN t.forwards  BY <1>1
  <2>4. DOMAIN t.forwards \in SUBSET Rks  BY DEF Counted
  <2>5. Forwards(n, p) = Forwards(t, p) - Cardinality(OnPort(out, p))
    BY <1>5, <2>3, <2>4, OnPortDrop DEF Forwards
  <2>6. Cardinality(OnPort(out, p)) \in Nat
    <3>1. out \in SUBSET Rks  BY <2>3, <2>4
    <3> QED  BY <3>1, OnPortFinite
  <2> QED  BY <1>4, <2>1, <2>2, <2>5, <2>6
<1>7. IsCount(n.holders)  BY <1>4 DEF IsCount
<1>8. DOMAIN n.forwards \subseteq Rks  BY <1>5 DEF Counted
<1> QED  BY <1>2, <1>6, <1>7, <1>8, CountedIs DEF Counted

LEMMA InsertCounted ==
    ASSUME NEW t, NEW u, Rec(u), Counted(u), NEW rk \in Rks, rk \notin DOMAIN u.forwards,
           u.reverse = t.reverse, u.expectations = t.expectations,
           NEW f, NEW n, Inserts(t, u, n, rk, f)
    PROVE  Counted(n)
<1>1. n.reverse = u.reverse /\ n.expectations = u.expectations  BY DEF Inserts
<1>2. DOMAIN n.forwards = DOMAIN u.forwards \cup {rk}  BY DEF Inserts, Put
<1>3. n.holders = [u.holders EXCEPT ![rk[2]] = @ + 1]  BY DEF Inserts
<1>4. IsCount(u.holders)  BY DEF Counted, IsCount
<1>5. rk[2] \in Ports  BY DEF Rks
<1>6. ASSUME NEW p \in Ports
      PROVE  n.holders[p] = Bound(n, p) + Forwards(n, p) + Expects(n, p)
  <2>1. Bound(n, p) = Bound(u, p) /\ Expects(n, p) = Expects(u, p)
    BY <1>1 DEF Bound, Expects
  <2>2. /\ Bound(u, p) \in Nat /\ Forwards(u, p) \in Nat /\ Expects(u, p) \in Nat
        /\ u.holders[p] = Bound(u, p) + Forwards(u, p) + Expects(u, p)
    BY CountsAre
  <2>3. Forwards(n, p) = Forwards(u, p) + (IF rk[2] = p THEN 1 ELSE 0)
    BY <1>2, OnPortAdd DEF Forwards, Counted
  <2>4. n.holders[p] = u.holders[p] + (IF rk[2] = p THEN 1 ELSE 0)
    BY <1>3, <1>4, <1>5, <2>2 DEF IsCount
  <2> QED  BY <2>1, <2>2, <2>3, <2>4
<1>7. IsCount(n.holders)  BY <1>3, <1>4, RaisedIs
<1>8. DOMAIN n.forwards \subseteq Rks  BY <1>2 DEF Counted
<1> QED  BY <1>1, <1>6, <1>7, <1>8, CountedIs DEF Counted

LEMMA DropCounted ==
    ASSUME NEW t, Rec(t), Counted(t), NEW es \in SUBSET DOMAIN t.expectations,
           NEW n, Drops(t, n, es)
    PROVE  Counted(n)
<1>1. n.reverse = t.reverse /\ n.forwards = t.forwards  BY DEF Drops, SameForwards
<1>2. DOMAIN n.expectations = DOMAIN t.expectations \ es  BY WithoutIs DEF Drops
<1>3. n.holders = [p \in Ports |-> t.holders[p] - Cardinality(ExpectedOn(es, p))]
  BY DEF Drops
<1>4. IsFiniteSet(DOMAIN t.expectations)  BY DEF Counted
<1>5. IsFiniteSet(es)  BY <1>4, FS_Subset
<1>6. ASSUME NEW p \in Ports
      PROVE  n.holders[p] = Bound(n, p) + Forwards(n, p) + Expects(n, p)
  <2>1. Bound(n, p) = Bound(t, p) /\ Forwards(n, p) = Forwards(t, p)
    BY <1>1 DEF Bound, Forwards
  <2>2. /\ Bound(t, p) \in Nat /\ Forwards(t, p) \in Nat /\ Expects(t, p) \in Nat
        /\ t.holders[p] = Bound(t, p) + Forwards(t, p) + Expects(t, p)
    BY CountsAre
  <2>3. Expects(n, p) = Expects(t, p) - Cardinality(ExpectedOn(es, p))
    BY <1>2, <1>4, ExpectedOnDrop DEF Expects
  <2>4. Cardinality(ExpectedOn(es, p)) \in Nat  BY <1>5, ExpectedOnFinite
  <2> QED  BY <1>3, <2>1, <2>2, <2>3, <2>4
<1>7. IsCount(n.holders)  BY <1>3 DEF IsCount
<1>8. IsFiniteSet(DOMAIN n.expectations)  BY <1>2, <1>4, FS_Difference
<1> QED  BY <1>1, <1>2, <1>6, <1>7, <1>8, CountedIs DEF Counted

LEMMA PushCounted ==
    ASSUME NEW t, Rec(t), Counted(t), NEW e, e \notin DOMAIN t.expectations,
           e.target \in Keys, e.port \in Ports, NEW one, NEW n, Pushes(t, n, e, one)
    PROVE  Counted(n)
<1>1. n.reverse = t.reverse /\ n.forwards = t.forwards  BY DEF Pushes, SameForwards
<1>2. DOMAIN n.expectations = DOMAIN t.expectations \cup {e}  BY DEF Pushes, Put
<1>3. n.holders = [t.holders EXCEPT ![e.port] = @ + 1]  BY DEF Pushes
<1>4. IsCount(t.holders)  BY DEF Counted, IsCount
<1>5. IsFiniteSet(DOMAIN t.expectations)  BY DEF Counted
<1>6. ASSUME NEW p \in Ports
      PROVE  n.holders[p] = Bound(n, p) + Forwards(n, p) + Expects(n, p)
  <2>1. Bound(n, p) = Bound(t, p) /\ Forwards(n, p) = Forwards(t, p)
    BY <1>1 DEF Bound, Forwards
  <2>2. /\ Bound(t, p) \in Nat /\ Forwards(t, p) \in Nat /\ Expects(t, p) \in Nat
        /\ t.holders[p] = Bound(t, p) + Forwards(t, p) + Expects(t, p)
    BY CountsAre
  <2>3. Expects(n, p) = Expects(t, p) + (IF e.port = p THEN 1 ELSE 0)
    BY <1>2, <1>5, ExpectedOnAdd DEF Expects
  <2>4. n.holders[p] = t.holders[p] + (IF e.port = p THEN 1 ELSE 0)
    BY <1>3, <1>4, <2>2 DEF IsCount
  <2> QED  BY <2>1, <2>2, <2>3, <2>4
<1>7. IsCount(n.holders)  BY <1>3, <1>4, RaisedIs
<1>8. IsFiniteSet(DOMAIN n.expectations)  BY <1>2, <1>5, FS_AddElement
<1> QED  BY <1>1, <1>2, <1>6, <1>7, <1>8, CountedIs DEF Counted

(* A port that nothing holds has no entry in any table.                    *)
Unused(t, p) ==
    /\ \A rk \in DOMAIN t.reverse : rk[2] # p
    /\ \A rk \in DOMAIN t.forwards : rk[2] # p
    /\ \A e \in DOMAIN t.expectations : e.port # p

LEMMA FreeIsUnused ==
    ASSUME NEW t, Counted(t), NEW p \in Ports, t.holders[p] = 0
    PROVE  Unused(t, p)
<1>1. /\ Bound(t, p) \in Nat /\ Forwards(t, p) \in Nat /\ Expects(t, p) \in Nat
      /\ t.holders[p] = Bound(t, p) + Forwards(t, p) + Expects(t, p)
  BY CountsAre
<1>2. Bound(t, p) = 0 /\ Forwards(t, p) = 0 /\ Expects(t, p) = 0  BY <1>1
<1>3. OnPort(DOMAIN t.reverse, p) = {}
  <2>1. IsFiniteSet(OnPort(DOMAIN t.reverse, p))  BY OnPortFinite DEF Counted
  <2> QED  BY <1>2, <2>1, FS_EmptySet DEF Bound
<1>4. OnPort(DOMAIN t.forwards, p) = {}
  <2>1. IsFiniteSet(OnPort(DOMAIN t.forwards, p))  BY OnPortFinite DEF Counted
  <2> QED  BY <1>2, <2>1, FS_EmptySet DEF Forwards
<1>5. ExpectedOn(DOMAIN t.expectations, p) = {}
  <2>1. IsFiniteSet(ExpectedOn(DOMAIN t.expectations, p))
    BY ExpectedOnFinite DEF Counted
  <2> QED  BY <1>2, <2>1, FS_EmptySet DEF Expects
<1> QED  BY <1>3, <1>4, <1>5 DEF Unused, OnPort, ExpectedOn

LEMMA SameCounted ==
    ASSUME NEW t, Counted(t), NEW n, n.reverse = t.reverse, n.holders = t.holders,
           DOMAIN n.forwards = DOMAIN t.forwards,
           DOMAIN n.expectations = DOMAIN t.expectations
    PROVE  Counted(n)
BY DEF Counted

-----------------------------------------------------------------------------
(* Sides, and mappings that stay where they are.                           *)

(* n is side s at another time.                                            *)
Alike(s, n) == Side(n) /\ n.port = s.port /\ n.alias = s.alias

LEMMA SideSet ==
    ASSUME NEW s, Side(s), NEW v
    PROVE  /\ Alike(s, [s EXCEPT !.left = v])
           /\ Alike(s, [s EXCEPT !.peers = v])
           /\ Alike(s, [s EXCEPT !.open = v])
           /\ Alike(s, [s EXCEPT !.openLeft = v])
<1>1. [s EXCEPT !.left = v] =
         [port |-> s.port, left |-> v, peers |-> s.peers, open |-> s.open,
          openLeft |-> s.openLeft, alias |-> s.alias]
  BY DEF Side
<1>2. [s EXCEPT !.peers = v] =
         [port |-> s.port, left |-> s.left, peers |-> v, open |-> s.open,
          openLeft |-> s.openLeft, alias |-> s.alias]
  BY DEF Side
<1>3. [s EXCEPT !.open = v] =
         [port |-> s.port, left |-> s.left, peers |-> s.peers, open |-> v,
          openLeft |-> s.openLeft, alias |-> s.alias]
  BY DEF Side
<1>4. [s EXCEPT !.openLeft = v] =
         [port |-> s.port, left |-> s.left, peers |-> s.peers, open |-> s.open,
          openLeft |-> v, alias |-> s.alias]
  BY DEF Side
<1>5. Alike(s, [s EXCEPT !.left = v])  BY <1>1 DEF Alike, Side
<1>6. Alike(s, [s EXCEPT !.peers = v])  BY <1>2 DEF Alike, Side
<1>7. Alike(s, [s EXCEPT !.open = v])  BY <1>3 DEF Alike, Side
<1>8. Alike(s, [s EXCEPT !.openLeft = v])  BY <1>4 DEF Alike, Side
<1> QED  BY <1>5, <1>6, <1>7, <1>8

LEMMA AliasSet ==
    ASSUME NEW s, Side(s), NEW v, NEW n, n = [s EXCEPT !.alias = v]
    PROVE  /\ Side(n) /\ n.port = s.port /\ n.alias = v
           /\ n.left = s.left /\ n.peers = s.peers
<1>1. n = [port |-> s.port, left |-> s.left, peers |-> s.peers, open |-> s.open,
           openLeft |-> s.openLeft, alias |-> v]
  BY DEF Side
<1> QED  BY <1>1 DEF Side

(* n is mapping m, with the sides where they were.                         *)
Same(m, n) ==
    /\ MappingOK(n) /\ n.port = m.port /\ PortsOf(n) = PortsOf(m)
    /\ n.alias = {} <=> m.alias = {}

LEMMA SideOf ==
    ASSUME NEW m, MappingOK(m), NEW s \in {m} \cup m.alias
    PROVE  Side(s) /\ (s # m => m.alias = {s} /\ s.alias = {} /\ s.port # m.port)
BY DEF MappingOK

LEMMA WithSideSame ==
    ASSUME NEW m, MappingOK(m), NEW s \in {m} \cup m.alias, NEW new, Alike(s, new)
    PROVE  Same(m, WithSide(m, s, new))
<1>1. PICK n : n = WithSide(m, s, new)  OBVIOUS
<1>2. CASE s = m
  <2>1. n = new  BY <1>1, <1>2 DEF WithSide
  <2>2. Side(n) /\ n.port = m.port /\ n.alias = m.alias  BY <1>2, <2>1 DEF Alike
  <2>3. MappingOK(n)  BY <2>2 DEF MappingOK
  <2> QED  BY <1>1, <2>2, <2>3 DEF Same, PortsOf
<1>3. CASE s # m
  <2>1. Side(m) /\ m.alias = {s} /\ s.alias = {} /\ s.port # m.port
    BY <1>3, SideOf DEF MappingOK
  <2>2. PICK v : v = {new}  OBVIOUS
  <2>3. n = [m EXCEPT !.alias = v]  BY <1>1, <1>3, <2>2 DEF WithSide
  <2>4. Side(n) /\ n.port = m.port /\ n.alias = v  BY <2>1, <2>3, AliasSet
  <2>5. MappingOK(n)  BY <2>1, <2>2, <2>4 DEF MappingOK, Alike
  <2>6. PortsOf(n) = PortsOf(m)  BY <2>1, <2>2, <2>4 DEF PortsOf, Alike
  <2> QED  BY <1>1, <2>1, <2>2, <2>4, <2>5, <2>6 DEF Same
<1> QED  BY <1>2, <1>3

LEMMA AlikeSame ==
    ASSUME NEW m, MappingOK(m), NEW n, Alike(m, n) PROVE Same(m, n)
BY DEF Alike, Same, MappingOK, PortsOf

LEMMA TouchIs == ASSUME NEW s, Side(s), NEW k PROVE Alike(s, Touch(k, s))
BY SideSet DEF Touch

LEMMA NoteIs ==
    ASSUME NEW s, Side(s), NEW t, NEW k, NEW r, NEW out, NEW flags
    PROVE  Alike(s, Note(t, k, s, r, out, flags))
<1>1. PICK n : n = Note(t, k, s, r, out, flags)  OBVIOUS
<1>2. Alike(s, s)  BY DEF Alike
<1>3. n = s \/ \E v : n = [s EXCEPT !.peers = v]  BY <1>1 DEF Note
<1>4. ASSUME NEW v, n = [s EXCEPT !.peers = v] PROVE Alike(s, n)  BY <1>4, SideSet
<1> QED  BY <1>1, <1>2, <1>3, <1>4

LEMMA AlikeTransitive ==
    ASSUME NEW s, NEW u, NEW v, Alike(s, u), Alike(u, v) PROVE Alike(s, v)
BY DEF Alike

LEMMA SideInIs ==
    ASSUME NEW m, NEW S \in SUBSET m.alias PROVE SideIn(m, S) \in {m} \cup m.alias
BY DEF SideIn

LEMMA ForIs ==
    ASSUME NEW m, NEW x
    PROVE  ForPeer(m, x) \in {m} \cup m.alias /\ ForPort(m, x) \in {m} \cup m.alias
<1>1. {a \in m.alias : x \in DOMAIN a.peers} \in SUBSET m.alias  OBVIOUS
<1>2. {a \in m.alias : a.port = x} \in SUBSET m.alias  OBVIOUS
<1> QED  BY <1>1, <1>2, SideInIs DEF ForPeer, ForPort

(* n is t, with every mapping and every entry of a port where it was.      *)
Renewed(t, n) ==
    /\ Rec(n) /\ n.reverse = t.reverse /\ n.holders = t.holders
    /\ n.byEndpoint = t.byEndpoint /\ DOMAIN n.forwards = DOMAIN t.forwards
    /\ \A rk \in DOMAIN t.forwards : Endpoint(n, rk) = Endpoint(t, rk)
    /\ DOMAIN n.expectations = DOMAIN t.expectations /\ Live(n) \subseteq Live(t)
    /\ \A e \in DOMAIN t.expectations : n.expectations[e].one = t.expectations[e].one
    /\ DOMAIN n.mappings = DOMAIN t.mappings
    /\ \A k \in DOMAIN t.mappings : Same(t.mappings[k], n.mappings[k])

LEMMA RenewedKeeps ==
    ASSUME NEW t, NatInv(t), NEW n, Renewed(t, n) PROVE NatInv(n)
<1>1. MappingsOK(n)
  <2>1. SUFFICES ASSUME NEW k \in DOMAIN n.mappings
                 PROVE  k \in Keys /\ MappingOK(n.mappings[k])
    BY DEF MappingsOK
  <2> QED  BY DEF Renewed, Same, NatInv, Sound, MappingsOK
<1>2. Agree(n)
  <2>1. Agree(t)  BY DEF NatInv, Sound
  <2>2. n.reverse = t.reverse /\ DOMAIN n.mappings = DOMAIN t.mappings
    BY DEF Renewed
  <2>3. \A k \in DOMAIN t.mappings : PortsOf(n.mappings[k]) = PortsOf(t.mappings[k])
    BY DEF Renewed, Same
  <2> QED  BY <2>1, <2>2, <2>3 DEF Agree
<1>3. Counted(n)  BY SameCounted DEF NatInv, Sound, Renewed
<1>4. Forwarded(n)
  <2>1. Forwarded(t)  BY DEF NatInv, Sound
  <2>2. /\ n.reverse = t.reverse /\ n.byEndpoint = t.byEndpoint
        /\ DOMAIN n.forwards = DOMAIN t.forwards
        /\ \A rk \in DOMAIN t.forwards : Endpoint(n, rk) = Endpoint(t, rk)
    BY DEF Renewed
  <2> QED  BY <2>1, <2>2 DEF Forwarded
<1>5. Expecting(n)
  <2>1. Expecting(t)  BY DEF NatInv, Sound
  <2>2. /\ n.reverse = t.reverse /\ DOMAIN n.forwards = DOMAIN t.forwards
        /\ DOMAIN n.expectations = DOMAIN t.expectations /\ Live(n) \subseteq Live(t)
        /\ \A e \in DOMAIN t.expectations : n.expectations[e].one = t.expectations[e].one
    BY DEF Renewed
  <2> QED  BY <2>1, <2>2 DEF Expecting, ExpectingBut
<1>6. Displaced(n, {})
  <2>1. SUFFICES ASSUME NEW k \in DOMAIN n.mappings, n.mappings[k].alias # {}
                 PROVE  /\ At(k, n.mappings[k].port) \in DOMAIN n.forwards
                        /\ Endpoint(n, At(k, n.mappings[k].port)) = k
    BY DEF Displaced
  <2>2. /\ k \in DOMAIN t.mappings /\ n.mappings[k].port = t.mappings[k].port
        /\ t.mappings[k].alias # {}
    BY <2>1 DEF Renewed, Same
  <2>3. /\ At(k, t.mappings[k].port) \in DOMAIN t.forwards
        /\ Endpoint(t, At(k, t.mappings[k].port)) = k
    BY <2>2 DEF NatInv, Displaced
  <2> QED  BY <2>2, <2>3 DEF Renewed
<1>7. Rec(n)  BY DEF Renewed
<1> QED  BY <1>1, <1>2, <1>3, <1>4, <1>5, <1>6, <1>7 DEF NatInv, Sound

LEMMA SameSelf == ASSUME NEW m, MappingOK(m) PROVE Same(m, m)
BY DEF Same

LEMMA SameTablesRenewed ==
    ASSUME NEW t, NatInv(t), NEW n, SameTables(t, n) PROVE Renewed(t, n)
<1>1. \A k \in DOMAIN t.mappings : Same(t.mappings[k], n.mappings[k])
  BY SameSelf DEF SameTables, NatInv, Sound, MappingsOK
<1> QED
  BY <1>1 DEF SameTables, SameForwards, Renewed, Endpoint, Live, Lapsed

(* n is t with another m for k.                                            *)
LEMMA MappingRenewed ==
    ASSUME NEW t, NatInv(t), NEW k \in DOMAIN t.mappings, NEW m,
           Same(t.mappings[k], m), NEW n, n = [t EXCEPT !.mappings[k] = m]
    PROVE  Renewed(t, n) /\ n.mappings[k] = m
<1>1. PICK ms : ms = [t.mappings EXCEPT ![k] = m]  OBVIOUS
<1>2. n = [t EXCEPT !.mappings = ms]  BY <1>1
<1>3. Remapped(t, n, ms)  BY <1>2, RemappedIs DEF NatInv, Sound
<1>4. DOMAIN n.mappings = DOMAIN t.mappings  BY <1>1, <1>3 DEF Remapped
<1>5. \A j \in DOMAIN t.mappings : Same(t.mappings[j], n.mappings[j])
  BY <1>1, <1>3, SameSelf DEF Remapped, NatInv, Sound, MappingsOK
<1>6. Renewed(t, n)
  BY <1>3, <1>4, <1>5 DEF Remapped, SameForwards, Renewed, Endpoint, Live, Lapsed
<1> QED  BY <1>1, <1>3, <1>6 DEF Remapped

-----------------------------------------------------------------------------
(* Sessions.                                                               *)

(* Mapping m has a live session with r, which leaves from port p: on the   *)
(* displaced side, or on the mapping itself if that side has not seen r.   *)
Lives(m, r, p) ==
    \/ \E a \in m.alias : a.port = p /\ r \in LivePeers(a)
    \/ /\ m.port = p /\ r \in LivePeers(m)
       /\ \A a \in m.alias : r \notin DOMAIN a.peers

LivesOn(m, n) == \A r, p : Lives(m, r, p) => Lives(n, r, p)

(* It does so in t, where no lapsed forward is on that port.               *)
Safe(t, k, r, p) ==
    /\ k \in DOMAIN t.mappings /\ Lives(t.mappings[k], r, p)
    /\ ~ForwardLapsed(t, At(k, p))

Spares(t, n) == \A k, r, p : Safe(t, k, r, p) => Safe(n, k, r, p)

LEMMA SparesOn ==
    ASSUME NEW t, NEW u, NEW n, Spares(t, u), Spares(u, n) PROVE Spares(t, n)
BY DEF Spares

LEMMA SparesMapped ==
    ASSUME NEW t, NEW n, n.forwards = t.forwards,
           \A k \in DOMAIN t.mappings : /\ k \in DOMAIN n.mappings
                                        /\ LivesOn(t.mappings[k], n.mappings[k])
    PROVE  Spares(t, n)
BY DEF Spares, Safe, LivesOn, ForwardLapsed

LEMMA SparesPut ==
    ASSUME NEW t, NEW k \in DOMAIN t.mappings, NEW m, LivesOn(t.mappings[k], m),
           NEW n, n.forwards = t.forwards, n.mappings = Put(t.mappings, k, m)
    PROVE  Spares(t, n)
<1>1. /\ DOMAIN n.mappings = DOMAIN t.mappings /\ n.mappings[k] = m
      /\ \A j \in DOMAIN t.mappings : j # k => n.mappings[j] = t.mappings[j]
  BY DEF Put
<1>2. \A j \in DOMAIN t.mappings : LivesOn(t.mappings[j], n.mappings[j])
  BY <1>1 DEF LivesOn
<1> QED  BY <1>1, <1>2, SparesMapped

LEMMA SparesSame ==
    ASSUME NEW t, NEW n, n.forwards = t.forwards, n.mappings = t.mappings
    PROVE  Spares(t, n)
BY SparesMapped DEF LivesOn

-----------------------------------------------------------------------------
(* Entries that go.                                                        *)

(* n has no more than t had.                                               *)
Shrinks(t, n) ==
    /\ DOMAIN n.mappings \subseteq DOMAIN t.mappings
    /\ DOMAIN n.reverse \subseteq DOMAIN t.reverse
    /\ DOMAIN n.forwards \subseteq DOMAIN t.forwards
    /\ Live(n) \subseteq Live(t)

LEMMA ShrinksTransitive ==
    ASSUME NEW t, NEW u, NEW n, Shrinks(t, u), Shrinks(u, n) PROVE Shrinks(t, n)
BY DEF Shrinks

LEMMA RenewedShrinks == ASSUME NEW t, NEW n, Renewed(t, n) PROVE Shrinks(t, n)
BY DEF Renewed, Shrinks

LEMMA SelfShrinks == ASSUME NEW t PROVE Shrinks(t, t)
BY DEF Shrinks

LEMMA DropKeeps ==
    ASSUME NEW t, NatInv(t), NEW es \in SUBSET DOMAIN t.expectations,
           NEW n, n = ExpectationsDrop(t, es)
    PROVE  /\ NatInv(n) /\ Shrinks(t, n)
           /\ n.mappings = t.mappings /\ n.reverse = t.reverse /\ n.forwards = t.forwards
           /\ n.byEndpoint = t.byEndpoint
           /\ DOMAIN n.expectations = DOMAIN t.expectations \ es
           /\ \A e \in DOMAIN n.expectations : n.expectations[e] = t.expectations[e]
<1>1. Drops(t, n, es)  BY ExpectationsDropIs DEF NatInv, Sound
<1>2. /\ n.mappings = t.mappings /\ n.reverse = t.reverse
      /\ n.forwards = t.forwards /\ n.byEndpoint = t.byEndpoint
  BY <1>1 DEF Drops, SameForwards
<1>3. n.expectations = Without(t.expectations, es)  BY <1>1 DEF Drops
<1>4. /\ DOMAIN n.expectations = DOMAIN t.expectations \ es
      /\ \A e \in DOMAIN n.expectations : n.expectations[e] = t.expectations[e]
  BY <1>3 DEF Without, Restrict
<1>5. Live(n) \subseteq Live(t)  BY <1>4 DEF Live, Lapsed
<1>6. Counted(n)  BY <1>1, DropCounted DEF NatInv, Sound
<1>7. MappingsOK(n) /\ Agree(n) /\ Forwarded(n) /\ Displaced(n, {})
  BY <1>2 DEF NatInv, Sound, MappingsOK, Agree, Forwarded, Displaced, Endpoint
<1>8. Expecting(n)
  <2>1. Expecting(t)  BY DEF NatInv, Sound
  <2> QED  BY <1>2, <1>4, <1>5, <2>1 DEF Expecting, ExpectingBut
<1>9. Shrinks(t, n)  BY <1>2, <1>5 DEF Shrinks
<1>10. Rec(n)  BY <1>1 DEF Drops
<1> QED  BY <1>2, <1>4, <1>6, <1>7, <1>8, <1>9, <1>10 DEF NatInv, Sound

LEMMA PurgeKeeps ==
    ASSUME NEW t, NatInv(t), NEW n, n = PurgeLapsed(t)
    PROVE  /\ NatInv(n) /\ Shrinks(t, n) /\ Spares(t, n)
           /\ n.mappings = t.mappings /\ n.forwards = t.forwards
           /\ Lapsed(n) = {}
<1>1. PICK es : es = Lapsed(t)  OBVIOUS
<1>2. es \in SUBSET DOMAIN t.expectations  BY <1>1 DEF Lapsed
<1>3. n = ExpectationsDrop(t, es)  BY <1>1 DEF PurgeLapsed
<1>4. /\ NatInv(n) /\ Shrinks(t, n) /\ n.mappings = t.mappings
      /\ n.forwards = t.forwards
      /\ DOMAIN n.expectations = DOMAIN t.expectations \ es
      /\ \A e \in DOMAIN n.expectations : n.expectations[e] = t.expectations[e]
  BY <1>2, <1>3, DropKeeps
<1>5. Lapsed(n) = {}  BY <1>1, <1>4 DEF Lapsed
<1>6. Spares(t, n)  BY <1>4, SparesSame
<1> QED  BY <1>4, <1>5, <1>6

(* Without some forwards, mappings that had displaced one may be left on   *)
(* their ports.                                                            *)
LEMMA ForwardsRemoveKeeps ==
    ASSUME NEW t, NatInv(t), NEW rks, NEW n, n = ForwardsRemove(t, rks)
    PROVE  /\ Sound(n) /\ Displaced(n, rks) /\ Shrinks(t, n)
           /\ n.mappings = t.mappings /\ n.reverse = t.reverse
           /\ n.expectations = t.expectations
           /\ DOMAIN n.forwards = DOMAIN t.forwards \ rks
           /\ \A rk \in DOMAIN n.forwards : n.forwards[rk] = t.forwards[rk]
           /\ DOMAIN n.byEndpoint =
                {k \in DOMAIN t.byEndpoint : t.byEndpoint[k] \notin rks}
           /\ \A k \in DOMAIN n.byEndpoint : n.byEndpoint[k] = t.byEndpoint[k]
<1>1. Unforwards(t, n, rks)  BY ForwardsRemoveIs DEF NatInv, Sound
<1>2. /\ n.mappings = t.mappings /\ n.reverse = t.reverse
      /\ n.expectations = t.expectations
  BY <1>1 DEF Unforwards
<1>3. PICK out : out = rks \cap DOMAIN t.forwards  OBVIOUS
<1>4. n.forwards = Without(t.forwards, out)  BY <1>1, <1>3 DEF Unforwards
<1>5. /\ DOMAIN n.forwards = DOMAIN t.forwards \ rks
      /\ \A rk \in DOMAIN n.forwards : n.forwards[rk] = t.forwards[rk]
  BY <1>3, <1>4 DEF Without, Restrict
<1>6. Forwarded(t)  BY DEF NatInv, Sound
<1>7. PICK ks : ks = {k \in DOMAIN t.byEndpoint :
                        t.byEndpoint[k] \in out /\ k = Endpoint(t, t.byEndpoint[k])}
  OBVIOUS
<1>8. n.byEndpoint = Without(t.byEndpoint, ks)  BY <1>1, <1>3, <1>7 DEF Unforwards
<1>9. /\ DOMAIN n.byEndpoint = DOMAIN t.byEndpoint \ ks
      /\ \A k \in DOMAIN n.byEndpoint : n.byEndpoint[k] = t.byEndpoint[k]
  BY <1>8 DEF Without, Restrict
<1>10. DOMAIN n.byEndpoint = {k \in DOMAIN t.byEndpoint : t.byEndpoint[k] \notin rks}
  BY <1>3, <1>6, <1>7, <1>9 DEF Forwarded
<1>11. \A rk \in DOMAIN n.forwards : Endpoint(n, rk) = Endpoint(t, rk)
  BY <1>5 DEF Endpoint
<1>12. Forwarded(n)
  <2>1. ASSUME NEW k \in DOMAIN n.byEndpoint
        PROVE  n.byEndpoint[k] \in DOMAIN n.forwards /\ Endpoint(n, n.byEndpoint[k]) = k
    <3>1. /\ k \in DOMAIN t.byEndpoint /\ t.byEndpoint[k] \notin rks
          /\ n.byEndpoint[k] = t.byEndpoint[k]
      BY <1>9, <1>10
    <3>2. t.byEndpoint[k] \in DOMAIN t.forwards /\ Endpoint(t, t.byEndpoint[k]) = k
      BY <1>6, <3>1 DEF Forwarded
    <3>3. n.byEndpoint[k] \in DOMAIN n.forwards  BY <1>5, <3>1, <3>2
    <3> QED  BY <1>11, <3>1, <3>2, <3>3
  <2>2. ASSUME NEW rk \in DOMAIN n.forwards
        PROVE  /\ Endpoint(n, rk) \in Keys /\ At(Endpoint(n, rk), rk[2]) = rk
               /\ Endpoint(n, rk) \in DOMAIN n.byEndpoint
               /\ n.byEndpoint[Endpoint(n, rk)] = rk
               /\ rk \in DOMAIN n.reverse => n.reverse[rk] = Endpoint(n, rk)
    <3>1. rk \in DOMAIN t.forwards /\ rk \notin rks /\ Endpoint(n, rk) = Endpoint(t, rk)
      BY <1>5, <1>11
    <3>2. PICK k : k = Endpoint(t, rk)  OBVIOUS
    <3>3. /\ k \in Keys /\ At(k, rk[2]) = rk /\ k \in DOMAIN t.byEndpoint
          /\ t.byEndpoint[k] = rk /\ (rk \in DOMAIN t.reverse => t.reverse[rk] = k)
      BY <1>6, <3>1, <3>2 DEF Forwarded
    <3>4. k \in DOMAIN n.byEndpoint  BY <1>10, <3>1, <3>3
    <3>5. n.byEndpoint[k] = rk  BY <1>9, <3>3, <3>4
    <3> QED  BY <1>2, <3>1, <3>2, <3>3, <3>4, <3>5
  <2> QED  BY <2>1, <2>2 DEF Forwarded
<1>13. Counted(n)  BY <1>1, UnforwardCounted DEF NatInv, Sound
<1>14. MappingsOK(n) /\ Agree(n)  BY <1>2 DEF NatInv, Sound, MappingsOK, Agree
<1>15. Live(n) = Live(t)  BY <1>2 DEF Live, Lapsed
<1>16. Expecting(n)
  <2>1. Expecting(t)  BY DEF NatInv, Sound
  <2> QED  BY <1>2, <1>5, <1>15, <2>1 DEF Expecting, ExpectingBut
<1>17. Displaced(n, rks)
  <2>1. SUFFICES ASSUME NEW k \in DOMAIN n.mappings, n.mappings[k].alias # {},
                        At(k, n.mappings[k].port) \notin rks
                 PROVE  /\ At(k, n.mappings[k].port) \in DOMAIN n.forwards
                        /\ Endpoint(n, At(k, n.mappings[k].port)) = k
    BY DEF Displaced
  <2>2. /\ At(k, t.mappings[k].port) \in DOMAIN t.forwards
        /\ Endpoint(t, At(k, t.mappings[k].port)) = k
    BY <1>2, <2>1 DEF NatInv, Displaced
  <2> QED  BY <1>2, <1>5, <1>11, <2>1, <2>2
<1>18. Shrinks(t, n)  BY <1>2, <1>5, <1>15 DEF Shrinks
<1>19. Rec(n)  BY <1>1 DEF Unforwards
<1> QED
  BY <1>2, <1>5, <1>9, <1>10, <1>12, <1>13, <1>14, <1>16, <1>17, <1>18, <1>19 DEF Sound

(* What it takes to take sides of mappings, and their ports, out of t.     *)
CutBack(t, n, rks) ==
    /\ Rec(n) /\ SameForwards(t, n) /\ n.expectations = t.expectations
    /\ Counted(n) /\ MappingsOK(n) /\ Agree(n)
    /\ DOMAIN n.reverse \subseteq DOMAIN t.reverse
    /\ \A rk \in DOMAIN n.reverse : n.reverse[rk] = t.reverse[rk]
    /\ DOMAIN n.mappings \subseteq DOMAIN t.mappings
    /\ \A k \in DOMAIN n.mappings :
          n.mappings[k].alias # {} => /\ t.mappings[k].alias # {}
                                      /\ n.mappings[k].port = t.mappings[k].port
                                      /\ At(k, n.mappings[k].port) \notin rks

LEMMA CutKeeps ==
    ASSUME NEW t, Sound(t), NEW rks, Displaced(t, rks), NEW n, CutBack(t, n, rks)
    PROVE  NatInv(n) /\ Shrinks(t, n)
<1>1. n.forwards = t.forwards /\ n.byEndpoint = t.byEndpoint
  BY DEF CutBack, SameForwards
<1>2. \A rk : Endpoint(n, rk) = Endpoint(t, rk)  BY <1>1 DEF Endpoint
<1>3. n.expectations = t.expectations  BY DEF CutBack
<1>4. Live(n) = Live(t)  BY <1>3 DEF Live, Lapsed
<1>5. /\ DOMAIN n.reverse \subseteq DOMAIN t.reverse
      /\ \A rk \in DOMAIN n.reverse : n.reverse[rk] = t.reverse[rk]
  BY DEF CutBack
<1>6. Forwarded(n)
  <2>1. Forwarded(t)  BY DEF Sound
  <2> QED  BY <1>1, <1>2, <1>5, <2>1 DEF Forwarded
<1>7. Expecting(n)
  <2>1. Expecting(t)  BY DEF Sound
  <2> QED  BY <1>1, <1>3, <1>4, <1>5, <2>1 DEF Expecting, ExpectingBut
<1>8. Displaced(n, {})
  <2>1. SUFFICES ASSUME NEW k \in DOMAIN n.mappings, n.mappings[k].alias # {}
                 PROVE  /\ At(k, n.mappings[k].port) \in DOMAIN n.forwards
                        /\ Endpoint(n, At(k, n.mappings[k].port)) = k
    BY DEF Displaced
  <2>2. /\ k \in DOMAIN t.mappings /\ t.mappings[k].alias # {}
        /\ n.mappings[k].port = t.mappings[k].port
        /\ At(k, n.mappings[k].port) \notin rks
    BY <2>1 DEF CutBack
  <2> QED  BY <1>1, <1>2, <2>2 DEF Displaced
<1>9. Shrinks(t, n)  BY <1>1, <1>4, <1>5 DEF Shrinks, CutBack
<1> QED  BY <1>6, <1>7, <1>8, <1>9 DEF CutBack, NatInv, Sound

(* A side's port is bound to its endpoint, and to no other port's side.    *)
LEMMA SideBound ==
    ASSUME NEW t, Agree(t), NEW k \in DOMAIN t.mappings,
           NEW s \in {t.mappings[k]} \cup t.mappings[k].alias
    PROVE  At(k, s.port) \in DOMAIN t.reverse /\ t.reverse[At(k, s.port)] = k
<1>1. s.port \in PortsOf(t.mappings[k])  BY DEF PortsOf
<1> QED  BY <1>1 DEF Agree

LEMMA BoundSide ==
    ASSUME NEW t, Agree(t), NEW rk \in DOMAIN t.reverse
    PROVE  /\ t.reverse[rk] \in DOMAIN t.mappings
           /\ \E s \in {t.mappings[t.reverse[rk]]} \cup t.mappings[t.reverse[rk]].alias :
                rk = At(t.reverse[rk], s.port)
<1>1. PICK k : k = t.reverse[rk]  OBVIOUS
<1>2. k \in DOMAIN t.mappings /\ \E p \in PortsOf(t.mappings[k]) : rk = At(k, p)
  BY <1>1 DEF Agree
<1>3. PICK p \in PortsOf(t.mappings[k]) : rk = At(k, p)  BY <1>2
<1>4. \E s \in {t.mappings[k]} \cup t.mappings[k].alias : s.port = p  BY DEF PortsOf
<1> QED  BY <1>1, <1>2, <1>3, <1>4

LEMMA AgreeIs ==
    ASSUME NEW n,
           \A rk \in DOMAIN n.reverse :
              /\ n.reverse[rk] \in DOMAIN n.mappings
              /\ \E s \in {n.mappings[n.reverse[rk]]} \cup n.mappings[n.reverse[rk]].alias :
                   rk = At(n.reverse[rk], s.port),
           \A k \in DOMAIN n.mappings :
              \A s \in {n.mappings[k]} \cup n.mappings[k].alias :
                 At(k, s.port) \in DOMAIN n.reverse /\ n.reverse[At(k, s.port)] = k
    PROVE  Agree(n)
<1>1. \A m : \A s \in {m} \cup m.alias : s.port \in PortsOf(m)  BY DEF PortsOf
<1>2. \A m : \A p \in PortsOf(m) : \E s \in {m} \cup m.alias : s.port = p
  BY DEF PortsOf
<1>3. ASSUME NEW rk \in DOMAIN n.reverse
      PROVE  /\ n.reverse[rk] \in DOMAIN n.mappings
             /\ \E p \in PortsOf(n.mappings[n.reverse[rk]]) : rk = At(n.reverse[rk], p)
  BY <1>1
<1>4. ASSUME NEW k \in DOMAIN n.mappings, NEW p \in PortsOf(n.mappings[k])
      PROVE  At(k, p) \in DOMAIN n.reverse /\ n.reverse[At(k, p)] = k
  <2>1. PICK s \in {n.mappings[k]} \cup n.mappings[k].alias : s.port = p  BY <1>2
  <2> QED  BY <2>1
<1> QED  BY <1>3, <1>4 DEF Agree

LEMMA PrunedIs ==
    ASSUME NEW s, Side(s), NEW n, n = Pruned(s)
    PROVE  /\ Alike(s, n) /\ n.left = s.left
           /\ n.peers = Restrict(s.peers, LivePeers(s))
           /\ LivePeers(n) = LivePeers(s) /\ (Idle(n) <=> Idle(s))
<1>1. PICK ps : ps = Restrict(s.peers, LivePeers(s))  OBVIOUS
<1>2. n = [s EXCEPT !.peers = ps]  BY <1>1 DEF Pruned
<1>3. n = [port |-> s.port, left |-> s.left, peers |-> ps, open |-> s.open,
           openLeft |-> s.openLeft, alias |-> s.alias]
  BY <1>2 DEF Side
<1>4. Alike(s, n) /\ n.left = s.left /\ n.peers = ps  BY <1>3 DEF Alike, Side
<1>5. DOMAIN ps = LivePeers(s) /\ \A r \in LivePeers(s) : ps[r] = s.peers[r]
  BY <1>1 DEF Restrict
<1>6. LivePeers(n) = LivePeers(s)  BY <1>4, <1>5 DEF LivePeers
<1>7. Idle(n) <=> Idle(s)  BY <1>4, <1>6 DEF Idle
<1> QED  BY <1>1, <1>4, <1>6, <1>7

(* What is left of a mapping: itself without the displaced side if that is *)
(* idle, and else as it is.                                                *)
LEMMA ExpiredIs ==
    ASSUME NEW m, MappingOK(m), NEW n, n = Expired(m)
    PROVE  /\ MappingOK(n) /\ n.port = m.port
           /\ n.alias = {} => /\ n.left = m.left /\ LivePeers(n) = LivePeers(m)
                              /\ \A a \in m.alias : Idle(a)
           /\ n.alias # {} => /\ Same(m, n) /\ n.left = m.left /\ n.peers = m.peers
                              /\ \E a \in m.alias : ~Idle(a) /\ n.alias = {Pruned(a)}
<1>1. PICK as : as = {Pruned(a) : a \in {a \in m.alias : ~Idle(a)}}  OBVIOUS
<1>2. Side(m)  BY DEF MappingOK
<1>3. CASE as = {}
  <2>1. PICK v : v = Pruned(m)  OBVIOUS
  <2>2. Alike(m, v) /\ v.left = m.left /\ LivePeers(v) = LivePeers(m)
    BY <1>2, <2>1, PrunedIs
  <2>3. n = [v EXCEPT !.alias = {}]  BY <1>1, <1>3, <2>1 DEF Expired
  <2>4. PICK x : x = {}  OBVIOUS
  <2>5. /\ Side(n) /\ n.port = v.port /\ n.alias = x
        /\ n.left = v.left /\ n.peers = v.peers
    BY <2>2, <2>3, <2>4, AliasSet DEF Alike
  <2>6. LivePeers(n) = LivePeers(m)  BY <2>2, <2>5 DEF LivePeers
  <2>7. \A a \in m.alias : Idle(a)  BY <1>1, <1>3
  <2> QED  BY <2>2, <2>4, <2>5, <2>6, <2>7 DEF MappingOK, Alike
<1>4. CASE as # {}
  <2>1. n = [m EXCEPT !.alias = as]  BY <1>1, <1>4 DEF Expired
  <2>2. Side(n) /\ n.port = m.port /\ n.alias = as /\ n.left = m.left /\ n.peers = m.peers
    BY <1>2, <2>1, AliasSet
  <2>3. PICK a \in m.alias : /\ m.alias = {a} /\ Side(a)
                             /\ a.alias = {} /\ a.port # m.port
    BY <1>1, <1>4 DEF MappingOK
  <2>4. ~Idle(a)  BY <1>1, <1>4, <2>3
  <2>5. as = {Pruned(a)}  BY <1>1, <2>3, <2>4
  <2>6. PICK b : b = Pruned(a)  OBVIOUS
  <2>7. Side(b) /\ b.port = a.port /\ b.alias = {}  BY <2>3, <2>6, PrunedIs DEF Alike
  <2>8. MappingOK(n)  BY <2>2, <2>3, <2>5, <2>6, <2>7 DEF MappingOK
  <2>9. PortsOf(n) = PortsOf(m)  BY <2>2, <2>3, <2>5, <2>6, <2>7 DEF PortsOf
  <2>10. Same(m, n)  BY <1>4, <2>2, <2>3, <2>8, <2>9 DEF Same
  <2> QED  BY <1>4, <2>2, <2>4, <2>5, <2>8, <2>10
<1> QED  BY <1>3, <1>4

(* Neither the mapping nor the side it displaced may go.                   *)
Fresh(m) == ~Gone(m) /\ \A a \in m.alias : ~Idle(a)

LEMMA ExpiredFresh ==
    ASSUME NEW m, MappingOK(m), ~Gone(m) PROVE Fresh(Expired(m))
<1>1. PICK n : n = Expired(m)  OBVIOUS
<1>2. MappingOK(n)  BY <1>1, ExpiredIs
<1>3. CASE n.alias = {}
  <2>1. n.left = m.left /\ LivePeers(n) = LivePeers(m)  BY <1>1, <1>3, ExpiredIs
  <2>2. ~Idle(m)  BY <1>1, <1>3 DEF Gone
  <2>3. ~Idle(n)  BY <2>1, <2>2 DEF Idle
  <2> QED  BY <1>1, <1>3, <2>3 DEF Fresh, Gone
<1>4. CASE n.alias # {}
  <2>1. PICK a \in m.alias : ~Idle(a) /\ n.alias = {Pruned(a)}
    BY <1>1, <1>4, ExpiredIs
  <2>2. Side(a)  BY SideOf
  <2>3. PICK b : b = Pruned(a)  OBVIOUS
  <2>4. ~Idle(b)  BY <2>1, <2>2, <2>3, PrunedIs
  <2>5. PICK x : x = Expired(n)  OBVIOUS
  <2>6. x.alias # {}  BY <1>2, <2>1, <2>3, <2>4, <2>5, ExpiredIs
  <2>7. ~Gone(n)  BY <2>5, <2>6 DEF Gone
  <2> QED  BY <1>1, <2>1, <2>3, <2>4, <2>7 DEF Fresh
<1> QED  BY <1>3, <1>4

(* A live session keeps its mapping, whatever else of it expires.          *)
LEMMA ExpiredLives ==
    ASSUME NEW m, MappingOK(m)
    PROVE  /\ LivesOn(m, Expired(m))
           /\ \A r, p : Lives(m, r, p) => ~Gone(m)
<1>1. PICK n : n = Expired(m)  OBVIOUS
<1>2. ASSUME NEW r, NEW p, Lives(m, r, p) PROVE Lives(n, r, p) /\ ~Gone(m)
  <2>1. CASE n.alias = {}
    <3>1. /\ n.port = m.port /\ LivePeers(n) = LivePeers(m)
          /\ \A a \in m.alias : Idle(a)
      BY <1>1, <2>1, ExpiredIs
    <3>2. m.port = p /\ r \in LivePeers(m)  BY <1>2, <3>1 DEF Lives, Idle
    <3> QED  BY <2>1, <3>1, <3>2 DEF Lives, Gone, Idle
  <2>2. CASE n.alias # {}
    <3>1. n.port = m.port /\ n.peers = m.peers  BY <1>1, <2>2, ExpiredIs
    <3>2. PICK a \in m.alias : n.alias = {Pruned(a)}  BY <1>1, <2>2, ExpiredIs
    <3>3. m.alias = {a} /\ Side(a)  BY <3>2 DEF MappingOK
    <3>4. PICK b : b = Pruned(a)  OBVIOUS
    <3>5. /\ b.port = a.port /\ LivePeers(b) = LivePeers(a)
          /\ b.peers = Restrict(a.peers, LivePeers(a))
      BY <3>3, <3>4, PrunedIs DEF Alike
    <3>6. DOMAIN b.peers \subseteq DOMAIN a.peers  BY <3>5 DEF Restrict, LivePeers
    <3>7. LivePeers(n) = LivePeers(m)  BY <3>1 DEF LivePeers
    <3>8. n.alias = {b}  BY <3>2, <3>4
    <3>9. Lives(n, r, p)  BY <1>2, <3>1, <3>3, <3>5, <3>6, <3>7, <3>8 DEF Lives
    <3> QED  BY <1>1, <2>2, <3>9 DEF Gone
  <2> QED  BY <2>1, <2>2
<1> QED  BY <1>1, <1>2 DEF LivesOn

LEMMA ExpireMappingsKeeps ==
    ASSUME NEW t, NatInv(t), NEW ks, NEW n, n = ExpireMappings(t, ks)
    PROVE  /\ NatInv(n) /\ Shrinks(t, n) /\ Spares(t, n)
           /\ n.forwards = t.forwards /\ n.expectations = t.expectations
           /\ \A k \in ks \cap DOMAIN n.mappings : Fresh(n.mappings[k])
<1>1. PICK here : here = ks \cap DOMAIN t.mappings  OBVIOUS
<1>2. PICK gone : gone = {k \in here : Gone(t.mappings[k])}  OBVIOUS
<1>3. PICK left : left = UNION {{At(k, a.port) : a \in t.mappings[k].alias} :
                                  k \in {k \in here : Expired(t.mappings[k]).alias = {}}}
  OBVIOUS
<1>4. PICK main : main = {rk \in {At(k, t.mappings[k].port) : k \in gone}
                                   \cap DOMAIN t.reverse : t.reverse[rk] \in gone}
  OBVIOUS
<1>5. PICK out : out = left \cup main  OBVIOUS
<1>6. PICK u : u = Unbind(t, out)  OBVIOUS
<1>7. Unbinds(t, u, out)  BY <1>6, UnbindIs DEF NatInv, Sound
<1>8. PICK ms : ms = [k \in DOMAIN t.mappings \ gone |->
                        IF k \in here THEN Expired(t.mappings[k]) ELSE t.mappings[k]]
  OBVIOUS
<1>9. n = [u EXCEPT !.mappings = ms]
  <2>1. u.mappings = t.mappings  BY <1>7 DEF Unbinds
  <2>2. n = [u EXCEPT !.mappings =
               [k \in DOMAIN u.mappings \ gone |->
                  IF k \in here THEN Expired(u.mappings[k]) ELSE u.mappings[k]]]
    BY <1>1, <1>2, <1>3, <1>4, <1>5, <1>6 DEF ExpireMappings
  <2> QED  BY <1>8, <2>1, <2>2
<1>10. Remapped(u, n, ms)  BY <1>7, <1>9, RemappedIs DEF Unbinds
<1>11. /\ Rec(n) /\ SameForwards(t, n) /\ n.expectations = t.expectations
       /\ n.mappings = ms /\ n.holders = u.holders
       /\ n.reverse = Without(t.reverse, out)
  BY <1>7, <1>10 DEF Unbinds, Remapped, SameForwards
<1>12. /\ DOMAIN n.reverse = DOMAIN t.reverse \ out
       /\ \A rk \in DOMAIN n.reverse : n.reverse[rk] = t.reverse[rk]
  BY <1>11 DEF Without, Restrict
<1>13. Counted(n)
  <2>1. Counted(u)  BY <1>7, UnbindCounted DEF NatInv, Sound
  <2> QED  BY <1>10, <2>1, SameCounted DEF Remapped, SameForwards
<1>14. Agree(t) /\ MappingsOK(t)  BY DEF NatInv, Sound
<1>15. DOMAIN n.mappings = DOMAIN t.mappings \ gone  BY <1>8, <1>11
<1>16. ASSUME NEW k \in DOMAIN n.mappings
       PROVE  /\ n.mappings[k] = IF k \in here THEN Expired(t.mappings[k])
                                 ELSE t.mappings[k]
              /\ k \in DOMAIN t.mappings /\ k \notin gone
              /\ MappingOK(t.mappings[k]) /\ MappingOK(n.mappings[k])
              /\ n.mappings[k].port = t.mappings[k].port
              /\ n.mappings[k].alias # {} =>
                   PortsOf(n.mappings[k]) = PortsOf(t.mappings[k])
              /\ n.mappings[k].alias # {} => t.mappings[k].alias # {}
  <2>1. /\ n.mappings[k] = IF k \in here THEN Expired(t.mappings[k])
                           ELSE t.mappings[k]
        /\ k \in DOMAIN t.mappings /\ k \notin gone
    BY <1>8, <1>11, <1>15
  <2>2. MappingOK(t.mappings[k])  BY <1>14, <2>1 DEF MappingsOK
  <2>3. CASE k \in here  BY <2>1, <2>2, <2>3, ExpiredIs DEF Same
  <2>4. CASE k \notin here  BY <2>1, <2>2, <2>4
  <2> QED  BY <2>1, <2>2, <2>3, <2>4
<1>17. MappingsOK(n)  BY <1>14, <1>16 DEF MappingsOK
<1>18. ASSUME NEW rk \in DOMAIN n.reverse
       PROVE  /\ n.reverse[rk] \in DOMAIN n.mappings
              /\ \E s \in {n.mappings[n.reverse[rk]]} \cup n.mappings[n.reverse[rk]].alias :
                   rk = At(n.reverse[rk], s.port)
  <2>1. rk \in DOMAIN t.reverse /\ n.reverse[rk] = t.reverse[rk]
        /\ rk \notin left /\ rk \notin main
    BY <1>5, <1>12
  <2>2. PICK k : k = t.reverse[rk]  OBVIOUS
  <2>3. PICK m : m = t.mappings[k]  OBVIOUS
  <2>4. /\ k \in DOMAIN t.mappings
        /\ \E s \in {m} \cup m.alias : rk = At(k, s.port)
    BY <1>14, <2>1, <2>2, <2>3, BoundSide
  <2>5. PICK s \in {m} \cup m.alias : rk = At(k, s.port)  BY <2>4
  <2>6. s # m => ~(k \in here /\ Expired(m).alias = {})  BY <1>3, <2>1, <2>3, <2>5
  <2>7. k \notin gone
    <3>1. CASE s = m  BY <1>4, <2>1, <2>2, <2>3, <2>5, <3>1
    <3>2. CASE s # m  BY <1>2, <2>3, <2>6, <3>2 DEF Gone
    <3> QED  BY <3>1, <3>2
  <2>8. k \in DOMAIN n.mappings  BY <1>15, <2>4, <2>7
  <2>9. CASE s = m
    <3>1. n.mappings[k].port = m.port  BY <1>16, <2>3, <2>8
    <3> QED  BY <2>1, <2>2, <2>5, <2>8, <2>9, <3>1
  <2>10. CASE s # m
    <3>1. n.mappings[k].alias # {}  BY <1>16, <2>3, <2>5, <2>6, <2>8, <2>10
    <3>2. PortsOf(n.mappings[k]) = PortsOf(m)  BY <1>16, <2>3, <2>8, <3>1
    <3>3. s.port \in PortsOf(m)  BY <2>5 DEF PortsOf
    <3>4. \E x \in {n.mappings[k]} \cup n.mappings[k].alias : x.port = s.port
      BY <3>2, <3>3 DEF PortsOf
    <3> QED  BY <2>1, <2>2, <2>5, <2>8, <3>4
  <2> QED  BY <2>9, <2>10
<1>19. ASSUME NEW k \in DOMAIN n.mappings,
              NEW s \in {n.mappings[k]} \cup n.mappings[k].alias
       PROVE  At(k, s.port) \in DOMAIN n.reverse /\ n.reverse[At(k, s.port)] = k
  <2>1. PICK m : m = t.mappings[k]  OBVIOUS
  <2>2. /\ k \in DOMAIN t.mappings /\ k \notin gone /\ MappingOK(m)
        /\ n.mappings[k].port = m.port
    BY <1>16, <2>1
  <2>3. \E x \in {m} \cup m.alias : x.port = s.port
    <3>1. CASE s = n.mappings[k]  BY <2>2, <3>1
    <3>2. CASE s # n.mappings[k]
      <4>1. PortsOf(n.mappings[k]) = PortsOf(m)  BY <1>16, <2>1, <3>2
      <4> QED  BY <4>1 DEF PortsOf
    <3> QED  BY <3>1, <3>2
  <2>4. PICK rk : rk = At(k, s.port)  OBVIOUS
  <2>5. rk \in DOMAIN t.reverse /\ t.reverse[rk] = k
    BY <1>14, <2>1, <2>2, <2>3, <2>4, SideBound
  <2>6. rk \notin main  BY <1>4, <2>2, <2>5
  <2>7. rk \notin left
    <3>1. SUFFICES ASSUME rk \in left PROVE FALSE  OBVIOUS
    <3>2. PICK j \in here : /\ Expired(t.mappings[j]).alias = {}
                            /\ \E a \in t.mappings[j].alias : rk = At(j, a.port)
      BY <1>3, <3>1
    <3>3. PICK a \in t.mappings[j].alias : rk = At(j, a.port)  BY <3>2
    <3>4. t.reverse[rk] = j  BY <1>1, <1>14, <3>3, SideBound
    <3>5. j = k  BY <2>5, <3>4
    <3>6. n.mappings[k].alias = {}  BY <1>16, <3>2, <3>5
    <3>7. s.port = m.port  BY <2>2, <3>6
    <3>8. a.port = s.port  BY <2>4, <3>3, <3>5 DEF At
    <3>9. a.port # m.port  BY <2>1, <2>2, <3>3, <3>5 DEF MappingOK
    <3> QED  BY <3>7, <3>8, <3>9
  <2>8. rk \in DOMAIN n.reverse  BY <1>5, <1>12, <2>5, <2>6, <2>7
  <2> QED  BY <1>12, <2>4, <2>5, <2>8
<1>20. Agree(n)  BY <1>18, <1>19, AgreeIs
<1>21. CutBack(t, n, {})
  BY <1>11, <1>12, <1>13, <1>15, <1>16, <1>17, <1>20 DEF CutBack
<1>22. NatInv(n) /\ Shrinks(t, n)  BY <1>21, CutKeeps DEF NatInv
<1>23. ASSUME NEW k \in ks \cap DOMAIN n.mappings PROVE Fresh(n.mappings[k])
  <2>1. k \in here  BY <1>1, <1>16
  <2>2. n.mappings[k] = Expired(t.mappings[k]) /\ ~Gone(t.mappings[k])
        /\ MappingOK(t.mappings[k])
    BY <1>2, <1>16, <2>1
  <2> QED  BY <2>2, ExpiredFresh
<1>24. Spares(t, n)
  <2>1. SUFFICES ASSUME NEW k, NEW r, NEW p, Safe(t, k, r, p) PROVE Safe(n, k, r, p)
    BY DEF Spares
  <2>2. PICK m : m = t.mappings[k]  OBVIOUS
  <2>3. /\ k \in DOMAIN t.mappings /\ Lives(m, r, p) /\ MappingOK(m)
        /\ ~ForwardLapsed(n, At(k, p))
    BY <1>11, <1>14, <2>1, <2>2 DEF Safe, MappingsOK, SameForwards, ForwardLapsed
  <2>4. Lives(Expired(m), r, p) /\ ~Gone(m)  BY <2>3, ExpiredLives DEF LivesOn
  <2>5. k \in DOMAIN n.mappings  BY <1>2, <1>15, <2>2, <2>3, <2>4
  <2>6. n.mappings[k] = m \/ n.mappings[k] = Expired(m)  BY <1>16, <2>2, <2>5
  <2> QED  BY <2>3, <2>4, <2>5, <2>6 DEF Safe
<1> QED  BY <1>11, <1>22, <1>23, <1>24 DEF SameForwards

(* What is left of mapping m of k without its sides on rks.                *)
LeftOf(t, rks, k, x) ==
    LET m == t.mappings[k]
    IN  \/ /\ At(k, m.port) \notin rks /\ x = m
           /\ \A a \in m.alias : At(k, a.port) \notin rks
        \/ /\ At(k, m.port) \notin rks /\ x.alias = {} /\ x.port = m.port /\ Side(x)
           /\ x.peers = m.peers /\ m.alias # {} /\ \A a \in m.alias : At(k, a.port) \in rks
        \/ At(k, m.port) \in rks /\ x \in m.alias /\ At(k, x.port) \notin rks

LEMMA RemovedIs ==
    ASSUME NEW t, Agree(t), MappingsOK(t), Rec(t), NEW rks, NEW n,
           n = RemoveMappingsAt(t, rks)
    PROVE  /\ Rec(n) /\ SameForwards(t, n) /\ n.expectations = t.expectations
           /\ n.reverse = Without(t.reverse, rks)
           /\ \E u : Unbinds(t, u, rks) /\ n.holders = u.holders
           /\ DOMAIN n.mappings =
                {k \in DOMAIN t.mappings :
                   \E s \in {t.mappings[k]} \cup t.mappings[k].alias :
                     At(k, s.port) \notin rks}
           /\ \A k \in DOMAIN n.mappings : LeftOf(t, rks, k, n.mappings[k])
<1> DEFINE Off(k, s) == /\ At(k, s.port) \in rks \cap DOMAIN t.reverse
                        /\ t.reverse[At(k, s.port)] = k
           Kept(k)   == {a \in t.mappings[k].alias : ~Off(k, a)}
           All(k)    == ~Off(k, t.mappings[k])
<1>1. PICK u : u = Unbind(t, rks)  OBVIOUS
<1>2. Unbinds(t, u, rks)  BY <1>1, UnbindIs
<1>3. PICK ks : ks = {j \in DOMAIN t.mappings : All(j) \/ Kept(j) # {}}  OBVIOUS
<1>4. PICK ms : ms = [k \in ks |-> IF All(k) THEN [t.mappings[k] EXCEPT !.alias = Kept(k)]
                                   ELSE CHOOSE a \in Kept(k) : TRUE]
  OBVIOUS
<1>5. n = [u EXCEPT !.mappings = ms]
  <2>1. u.mappings = t.mappings  BY <1>2 DEF Unbinds
  <2>2. n = [u EXCEPT !.mappings =
               [k \in {j \in DOMAIN u.mappings : All(j) \/ Kept(j) # {}} |->
                  IF All(k) THEN [u.mappings[k] EXCEPT !.alias = Kept(k)]
                  ELSE CHOOSE a \in Kept(k) : TRUE]]
    BY <1>1 DEF RemoveMappingsAt
  <2>3. ms = [k \in {j \in DOMAIN u.mappings : All(j) \/ Kept(j) # {}} |->
                IF All(k) THEN [u.mappings[k] EXCEPT !.alias = Kept(k)]
                ELSE CHOOSE a \in Kept(k) : TRUE]
    <3> HIDE DEF All, Kept
    <3> QED  BY <1>3, <1>4, <2>1
  <2> HIDE DEF All, Kept
  <2> QED  BY <2>2, <2>3
<1>6. Remapped(u, n, ms)  BY <1>2, <1>5, RemappedIs DEF Unbinds
<1>7. /\ Rec(n) /\ SameForwards(t, n) /\ n.expectations = t.expectations
      /\ n.mappings = ms /\ n.holders = u.holders /\ n.reverse = Without(t.reverse, rks)
  BY <1>2, <1>6 DEF Unbinds, Remapped, SameForwards
<1>8. ASSUME NEW k \in DOMAIN t.mappings,
             NEW s \in {t.mappings[k]} \cup t.mappings[k].alias
      PROVE  Off(k, s) <=> At(k, s.port) \in rks
  BY SideBound
<1>9. ASSUME NEW k \in DOMAIN t.mappings
      PROVE  /\ All(k) <=> At(k, t.mappings[k].port) \notin rks
             /\ Kept(k) = {a \in t.mappings[k].alias : At(k, a.port) \notin rks}
  BY <1>8
<1>10. DOMAIN ms = ks  BY <1>4
<1>11. ks = {k \in DOMAIN t.mappings :
              \E s \in {t.mappings[k]} \cup t.mappings[k].alias : At(k, s.port) \notin rks}
  <2>1. ASSUME NEW k \in DOMAIN t.mappings
        PROVE  (All(k) \/ Kept(k) # {}) <=>
               \E s \in {t.mappings[k]} \cup t.mappings[k].alias : At(k, s.port) \notin rks
    BY <1>9
  <2> HIDE DEF All, Kept
  <2> QED  BY <1>3, <2>1
<1>12. ASSUME NEW k \in ks PROVE LeftOf(t, rks, k, ms[k])
  <2>1. k \in DOMAIN t.mappings  BY <1>11
  <2>2. PICK m : m = t.mappings[k]  OBVIOUS
  <2>3. PICK as : as = {a \in m.alias : At(k, a.port) \notin rks}  OBVIOUS
  <2>4. MappingOK(m)  BY <2>1, <2>2 DEF MappingsOK
  <2>5. CASE At(k, m.port) \notin rks
    <3>1. ms[k] = [m EXCEPT !.alias = as]
      <4>1. All(k) /\ Kept(k) = as  BY <1>9, <2>1, <2>2, <2>3, <2>5
      <4> HIDE DEF All, Kept
      <4> QED  BY <1>4, <2>2, <4>1
    <3>2. Side(m)  BY <2>4 DEF MappingOK
    <3>3. CASE as = m.alias
      <4>1. ms[k] = m  BY <3>1, <3>2, <3>3 DEF Side
      <4>2. \A a \in m.alias : At(k, a.port) \notin rks  BY <2>3, <3>3
      <4> QED  BY <2>2, <2>5, <4>1, <4>2 DEF LeftOf
    <3>4. CASE as # m.alias
      <4>1. PICK a \in m.alias : m.alias = {a}  BY <2>3, <2>4, <3>4 DEF MappingOK
      <4>2. as = {} /\ At(k, a.port) \in rks  BY <2>3, <3>4, <4>1
      <4>3. PICK x : x = ms[k]  OBVIOUS
      <4>4. Side(x) /\ x.port = m.port /\ x.alias = as /\ x.peers = m.peers
        BY <3>1, <3>2, <4>3, AliasSet
      <4> QED  BY <2>2, <2>5, <4>1, <4>2, <4>3, <4>4 DEF LeftOf
    <3> QED  BY <3>3, <3>4
  <2>6. CASE At(k, m.port) \in rks
    <3>1. ~All(k) /\ Kept(k) = as  BY <1>9, <2>1, <2>2, <2>3, <2>6
    <3>2. as # {}  BY <1>3, <3>1
    <3>3. ms[k] = CHOOSE a \in as : TRUE
      <4> HIDE DEF All, Kept
      <4> QED  BY <1>4, <3>1
    <3>4. ms[k] \in as  BY <3>2, <3>3
    <3> QED  BY <2>2, <2>3, <2>6, <3>4 DEF LeftOf
  <2> QED  BY <2>5, <2>6
<1> QED  BY <1>2, <1>7, <1>10, <1>11, <1>12

(* Sessions on other ports than rks live on.                               *)
LeavesLiving(t, n, rks) ==
    \A k \in DOMAIN t.mappings : \A r, p :
        Lives(t.mappings[k], r, p) /\ At(k, p) \notin rks =>
            k \in DOMAIN n.mappings /\ Lives(n.mappings[k], r, p)

LEMMA RemovedLeaves ==
    ASSUME NEW t, Agree(t), MappingsOK(t), Rec(t), NEW rks, NEW n,
           n = RemoveMappingsAt(t, rks)
    PROVE  LeavesLiving(t, n, rks)
<1>1. SUFFICES ASSUME NEW k \in DOMAIN t.mappings, NEW r, NEW p,
                      Lives(t.mappings[k], r, p), At(k, p) \notin rks
               PROVE  k \in DOMAIN n.mappings /\ Lives(n.mappings[k], r, p)
  BY DEF LeavesLiving
<1>2. /\ DOMAIN n.mappings =
           {j \in DOMAIN t.mappings :
              \E s \in {t.mappings[j]} \cup t.mappings[j].alias : At(j, s.port) \notin rks}
      /\ \A j \in DOMAIN n.mappings : LeftOf(t, rks, j, n.mappings[j])
  BY RemovedIs
<1>3. PICK m : m = t.mappings[k]  OBVIOUS
<1>4. MappingOK(m) /\ Lives(m, r, p)  BY <1>1, <1>3 DEF MappingsOK
<1>5. \E s \in {m} \cup m.alias : s.port = p  BY <1>4 DEF Lives
<1>6. k \in DOMAIN n.mappings  BY <1>1, <1>2, <1>3, <1>5
<1>7. PICK x : x = n.mappings[k]  OBVIOUS
<1>8. LeftOf(t, rks, k, x)  BY <1>2, <1>6, <1>7
<1>9. CASE x = m  BY <1>4, <1>6, <1>7, <1>9
<1>10. CASE x \in m.alias /\ At(k, m.port) \in rks
  <2>1. m.alias = {x} /\ x.alias = {}  BY <1>4, <1>10 DEF MappingOK
  <2>2. x.port = p /\ r \in LivePeers(x)  BY <1>1, <1>4, <1>10, <2>1 DEF Lives
  <2> QED  BY <1>6, <1>7, <2>1, <2>2 DEF Lives
<1>11. CASE /\ x.alias = {} /\ x.port = m.port /\ x.peers = m.peers
            /\ \A a \in m.alias : At(k, a.port) \in rks
  <2>1. m.port = p /\ r \in LivePeers(m)  BY <1>1, <1>4, <1>11 DEF Lives
  <2>2. LivePeers(x) = LivePeers(m)  BY <1>11 DEF LivePeers
  <2> QED  BY <1>6, <1>7, <1>11, <2>1, <2>2 DEF Lives
<1> QED  BY <1>3, <1>8, <1>9, <1>10, <1>11 DEF LeftOf

LEMMA RemoveMappingsKeeps ==
    ASSUME NEW t, Sound(t), NEW rks, Displaced(t, rks), NEW n,
           n = RemoveMappingsAt(t, rks)
    PROVE  /\ NatInv(n) /\ Shrinks(t, n)
           /\ n.forwards = t.forwards /\ n.byEndpoint = t.byEndpoint
           /\ n.expectations = t.expectations /\ DOMAIN n.reverse = DOMAIN t.reverse \ rks
           /\ LeavesLiving(t, n, rks)
           /\ \A k \in DOMAIN n.mappings :
                k \in DOMAIN t.mappings /\ LeftOf(t, rks, k, n.mappings[k])
<1>1. Agree(t) /\ MappingsOK(t) /\ Rec(t) /\ Counted(t)  BY DEF Sound
<1>2. /\ Rec(n) /\ SameForwards(t, n) /\ n.expectations = t.expectations
      /\ n.reverse = Without(t.reverse, rks)
      /\ DOMAIN n.mappings =
            {k \in DOMAIN t.mappings :
               \E s \in {t.mappings[k]} \cup t.mappings[k].alias :
                 At(k, s.port) \notin rks}
      /\ \A k \in DOMAIN n.mappings : LeftOf(t, rks, k, n.mappings[k])
  BY <1>1, RemovedIs
<1>3. PICK u : Unbinds(t, u, rks) /\ n.holders = u.holders  BY <1>1, RemovedIs
<1>4. Counted(n)
  <2>1. Counted(u)  BY <1>1, <1>3, UnbindCounted
  <2>2. /\ n.reverse = u.reverse /\ n.forwards = u.forwards
        /\ n.expectations = u.expectations
    BY <1>2, <1>3 DEF Unbinds, SameForwards
  <2> QED  BY <1>3, <2>1, <2>2, SameCounted
<1>5. /\ DOMAIN n.reverse = DOMAIN t.reverse \ rks
      /\ \A rk \in DOMAIN n.reverse : n.reverse[rk] = t.reverse[rk]
  BY <1>2 DEF Without, Restrict
<1>6. ASSUME NEW k \in DOMAIN n.mappings
      PROVE  /\ k \in DOMAIN t.mappings /\ MappingOK(t.mappings[k])
             /\ LeftOf(t, rks, k, n.mappings[k])
             /\ MappingOK(n.mappings[k])
             /\ \A s \in {n.mappings[k]} \cup n.mappings[k].alias :
                   At(k, s.port) \notin rks
                   /\ s.port \in PortsOf(t.mappings[k])
  <2>1. k \in DOMAIN t.mappings /\ LeftOf(t, rks, k, n.mappings[k])  BY <1>2
  <2>2. MappingOK(t.mappings[k])  BY <1>1, <2>1 DEF MappingsOK
  <2>3. PICK m : m = t.mappings[k]  OBVIOUS
  <2>4. PICK x : x = n.mappings[k]  OBVIOUS
  <2>5. MappingOK(x)
    <3>1. CASE x = m  BY <2>2, <2>3, <3>1
    <3>2. CASE x.alias = {} /\ Side(x)  BY <3>2 DEF MappingOK
    <3>3. CASE x \in m.alias  BY <2>2, <2>3, <3>3 DEF MappingOK
    <3> QED  BY <2>1, <2>3, <2>4, <3>1, <3>2, <3>3 DEF LeftOf
  <2>6. x \in m.alias => x.alias = {}  BY <2>2, <2>3 DEF MappingOK
  <2>7. ASSUME NEW s \in {x} \cup x.alias
        PROVE  At(k, s.port) \notin rks /\ s.port \in PortsOf(m)
    <3>1. CASE x = m  BY <2>1, <2>3, <2>4, <3>1 DEF LeftOf, PortsOf
    <3>2. CASE x # m
      <4>1. s = x  BY <2>1, <2>3, <2>4, <2>6, <3>2 DEF LeftOf
      <4> QED  BY <2>1, <2>3, <2>4, <3>2, <4>1 DEF LeftOf, PortsOf
    <3> QED  BY <3>1, <3>2
  <2> QED  BY <2>1, <2>2, <2>3, <2>4, <2>5, <2>7
<1>7. MappingsOK(n)  BY <1>1, <1>6 DEF MappingsOK
<1>8. ASSUME NEW rk \in DOMAIN n.reverse
      PROVE  /\ n.reverse[rk] \in DOMAIN n.mappings
             /\ \E s \in {n.mappings[n.reverse[rk]]} \cup n.mappings[n.reverse[rk]].alias :
                  rk = At(n.reverse[rk], s.port)
  <2>1. rk \in DOMAIN t.reverse /\ n.reverse[rk] = t.reverse[rk] /\ rk \notin rks
    BY <1>5
  <2>2. PICK k : k = t.reverse[rk]  OBVIOUS
  <2>3. PICK m : m = t.mappings[k]  OBVIOUS
  <2>4. /\ k \in DOMAIN t.mappings
        /\ \E s \in {m} \cup m.alias : rk = At(k, s.port)
    BY <1>1, <2>1, <2>2, <2>3, BoundSide
  <2>5. PICK s \in {m} \cup m.alias : rk = At(k, s.port)  BY <2>4
  <2>6. k \in DOMAIN n.mappings  BY <1>2, <2>1, <2>3, <2>4, <2>5
  <2>7. PICK x : x = n.mappings[k]  OBVIOUS
  <2>8. LeftOf(t, rks, k, x) /\ MappingOK(m)  BY <1>6, <2>3, <2>6, <2>7
  <2>9. \E y \in {x} \cup x.alias : y.port = s.port
    <3>1. CASE x = m  BY <2>5, <3>1
    <3>2. CASE At(k, m.port) \notin rks /\ x # m
      <4>1. x.port = m.port /\ \A a \in m.alias : At(k, a.port) \in rks
        BY <2>3, <2>8, <3>2 DEF LeftOf
      <4> QED  BY <2>1, <2>5, <4>1
    <3>3. CASE At(k, m.port) \in rks
      <4>1. x \in m.alias  BY <2>3, <2>8, <3>3 DEF LeftOf
      <4>2. s \in m.alias  BY <2>1, <2>5, <3>3
      <4>3. s = x  BY <2>8, <4>1, <4>2 DEF MappingOK
      <4> QED  BY <4>3
    <3> QED  BY <2>3, <2>8, <3>1, <3>2, <3>3
  <2> QED  BY <2>1, <2>2, <2>5, <2>6, <2>7, <2>9
<1>9. ASSUME NEW k \in DOMAIN n.mappings,
             NEW s \in {n.mappings[k]} \cup n.mappings[k].alias
      PROVE  At(k, s.port) \in DOMAIN n.reverse /\ n.reverse[At(k, s.port)] = k
  <2>1. /\ k \in DOMAIN t.mappings /\ At(k, s.port) \notin rks
        /\ s.port \in PortsOf(t.mappings[k])
    BY <1>6
  <2>2. At(k, s.port) \in DOMAIN t.reverse /\ t.reverse[At(k, s.port)] = k
    BY <1>1, <2>1 DEF Agree
  <2> QED  BY <1>5, <2>1, <2>2
<1>10. Agree(n)  BY <1>8, <1>9, AgreeIs
<1>11. ASSUME NEW k \in DOMAIN n.mappings, n.mappings[k].alias # {}
       PROVE  /\ t.mappings[k].alias # {}
              /\ n.mappings[k].port = t.mappings[k].port
              /\ At(k, n.mappings[k].port) \notin rks
  <2>1. /\ LeftOf(t, rks, k, n.mappings[k]) /\ MappingOK(t.mappings[k])
        /\ At(k, n.mappings[k].port) \notin rks
    BY <1>6
  <2>2. n.mappings[k] \notin t.mappings[k].alias  BY <1>11, <2>1 DEF MappingOK
  <2>3. n.mappings[k] = t.mappings[k]  BY <1>11, <2>1, <2>2 DEF LeftOf
  <2> QED  BY <1>11, <2>1, <2>3
<1>12. CutBack(t, n, rks)
  BY <1>2, <1>4, <1>5, <1>6, <1>7, <1>10, <1>11 DEF CutBack
<1>13. NatInv(n) /\ Shrinks(t, n)  BY <1>12, CutKeeps
<1>14. LeavesLiving(t, n, rks)  BY <1>1, RemovedLeaves
<1> QED  BY <1>2, <1>5, <1>6, <1>13, <1>14 DEF SameForwards

-----------------------------------------------------------------------------
(* Forwards that go, expiry and reclaim.                                   *)

LEMMA DropForwardsKeeps ==
    ASSUME NEW t, NatInv(t), NEW rks, NEW n, n = DropForwards(t, rks)
    PROVE  /\ NatInv(n) /\ Shrinks(t, n)
           /\ n.expectations = t.expectations
           /\ DOMAIN n.forwards = DOMAIN t.forwards \ rks
           /\ \A rk \in DOMAIN n.forwards : n.forwards[rk] = t.forwards[rk]
           /\ LeavesLiving(t, n, rks)
           /\ \A k \in DOMAIN n.mappings :
                k \in DOMAIN t.mappings /\ LeftOf(t, rks, k, n.mappings[k])
<1>1. PICK u : u = ForwardsRemove(t, rks)  OBVIOUS
<1>2. /\ Sound(u) /\ Displaced(u, rks) /\ Shrinks(t, u) /\ u.mappings = t.mappings
      /\ u.expectations = t.expectations
      /\ DOMAIN u.forwards = DOMAIN t.forwards \ rks
      /\ \A rk \in DOMAIN u.forwards : u.forwards[rk] = t.forwards[rk]
  BY <1>1, ForwardsRemoveKeeps
<1>3. n = RemoveMappingsAt(u, rks)  BY <1>1 DEF DropForwards
<1>4. /\ NatInv(n) /\ Shrinks(u, n) /\ n.forwards = u.forwards
      /\ n.expectations = u.expectations /\ LeavesLiving(u, n, rks)
      /\ \A k \in DOMAIN n.mappings :
            k \in DOMAIN u.mappings /\ LeftOf(u, rks, k, n.mappings[k])
  BY <1>2, <1>3, RemoveMappingsKeeps
<1>5. Shrinks(t, n)  BY <1>2, <1>4, ShrinksTransitive
<1>6. \A k, x : LeftOf(u, rks, k, x) = LeftOf(t, rks, k, x)  BY <1>2 DEF LeftOf
<1>7. LeavesLiving(t, n, rks)  BY <1>2, <1>4 DEF LeavesLiving
<1> QED  BY <1>2, <1>4, <1>5, <1>6, <1>7

(* An operation that keeps the invariant and spares live sessions; and one *)
(* after which there is no more than before.                               *)
Keeps(t, n) == NatInv(n) /\ Spares(t, n)

Goes(t, n) == Keeps(t, n) /\ Shrinks(t, n)

LEMMA KeepsOn ==
    ASSUME NEW t, NEW u, NEW n, Keeps(t, u), Keeps(u, n) PROVE Keeps(t, n)
BY SparesOn DEF Keeps

LEMMA GoesOn ==
    ASSUME NEW t, NEW u, NEW n, Goes(t, u), Goes(u, n) PROVE Goes(t, n)
BY ShrinksTransitive, KeepsOn DEF Goes

LEMMA GoesSelf == ASSUME NEW t, NatInv(t) PROVE Goes(t, t)
BY SelfShrinks, SparesSame DEF Goes, Keeps

LEMMA GoesRenewed ==
    ASSUME NEW t, NatInv(t), NEW n, Renewed(t, n), Spares(t, n) PROVE Goes(t, n)
BY RenewedKeeps, RenewedShrinks DEF Goes, Keeps

LEMMA GoesSameTables ==
    ASSUME NEW t, NatInv(t), NEW n, SameTables(t, n) PROVE Goes(t, n)
<1>1. Renewed(t, n)  BY SameTablesRenewed
<1>2. Spares(t, n)  BY SparesSame DEF SameTables, SameForwards
<1> QED  BY <1>1, <1>2, GoesRenewed

(* n is t with another m for k, in which k's sessions live on.             *)
LEMMA LivingRenewed ==
    ASSUME NEW t, NatInv(t), NEW k \in DOMAIN t.mappings, NEW m,
           Same(t.mappings[k], m), LivesOn(t.mappings[k], m),
           NEW n, n = [t EXCEPT !.mappings[k] = m]
    PROVE  Goes(t, n)
<1>1. Renewed(t, n)  BY MappingRenewed
<1>2. PICK ms : ms = [t.mappings EXCEPT ![k] = m]  OBVIOUS
<1>3. Remapped(t, [t EXCEPT !.mappings = ms], ms)  BY RemappedIs DEF NatInv, Sound
<1>4. n = [t EXCEPT !.mappings = ms]  BY <1>2
<1>5. n.forwards = t.forwards /\ n.mappings = ms
  BY <1>3, <1>4 DEF Remapped, SameForwards
<1>6. \A j \in DOMAIN t.mappings : LivesOn(t.mappings[j], n.mappings[j])
  BY <1>2, <1>5 DEF LivesOn
<1>7. Spares(t, n)  BY <1>2, <1>5, <1>6, SparesMapped
<1> QED  BY <1>1, <1>7, GoesRenewed

LEMMA SameSessions ==
    ASSUME NEW t, NatInv(t), NEW k \in DOMAIN t.mappings, NEW m,
           Same(t.mappings[k], m), m.peers = t.mappings[k].peers,
           m.port = t.mappings[k].port, m.alias = t.mappings[k].alias,
           NEW n, n = [t EXCEPT !.mappings[k] = m]
    PROVE  Goes(t, n)
<1>1. LivesOn(t.mappings[k], m)  BY DEF LivesOn, Lives, LivePeers
<1> QED  BY <1>1, LivingRenewed

LEMMA ExpireMappingAtGoes ==
    ASSUME NEW t, NatInv(t), NEW rk PROVE Goes(t, ExpireMappingAt(t, rk))
<1>1. PICK n : n = ExpireMappingAt(t, rk)  OBVIOUS
<1>2. CASE rk \in DOMAIN t.reverse
  <2>1. PICK ks : ks = {t.reverse[rk]}  OBVIOUS
  <2>2. n = ExpireMappings(t, ks)  BY <1>1, <1>2, <2>1 DEF ExpireMappingAt
  <2>3. Goes(t, n)  BY <2>2, ExpireMappingsKeeps DEF Goes, Keeps
  <2> QED  BY <1>1, <2>3
<1>3. CASE rk \notin DOMAIN t.reverse
  <2>1. n = t  BY <1>1, <1>3 DEF ExpireMappingAt
  <2> QED  BY <1>1, <2>1, GoesSelf
<1> QED  BY <1>2, <1>3

(* Sessions that end with a forward were on its port.                      *)
LEMMA DropLapsedGoes ==
    ASSUME NEW t, NatInv(t), NEW rks, \A rk \in rks : ForwardLapsed(t, rk),
           NEW n, n = DropForwards(t, rks)
    PROVE  Goes(t, n)
<1>1. /\ NatInv(n) /\ Shrinks(t, n) /\ LeavesLiving(t, n, rks)
      /\ DOMAIN n.forwards = DOMAIN t.forwards \ rks
      /\ \A rk \in DOMAIN n.forwards : n.forwards[rk] = t.forwards[rk]
  BY DropForwardsKeeps
<1>2. ASSUME NEW k, NEW r, NEW p, Safe(t, k, r, p) PROVE Safe(n, k, r, p)
  <2>1. PICK rk : rk = At(k, p)  OBVIOUS
  <2>2. ~ForwardLapsed(t, rk) /\ rk \notin rks  BY <1>2, <2>1 DEF Safe
  <2>3. ~ForwardLapsed(n, rk)  BY <1>1, <2>2 DEF ForwardLapsed
  <2> QED  BY <1>1, <1>2, <2>1, <2>2, <2>3 DEF Safe, LeavesLiving
<1>3. Spares(t, n)  BY <1>2 DEF Spares
<1> QED  BY <1>1, <1>3 DEF Goes, Keeps

LEMMA DropLapsedAtGoes ==
    ASSUME NEW t, NatInv(t), NEW rk, ForwardLapsed(t, rk)
    PROVE  Goes(t, DropForwards(t, {rk}))
<1>1. PICK rks : rks = {rk}  OBVIOUS
<1>2. PICK n : n = DropForwards(t, rks)  OBVIOUS
<1>3. Goes(t, n)  BY <1>1, <1>2, DropLapsedGoes
<1> QED  BY <1>1, <1>2, <1>3

LEMMA ExpirePortGoes ==
    ASSUME NEW t, NatInv(t), NEW rk PROVE Goes(t, ExpirePort(t, rk))
<1>1. PICK u : u = IF ForwardLapsed(t, rk) THEN DropForwards(t, {rk}) ELSE t  OBVIOUS
<1>2. Goes(t, u)  BY <1>1, DropLapsedAtGoes, GoesSelf
<1>3. ExpirePort(t, rk) = ExpireMappingAt(u, rk)  BY <1>1 DEF ExpirePort
<1>4. Goes(u, ExpireMappingAt(u, rk))  BY <1>2, ExpireMappingAtGoes DEF Goes, Keeps
<1> QED  BY <1>2, <1>3, <1>4, GoesOn

LEMMA ForgetHostsIs ==
    ASSUME NEW t, Rec(t), NEW inHand PROVE SameTables(t, ForgetHosts(t, inHand))
<1>1. PICK hs : hs = t.hosts \cap HostsHolding(t, inHand)  OBVIOUS
<1>2. ForgetHosts(t, inHand) = [t EXCEPT !.hosts = hs]  BY <1>1 DEF ForgetHosts
<1>3. SameTables(t, [t EXCEPT !.hosts = hs])  BY SameTablesIs
<1> QED  BY <1>2, <1>3

(* A mapping whose displaced side is on a lapsed forward's port would have *)
(* two forwards: dropping those leaves no mapping idle that was not.       *)
LEMMA DropLapsedForwardsFresh ==
    ASSUME NEW t, NatInv(t), \A k \in DOMAIN t.mappings : Fresh(t.mappings[k]),
           NEW n, n = DropLapsedForwards(t)
    PROVE  /\ Goes(t, n) /\ n.expectations = t.expectations
           /\ \A rk \in DOMAIN n.forwards : ~ForwardLapsed(n, rk)
           /\ \A k \in DOMAIN n.mappings : Fresh(n.mappings[k])
<1>1. PICK rks : rks = {rk \in DOMAIN t.forwards : ForwardLapsed(t, rk)}  OBVIOUS
<1>2. n = DropForwards(t, rks)  BY <1>1 DEF DropLapsedForwards
<1>3. /\ NatInv(n) /\ Shrinks(t, n) /\ n.expectations = t.expectations
      /\ DOMAIN n.forwards = DOMAIN t.forwards \ rks
      /\ \A rk \in DOMAIN n.forwards : n.forwards[rk] = t.forwards[rk]
      /\ \A k \in DOMAIN n.mappings :
            k \in DOMAIN t.mappings /\ LeftOf(t, rks, k, n.mappings[k])
  BY <1>2, DropForwardsKeeps
<1>4. \A rk \in DOMAIN n.forwards : ~ForwardLapsed(n, rk)
  BY <1>1, <1>3 DEF ForwardLapsed
<1>5. ASSUME NEW k \in DOMAIN n.mappings PROVE Fresh(n.mappings[k])
  <2>1. PICK m : m = t.mappings[k]  OBVIOUS
  <2>2. PICK x : x = n.mappings[k]  OBVIOUS
  <2>3. k \in DOMAIN t.mappings /\ LeftOf(t, rks, k, x)  BY <1>3, <2>2
  <2>4. MappingOK(m) /\ Fresh(m)  BY <2>1, <2>3 DEF NatInv, Sound, MappingsOK
  <2>5. CASE x = m  BY <2>2, <2>4, <2>5
  <2>6. CASE x \in m.alias
    <3>1. MappingOK(x) /\ x.alias = {} /\ ~Idle(x)  BY <2>4, <2>6 DEF Fresh, MappingOK
    <3> QED  BY <2>2, <3>1 DEF Fresh, Gone
  <2>7. CASE x # m /\ x \notin m.alias
    <3>1. /\ At(k, m.port) \notin rks /\ m.alias # {}
          /\ \A a \in m.alias : At(k, a.port) \in rks
      BY <2>1, <2>3, <2>7 DEF LeftOf
    <3>2. PICK a \in m.alias : a.port # m.port  BY <2>4, <3>1 DEF MappingOK
    <3>3. PICK rk : rk = At(k, a.port)  OBVIOUS
    <3>4. PICK mk : mk = At(k, m.port)  OBVIOUS
    <3>5. rk # mk  BY <3>2, <3>3, <3>4 DEF At
    <3>6. rk \in DOMAIN t.forwards  BY <1>1, <3>1, <3>2, <3>3
    <3>7. rk \in DOMAIN t.reverse /\ t.reverse[rk] = k
      BY <2>1, <2>3, <3>2, <3>3, SideBound DEF NatInv, Sound
    <3>8. Endpoint(t, rk) = k /\ t.byEndpoint[k] = rk
      BY <3>6, <3>7 DEF NatInv, Sound, Forwarded
    <3>9. mk \in DOMAIN t.forwards /\ Endpoint(t, mk) = k
      BY <2>1, <2>3, <3>1, <3>4 DEF NatInv, Displaced
    <3>10. t.byEndpoint[k] = mk  BY <3>9 DEF NatInv, Sound, Forwarded
    <3> QED  BY <3>5, <3>8, <3>10
  <2> QED  BY <2>5, <2>6, <2>7
<1>6. Goes(t, n)  BY <1>1, <1>2, DropLapsedGoes
<1> QED  BY <1>3, <1>4, <1>5, <1>6

LEMMA ExpireKeeps ==
    ASSUME NEW t, NatInv(t), NEW inHand, NEW n, n = Expire(t, inHand)
    PROVE  Goes(t, n) /\ NothingStale(n)
<1>1. PICK ks : ks = DOMAIN t.mappings  OBVIOUS
<1>2. PICK u : u = ExpireMappings(t, ks)  OBVIOUS
<1>3. PICK v : v = PurgeLapsed(u)  OBVIOUS
<1>4. PICK w : w = DropLapsedForwards(v)  OBVIOUS
<1>5. n = ForgetHosts(w, inHand)  BY <1>1, <1>2, <1>3, <1>4 DEF Expire
<1>6. Goes(t, u) /\ \A k \in ks \cap DOMAIN u.mappings : Fresh(u.mappings[k])
  BY <1>2, ExpireMappingsKeeps DEF Goes, Keeps
<1>7. /\ Goes(u, v) /\ v.mappings = u.mappings /\ Lapsed(v) = {}
  BY <1>3, <1>6, PurgeKeeps DEF Goes, Keeps
<1>8. \A k \in DOMAIN v.mappings : Fresh(v.mappings[k])
  BY <1>1, <1>6, <1>7 DEF Goes, Keeps, Shrinks
<1>9. /\ Goes(v, w) /\ w.expectations = v.expectations
      /\ \A rk \in DOMAIN w.forwards : ~ForwardLapsed(w, rk)
      /\ \A k \in DOMAIN w.mappings : Fresh(w.mappings[k])
  BY <1>4, <1>7, <1>8, DropLapsedForwardsFresh DEF Goes, Keeps
<1>10. SameTables(w, n)  BY <1>5, <1>9, ForgetHostsIs DEF Goes, Keeps, NatInv, Sound
<1>11. Goes(w, n)  BY <1>9, <1>10, GoesSameTables DEF Goes, Keeps
<1>12. Goes(t, n)  BY <1>6, <1>7, <1>9, <1>11, GoesOn
<1>13. Lapsed(n) = {}  BY <1>7, <1>9, <1>10 DEF SameTables, Lapsed
<1>14. \A rk \in DOMAIN n.forwards : ~ForwardLapsed(n, rk)
  BY <1>9, <1>10 DEF SameTables, SameForwards, ForwardLapsed
<1>15. \A k \in DOMAIN n.mappings : Fresh(n.mappings[k])
  BY <1>9, <1>10 DEF SameTables
<1> QED  BY <1>12, <1>13, <1>14, <1>15 DEF NothingStale, Fresh

LEMMA ReclaimGoes ==
    ASSUME NEW t, NatInv(t), NEW inHand PROVE Goes(t, Reclaim(t, inHand))
<1>1. PICK v : v = RECLAIM_INTERVAL  OBVIOUS
<1>2. PICK u : u = [t EXCEPT !.reclaim = v]  OBVIOUS
<1>3. SameTables(t, u)  BY <1>2, SameTablesIs DEF NatInv, Sound
<1>4. Goes(t, u)  BY <1>3, GoesSameTables
<1>5. PICK n : n = Expire(u, inHand)  OBVIOUS
<1>6. Goes(u, n)  BY <1>4, <1>5, ExpireKeeps DEF Goes, Keeps
<1>7. Goes(t, n)  BY <1>4, <1>6, GoesOn
<1>8. Reclaim(t, inHand) = t \/ Reclaim(t, inHand) = n
  BY <1>1, <1>2, <1>5 DEF Reclaim
<1> QED  BY <1>7, <1>8, GoesSelf

-----------------------------------------------------------------------------
(* Ports that are found free, and mappings put on them.                    *)

LEMMA LeastIs ==
    ASSUME NEW S \in SUBSET Nat, S # {} PROVE Min(S) \in S
<1>1. PICK R : /\ \E x \in S : \A y \in S : ~ (<<y, x>> \in R)
               /\ \A x, y \in Nat : y < x => <<y, x>> \in R
  <2>1. \E x \in S : \A y \in S : ~ (<<y, x>> \in OpToRel(<, Nat))
    BY NatLessThanWellFounded, WFMin
  <2>2. \A x, y \in Nat : y < x => <<y, x>> \in OpToRel(<, Nat)  BY DEF OpToRel
  <2> QED  BY <2>1, <2>2, Zenon
<1>2. PICK x \in S : \A y \in S : ~ (<<y, x>> \in R)  BY <1>1
<1>3. ASSUME NEW y \in S PROVE x <= y
  <2>1. ~ (y < x)  BY <1>1, <1>2, Zenon
  <2> QED  BY <2>1
<1> QED  BY <1>3 DEF Min

LEMMA FirstFromIs ==
    ASSUME NEW S \in SUBSET Nat, S # {}, NEW from PROVE FirstFrom(S, from) \in S
<1>1. PICK T : T = {p \in S : p >= from}  OBVIOUS
<1>2. T \in SUBSET Nat /\ T \subseteq S  BY <1>1
<1>3. FirstFrom(S, from) = IF T # {} THEN Min(T) ELSE Min(S)  BY <1>1 DEF FirstFrom
<1>4. T # {} => Min(T) \in T  BY <1>2, LeastIs
<1>5. Min(S) \in S  BY LeastIs
<1> QED  BY <1>2, <1>3, <1>4, <1>5

LEMMA PoolIs == Pool \subseteq Ports /\ Ports \subseteq Nat
BY NatAssumption DEF Pool

LEMMA ChooseIs ==
    ASSUME NEW t, NEW want \in Ports, NEW p, p = Choose(t, want)
    PROVE  p = NoPort \/ (p \in Ports /\ t.holders[p] = 0)
<1>1. PICK free : free = FreeIn(t, Pool)  OBVIOUS
<1>2. PICK same : same = {q \in free : q % 2 = want % 2}  OBVIOUS
<1>3. PICK from : from = t.nextPort  OBVIOUS
<1>4. \A q \in free : q \in Ports /\ t.holders[q] = 0  BY <1>1, PoolIs DEF FreeIn
<1>5. same \subseteq free  BY <1>2
<1>6. free \in SUBSET Nat /\ same \in SUBSET Nat  BY <1>4, <1>5, PoolIs
<1>7. same # {} => FirstFrom(same, from) \in free  BY <1>5, <1>6, FirstFromIs
<1>8. free # {} => FirstFrom(free, from) \in free  BY <1>6, FirstFromIs
<1>9. \/ p = want /\ t.holders[want] = 0
      \/ same # {} /\ p = FirstFrom(same, from)
      \/ free # {} /\ p = FirstFrom(free, from)
      \/ p = NoPort
  BY <1>1, <1>2, <1>3 DEF Choose
<1> QED  BY <1>4, <1>7, <1>8, <1>9

LEMMA ChoosingIs ==
    ASSUME NEW t, NatInv(t), NEW want \in Ports, NEW a, a = Choosing(t, want)
    PROVE  /\ Goes(t, a.t)
           /\ a.port = NoPort \/ (a.port \in Ports /\ Unused(a.t, a.port))
<1>1. PICK p : p = Choose(t, want)  OBVIOUS
<1>2. a.port = p /\ (a.t = t \/ \E v : a.t = [t EXCEPT !.nextPort = v])
  BY <1>1 DEF Choosing, PortTaken
<1>3. SameTables(t, a.t)
  <2>1. CASE a.t = t  BY <2>1 DEF SameTables, SameForwards, NatInv, Sound
  <2>2. ASSUME NEW v, a.t = [t EXCEPT !.nextPort = v] PROVE SameTables(t, a.t)
    <3>1. SameTables(t, [t EXCEPT !.nextPort = v])  BY SameTablesIs DEF NatInv, Sound
    <3> QED  BY <2>2, <3>1
  <2> QED  BY <1>2, <2>1, <2>2
<1>4. Goes(t, a.t)  BY <1>3, GoesSameTables
<1>5. p = NoPort \/ (p \in Ports /\ t.holders[p] = 0)  BY <1>1, ChooseIs
<1>6. CASE p = NoPort  BY <1>2, <1>4, <1>6
<1>7. CASE p \in Ports /\ t.holders[p] = 0
  <2>1. Unused(t, p)  BY <1>7, FreeIsUnused DEF NatInv, Sound
  <2>2. Unused(a.t, p)  BY <1>3, <2>1 DEF SameTables, SameForwards, Unused
  <2> QED  BY <1>2, <1>4, <1>7, <2>2
<1> QED  BY <1>5, <1>6, <1>7

LEMMA AllocPortIs ==
    ASSUME NEW t, NatInv(t), NEW want \in Ports, NEW inHand,
           NEW a, a = AllocPort(t, want, inHand)
    PROVE  /\ Goes(t, a.t)
           /\ a.port = NoPort \/ (a.port \in Ports /\ Unused(a.t, a.port))
<1>1. PICK u : u = PurgeLapsed(t)  OBVIOUS
<1>2. PICK v : v = ReclaimFor(u, want, inHand)  OBVIOUS
<1>3. a = Choosing(v, want)  BY <1>1, <1>2 DEF AllocPort
<1>4. Goes(t, u)  BY <1>1, PurgeKeeps DEF Goes, Keeps
<1>5. Goes(u, v)
  <2>1. NatInv(u)  BY <1>4 DEF Goes, Keeps
  <2>2. v = u \/ v = Reclaim(u, inHand)  BY <1>2 DEF ReclaimFor
  <2> QED  BY <2>1, <2>2, ReclaimGoes, GoesSelf
<1>6. /\ Goes(v, a.t)
      /\ a.port = NoPort \/ (a.port \in Ports /\ Unused(a.t, a.port))
  BY <1>3, <1>5, ChoosingIs DEF Goes, Keeps
<1> QED  BY <1>4, <1>5, <1>6, GoesOn

LEMMA AllocPairIs ==
    ASSUME NEW t, NatInv(t), NEW a, a = AllocPair(t)
    PROVE  /\ Goes(t, a.t)
           /\ \/ a.port = NoPort
              \/ /\ {a.port, a.port + 1} \subseteq Ports
                 /\ Unused(a.t, a.port) /\ Unused(a.t, a.port + 1)
<1>1. PICK u : u = PurgeLapsed(t)  OBVIOUS
<1>2. PICK v : v = IF FreePairs(u) = {} THEN Reclaim(u, {}) ELSE u  OBVIOUS
<1>3. PICK pairs : pairs = FreePairs(v)  OBVIOUS
<1>4. a = PairTaken(v, pairs)  BY <1>1, <1>2, <1>3 DEF AllocPair, ChoosingPair
<1>5. Goes(t, u)  BY <1>1, PurgeKeeps DEF Goes, Keeps
<1>6. Goes(u, v)
  <2>1. NatInv(u)  BY <1>5 DEF Goes, Keeps
  <2>2. PICK none : none = {}  OBVIOUS
  <2>3. v = u \/ v = Reclaim(u, none)  BY <1>2, <2>2
  <2> QED  BY <2>1, <2>3, ReclaimGoes, GoesSelf
<1>7. Goes(t, v) /\ NatInv(v)  BY <1>5, <1>6, GoesOn DEF Goes, Keeps
<1>8. CASE pairs = {}
  <2>1. a.port = NoPort /\ a.t = v  BY <1>4, <1>8 DEF PairTaken
  <2> QED  BY <1>7, <2>1
<1>9. CASE pairs # {}
  <2>1. PICK from : from = v.nextPort  OBVIOUS
  <2>2. PICK p : p = FirstFrom(pairs, from)  OBVIOUS
  <2>3. PICK next : next = After(p + 1)  OBVIOUS
  <2>4. a.port = p /\ a.t = [v EXCEPT !.nextPort = next]
    BY <1>4, <1>9, <2>1, <2>2, <2>3 DEF PairTaken
  <2>5. pairs \in SUBSET Nat  BY <1>3, PoolIs DEF FreePairs
  <2>6. p \in pairs  BY <1>9, <2>2, <2>5, FirstFromIs
  <2>7. /\ p \in Ports /\ p + 1 \in Ports
        /\ v.holders[p] = 0 /\ v.holders[p + 1] = 0
    BY <1>3, <2>6, PoolIs DEF FreePairs, FreeIn
  <2>8. Unused(v, p) /\ Unused(v, p + 1)  BY <1>7, <2>7, FreeIsUnused DEF NatInv, Sound
  <2>9. SameTables(v, a.t)
    <3>1. SameTables(v, [v EXCEPT !.nextPort = next])
      BY <1>7, SameTablesIs DEF NatInv, Sound
    <3> QED  BY <2>4, <3>1
  <2>10. Unused(a.t, p) /\ Unused(a.t, p + 1)
    BY <2>8, <2>9 DEF SameTables, SameForwards, Unused
  <2>11. Goes(t, a.t)  BY <1>7, <2>9, GoesSameTables, GoesOn
  <2> QED  BY <2>4, <2>7, <2>10, <2>11
<1> QED  BY <1>8, <1>9

LEMMA WithHostIs ==
    ASSUME NEW t, Rec(t), NEW h, NEW force PROVE SameTables(t, WithHost(t, h, force))
<1>1. \E v : WithHost(t, h, force) = [t EXCEPT !.hosts = v]
  <2>1. PICK held : held = t.hosts \cap HostsHolding(t, {})  OBVIOUS
  <2>2. \/ WithHost(t, h, force) = [t EXCEPT !.hosts = t.hosts \cup {h}]
        \/ WithHost(t, h, force) = [t EXCEPT !.hosts = held \cup {h}]
        \/ WithHost(t, h, force) = [t EXCEPT !.hosts = held]
    BY <2>1 DEF WithHost
  <2> QED  BY <2>2
<1>2. PICK v : WithHost(t, h, force) = [t EXCEPT !.hosts = v]  BY <1>1
<1>3. SameTables(t, [t EXCEPT !.hosts = v])  BY SameTablesIs
<1> QED  BY <1>2, <1>3

(* u is t with some ports unbound, of mappings that are still there.       *)
Trimmed(t, u, out) ==
    /\ Rec(u) /\ Counted(u) /\ SameForwards(t, u)
    /\ u.mappings = t.mappings /\ u.expectations = t.expectations
    /\ DOMAIN u.reverse = DOMAIN t.reverse \ out
    /\ \A x \in DOMAIN u.reverse : u.reverse[x] = t.reverse[x]

LEMMA TrimmedIs ==
    ASSUME NEW t, NatInv(t), NEW v, SameTables(t, v)
    PROVE  Trimmed(t, v, {}) /\ \A out : Trimmed(t, Unbind(v, out), out)
<1>1. Rec(v) /\ Counted(v)  BY SameCounted DEF SameTables, SameForwards, NatInv, Sound
<1>2. Trimmed(t, v, {})  BY <1>1 DEF Trimmed, SameTables
<1>3. ASSUME NEW out PROVE Trimmed(t, Unbind(v, out), out)
  <2>1. PICK u : u = Unbind(v, out)  OBVIOUS
  <2>2. Unbinds(v, u, out)  BY <1>1, <2>1, UnbindIs
  <2>3. Counted(u)  BY <1>1, <2>2, UnbindCounted
  <2>4. u.reverse = Without(t.reverse, out)  BY <2>2 DEF Unbinds, SameTables
  <2>5. /\ DOMAIN u.reverse = DOMAIN t.reverse \ out
        /\ \A x \in DOMAIN u.reverse : u.reverse[x] = t.reverse[x]
    BY <2>4 DEF Without, Restrict
  <2>6. Trimmed(t, u, out)
    BY <2>2, <2>3, <2>5 DEF Trimmed, Unbinds, SameTables, SameForwards
  <2> QED  BY <2>1, <2>6
<1> QED  BY <1>2, <1>3

(* Endpoint k may be given mapping m, on a port that is not bound; of its  *)
(* own ports only those on out are given up, and m has displaced the rest. *)
MayMap(t, out, k, m) ==
    /\ k \in Keys /\ MappingOK(m) /\ At(k, m.port) \notin DOMAIN t.reverse
    /\ \A x \in out \cap DOMAIN t.reverse : t.reverse[x] = k
    /\ \A x \in DOMAIN t.reverse \ out :
          t.reverse[x] = k => \E a \in m.alias : x = At(k, a.port)
    /\ \A a \in m.alias : /\ At(k, a.port) \in DOMAIN t.reverse \ out
                          /\ t.reverse[At(k, a.port)] = k
    /\ m.alias # {} => At(k, m.port) \in DOMAIN t.forwards
    /\ At(k, m.port) \in DOMAIN t.forwards => Endpoint(t, At(k, m.port)) = k
    /\ \A e \in Live(t) :
          Rk(e) = At(k, m.port) /\ Reserves(e, shared) => e.target = k

LEMMA MapKeeps ==
    ASSUME NEW t, NatInv(t), NEW out, NEW u, Trimmed(t, u, out), NEW k, NEW m,
           MayMap(t, out, k, m), NEW n, n = Map(u, k, m)
    PROVE  /\ NatInv(n) /\ n.forwards = t.forwards /\ n.expectations = t.expectations
           /\ n.mappings = Put(t.mappings, k, m)
           /\ DOMAIN n.reverse = (DOMAIN t.reverse \ out) \cup {At(k, m.port)}
<1>1. PICK rk : rk = At(k, m.port)  OBVIOUS
<1>2. PICK v : v = Bind(u, rk, k)  OBVIOUS
<1>3. Binds(u, v, rk, k)  BY <1>2, BindIs DEF Trimmed
<1>4. k \in Keys /\ MappingOK(m) /\ m.port \in Ports
  BY DEF MayMap, MappingOK, Side
<1>5. rk \in Rks  BY <1>1, <1>4, NatAssumption DEF At, Rks
<1>6. Counted(v)  BY <1>3, <1>5, BindCounted DEF Trimmed
<1>7. PICK ms : ms = Put(t.mappings, k, m)  OBVIOUS
<1>8. n = [v EXCEPT !.mappings = ms]
  <2>1. v.mappings = t.mappings  BY <1>3 DEF Binds, Trimmed
  <2> QED  BY <1>1, <1>2, <1>7, <2>1 DEF Map
<1>9. Remapped(v, n, ms)  BY <1>3, <1>8, RemappedIs DEF Binds
<1>10. /\ Rec(n) /\ SameForwards(t, n) /\ n.expectations = t.expectations
       /\ n.mappings = ms /\ n.reverse = Put(u.reverse, rk, k)
  BY <1>3, <1>9 DEF Remapped, Binds, Trimmed, SameForwards
<1>11. Counted(n)  BY <1>6, <1>9, SameCounted DEF Remapped, SameForwards
<1>12. rk \notin DOMAIN t.reverse  BY <1>1 DEF MayMap
<1>13. /\ DOMAIN n.reverse = (DOMAIN t.reverse \ out) \cup {rk} /\ n.reverse[rk] = k
       /\ \A x \in DOMAIN t.reverse \ out : n.reverse[x] = t.reverse[x]
  BY <1>10, <1>12 DEF Put, Trimmed
<1>14. /\ DOMAIN n.mappings = DOMAIN t.mappings \cup {k} /\ n.mappings[k] = m
       /\ \A j \in DOMAIN t.mappings : j # k => n.mappings[j] = t.mappings[j]
  BY <1>7, <1>10 DEF Put
<1>15. Agree(t) /\ MappingsOK(t) /\ Forwarded(t) /\ Expecting(t)  BY DEF NatInv, Sound
<1>16. MappingsOK(n)  BY <1>4, <1>14, <1>15 DEF MappingsOK
<1>17. ASSUME NEW x \in DOMAIN n.reverse
       PROVE  /\ n.reverse[x] \in DOMAIN n.mappings
              /\ \E s \in {n.mappings[n.reverse[x]]} \cup n.mappings[n.reverse[x]].alias :
                   x = At(n.reverse[x], s.port)
  <2>1. CASE x = rk  BY <1>1, <1>13, <1>14, <2>1
  <2>2. CASE x # rk /\ n.reverse[x] = k
    <3>1. x \in DOMAIN t.reverse \ out /\ t.reverse[x] = k  BY <1>13, <2>2
    <3>2. \E a \in m.alias : x = At(k, a.port)  BY <3>1 DEF MayMap
    <3> QED  BY <1>14, <2>2, <3>2
  <2>3. CASE x # rk /\ n.reverse[x] # k
    <3>1. x \in DOMAIN t.reverse \ out /\ n.reverse[x] = t.reverse[x]  BY <1>13, <2>3
    <3>2. PICK j : j = t.reverse[x]  OBVIOUS
    <3>3. /\ j \in DOMAIN t.mappings
          /\ \E s \in {t.mappings[j]} \cup t.mappings[j].alias : x = At(j, s.port)
      BY <1>15, <3>1, <3>2, BoundSide
    <3> QED  BY <1>14, <2>3, <3>1, <3>2, <3>3
  <2> QED  BY <2>1, <2>2, <2>3
<1>18. ASSUME NEW j \in DOMAIN n.mappings,
              NEW s \in {n.mappings[j]} \cup n.mappings[j].alias
       PROVE  At(j, s.port) \in DOMAIN n.reverse /\ n.reverse[At(j, s.port)] = j
  <2>1. CASE j = k
    <3>1. CASE s = m  BY <1>1, <1>13, <2>1, <3>1
    <3>2. CASE s \in m.alias
      <4>1. At(k, s.port) \in DOMAIN t.reverse \ out /\ t.reverse[At(k, s.port)] = k
        BY <3>2 DEF MayMap
      <4> QED  BY <1>13, <2>1, <4>1
    <3> QED  BY <1>14, <2>1, <3>1, <3>2
  <2>2. CASE j # k
    <3>1. j \in DOMAIN t.mappings /\ n.mappings[j] = t.mappings[j]  BY <1>14, <2>2
    <3>2. PICK x : x = At(j, s.port)  OBVIOUS
    <3>3. x \in DOMAIN t.reverse /\ t.reverse[x] = j  BY <1>15, <3>1, <3>2, SideBound
    <3>4. x \notin out  BY <2>2, <3>3 DEF MayMap
    <3> QED  BY <1>13, <3>2, <3>3, <3>4
  <2> QED  BY <2>1, <2>2
<1>19. Agree(n)  BY <1>17, <1>18, AgreeIs
<1>20. n.forwards = t.forwards /\ n.byEndpoint = t.byEndpoint
  BY <1>10 DEF SameForwards
<1>21. \A x : Endpoint(n, x) = Endpoint(t, x)  BY <1>20 DEF Endpoint
<1>22. ASSUME NEW x \in DOMAIN n.reverse, x # rk
       PROVE  x \in DOMAIN t.reverse /\ n.reverse[x] = t.reverse[x]
  BY <1>13, <1>22
<1>23. rk \in DOMAIN t.forwards => Endpoint(t, rk) = k  BY <1>1 DEF MayMap
<1>24. Forwarded(n)
  <2>1. ASSUME NEW x \in DOMAIN t.forwards, x \in DOMAIN n.reverse
        PROVE  n.reverse[x] = Endpoint(t, x)
    <3>1. CASE x = rk  BY <1>13, <1>23, <2>1, <3>1
    <3>2. CASE x # rk  BY <1>15, <1>22, <2>1, <3>2 DEF Forwarded
    <3> QED  BY <3>1, <3>2
  <2> QED  BY <1>15, <1>20, <1>21, <2>1 DEF Forwarded
<1>25. Live(n) = Live(t)  BY <1>10 DEF Live, Lapsed
<1>26. Expecting(n)
  <2>1. ASSUME NEW e \in Live(t), Reserves(e, shared), Rk(e) \in DOMAIN n.reverse
        PROVE  n.reverse[Rk(e)] = e.target
    <3>1. CASE Rk(e) = rk  BY <1>1, <1>13, <2>1, <3>1 DEF MayMap
    <3>2. CASE Rk(e) # rk  BY <1>15, <1>22, <2>1, <3>2 DEF Expecting, ExpectingBut
    <3> QED  BY <3>1, <3>2
  <2> QED  BY <1>10, <1>15, <1>20, <1>25, <2>1 DEF Expecting, ExpectingBut
<1>27. Displaced(n, {})
  <2>1. SUFFICES ASSUME NEW j \in DOMAIN n.mappings, n.mappings[j].alias # {}
                 PROVE  /\ At(j, n.mappings[j].port) \in DOMAIN n.forwards
                        /\ Endpoint(n, At(j, n.mappings[j].port)) = j
    BY DEF Displaced
  <2>2. CASE j = k  BY <1>1, <1>14, <1>20, <1>21, <1>23, <2>1, <2>2 DEF MayMap
  <2>3. CASE j # k
    <3>1. j \in DOMAIN t.mappings /\ n.mappings[j] = t.mappings[j]  BY <1>14, <2>3
    <3> QED  BY <1>20, <1>21, <2>1, <3>1 DEF NatInv, Displaced
  <2> QED  BY <2>2, <2>3
<1>28. NatInv(n)
  BY <1>10, <1>11, <1>16, <1>19, <1>24, <1>26, <1>27 DEF NatInv, Sound
<1> QED  BY <1>1, <1>7, <1>10, <1>13, <1>20, <1>28

(* A port that is free for a new mapping of k.                             *)
FreeFor(t, k, p) ==
    /\ k \in Keys /\ p \in Ports /\ At(k, p) \notin DOMAIN t.reverse
    /\ At(k, p) \in DOMAIN t.forwards => Endpoint(t, At(k, p)) = k
    /\ \A e \in Live(t) : Rk(e) = At(k, p) /\ Reserves(e, shared) => e.target = k

LEMMA MappingIs ==
    ASSUME NEW k, NEW p \in Ports, NEW open, NEW m, m = Mapping(k, p, open)
    PROVE  MappingOK(m) /\ m.port = p /\ m.alias = {}
BY DEF Mapping, MappingOK, Side

LEMMA UnusedIsFree ==
    ASSUME NEW t, NEW k \in Keys, NEW p \in Ports, Unused(t, p) PROVE FreeFor(t, k, p)
<1>1. At(k, p)[2] = p  BY DEF At
<1>2. At(k, p) \notin DOMAIN t.reverse /\ At(k, p) \notin DOMAIN t.forwards
  BY <1>1 DEF Unused
<1>3. \A e \in Live(t) : e.port # p  BY DEF Unused, Live
<1>4. \A e \in Live(t) : Rk(e) # At(k, p)  BY <1>3 DEF Rk, At
<1> QED  BY <1>2, <1>4 DEF FreeFor

LEMMA NewMapKeeps ==
    ASSUME NEW t, NatInv(t), NEW k \in Keys, k \notin DOMAIN t.mappings,
           NEW p, FreeFor(t, k, p), NEW open, NEW u, SameTables(t, u),
           NEW n, n = Map(u, k, Mapping(k, p, open))
    PROVE  /\ Keeps(t, n) /\ DOMAIN n.mappings = DOMAIN t.mappings \cup {k}
           /\ DOMAIN n.reverse = DOMAIN t.reverse \cup {At(k, p)}
           /\ n.forwards = t.forwards /\ n.expectations = t.expectations
<1>1. PICK m : m = Mapping(k, p, open)  OBVIOUS
<1>2. MappingOK(m) /\ m.port = p /\ m.alias = {}  BY <1>1, MappingIs DEF FreeFor
<1>3. PICK out : out = {}  OBVIOUS
<1>4. Trimmed(t, u, out)  BY <1>3, TrimmedIs
<1>5. \A x \in DOMAIN t.reverse : t.reverse[x] # k  BY DEF NatInv, Sound, Agree
<1>6. MayMap(t, out, k, m)  BY <1>2, <1>3, <1>5 DEF MayMap, FreeFor
<1>7. n = Map(u, k, m)  BY <1>1
<1>8. /\ NatInv(n) /\ n.forwards = t.forwards /\ n.expectations = t.expectations
      /\ n.mappings = Put(t.mappings, k, m)
      /\ DOMAIN n.reverse = (DOMAIN t.reverse \ out) \cup {At(k, m.port)}
  BY <1>4, <1>6, <1>7, MapKeeps
<1>9. DOMAIN n.mappings = DOMAIN t.mappings \cup {k}  BY <1>8 DEF Put
<1>10. Spares(t, n)
  <2>1. \A j \in DOMAIN t.mappings : n.mappings[j] = t.mappings[j]  BY <1>8 DEF Put
  <2> QED  BY <1>8, <1>9, <2>1, SparesMapped DEF LivesOn
<1> QED  BY <1>2, <1>3, <1>8, <1>9, <1>10 DEF Keeps

LEMMA MapNewKeeps ==
    ASSUME NEW t, NatInv(t), NEW k \in Keys, k \notin DOMAIN t.mappings
    PROVE  Keeps(t, MapNew(t, k))
<1>1. PICK want : want = k.port  OBVIOUS
<1>2. want \in Ports  BY <1>1, NatAssumption
<1>3. PICK inHand : inHand = {HostOf(k)}  OBVIOUS
<1>4. PICK a : a = AllocPort(t, want, inHand)  OBVIOUS
<1>5. /\ Goes(t, a.t)
      /\ a.port = NoPort \/ (a.port \in Ports /\ Unused(a.t, a.port))
  BY <1>2, <1>4, AllocPortIs
<1>6. MapNew(t, k) = IF Granted(t, k, 1) THEN MapAt(a, k) ELSE t
  BY <1>1, <1>3, <1>4 DEF MapNew
<1>7. Keeps(t, MapAt(a, k))
  <2>1. CASE a.port = NoPort
    <3>1. MapAt(a, k) = a.t  BY <2>1 DEF MapAt
    <3> QED  BY <1>5, <3>1 DEF Goes, Keeps
  <2>2. CASE a.port # NoPort
    <3>1. PICK p : p = a.port  OBVIOUS
    <3>2. PICK u : u = a.t  OBVIOUS
    <3>3. PICK n : n = Map(u, k, Mapping(k, p, FALSE))  OBVIOUS
    <3>4. MapAt(a, k) = n  BY <2>2, <3>1, <3>2, <3>3 DEF MapAt
    <3>5. NatInv(u) /\ k \notin DOMAIN u.mappings  BY <1>5, <3>2 DEF Goes, Keeps, Shrinks
    <3>6. FreeFor(u, k, p)  BY <1>5, <2>2, <3>1, <3>2, UnusedIsFree
    <3>7. SameTables(u, u)  BY <3>5 DEF SameTables, SameForwards, NatInv, Sound
    <3>8. Keeps(u, n)  BY <3>3, <3>5, <3>6, <3>7, NewMapKeeps
    <3>9. Keeps(t, n)  BY <1>5, <3>2, <3>8, KeepsOn DEF Goes
    <3> QED  BY <3>4, <3>9
  <2> QED  BY <2>1, <2>2
<1> QED  BY <1>6, <1>7, GoesSelf DEF Goes

LEMMA ForwardPortIs ==
    ASSUME NEW t, NatInv(t), NEW k \in Keys, ForwardPortFor(t, k) # NoPort
    PROVE  /\ FreeFor(t, k, ForwardPortFor(t, k))
           /\ At(k, ForwardPortFor(t, k)) \in DOMAIN t.forwards
<1>1. PICK rk : rk = t.byEndpoint[k]  OBVIOUS
<1>2. /\ k \in DOMAIN t.byEndpoint /\ rk \in DOMAIN t.forwards
      /\ rk \notin DOMAIN t.reverse /\ ForwardPortFor(t, k) = rk[2]
  BY <1>1 DEF ForwardPortFor
<1>3. Endpoint(t, rk) = k  BY <1>1, <1>2 DEF NatInv, Sound, Forwarded
<1>4. At(k, rk[2]) = rk  BY <1>2, <1>3 DEF NatInv, Sound, Forwarded
<1>5. rk[2] \in Ports  BY <1>2 DEF NatInv, Sound, Counted, Rks
<1>6. \A e \in Live(t) : Rk(e) # rk  BY <1>2 DEF NatInv, Sound, Expecting, ExpectingBut
<1> QED  BY <1>2, <1>3, <1>4, <1>5, <1>6 DEF FreeFor

LEMMA GetOrCreateKeeps ==
    ASSUME NEW t, NatInv(t), NEW k \in Keys PROVE Keeps(t, GetOrCreate(t, k))
<1>1. PICK n : n = GetOrCreate(t, k)  OBVIOUS
<1>2. CASE k \in DOMAIN t.mappings
  <2>1. PICK m : m = t.mappings[k]  OBVIOUS
  <2>2. PICK v : v = TIMEOUT[k.proto]  OBVIOUS
  <2>3. PICK x : x = [m EXCEPT !.left = v]  OBVIOUS
  <2>4. MappingOK(m) /\ Side(m)  BY <1>2, <2>1 DEF NatInv, Sound, MappingsOK, MappingOK
  <2>5. Same(m, x)  BY <2>3, <2>4, SideSet, AlikeSame
  <2>6. n = [t EXCEPT !.mappings[k] = x]
    BY <1>1, <1>2, <2>1, <2>2, <2>3 DEF GetOrCreate
  <2>7. /\ x.peers = m.peers /\ x.port = m.port /\ x.alias = m.alias
    BY <2>3, <2>4 DEF Side
  <2>8. Goes(t, n)  BY <1>2, <2>1, <2>5, <2>6, <2>7, SameSessions
  <2> QED  BY <1>1, <2>8 DEF Goes
<1>3. CASE k \notin DOMAIN t.mappings /\ ForwardPortFor(t, k) # NoPort
  <2>1. PICK p : p = ForwardPortFor(t, k)  OBVIOUS
  <2>2. PICK u : u = WithHost(t, HostOf(k), TRUE)  OBVIOUS
  <2>3. n = Map(u, k, Mapping(k, p, TRUE))  BY <1>1, <1>3, <2>1, <2>2 DEF GetOrCreate
  <2>4. SameTables(t, u)  BY <2>2, WithHostIs DEF NatInv, Sound
  <2>5. FreeFor(t, k, p)  BY <1>3, <2>1, ForwardPortIs
  <2>6. Keeps(t, n)  BY <1>3, <2>3, <2>4, <2>5, NewMapKeeps
  <2> QED  BY <1>1, <2>6
<1>4. CASE k \notin DOMAIN t.mappings /\ ForwardPortFor(t, k) = NoPort
  <2>1. PICK u : u = WithHost(t, HostOf(k), FALSE)  OBVIOUS
  <2>2. n = MapNew(u, k)  BY <1>1, <1>4, <2>1 DEF GetOrCreate
  <2>3. SameTables(t, u)  BY <2>1, WithHostIs DEF NatInv, Sound
  <2>4. Keeps(t, u) /\ NatInv(u) /\ k \notin DOMAIN u.mappings
    BY <1>4, <2>3, GoesSameTables DEF Goes, Keeps, Shrinks
  <2>5. Keeps(t, n)  BY <2>2, <2>4, MapNewKeeps, KeepsOn
  <2> QED  BY <1>1, <2>5
<1> QED  BY <1>2, <1>3, <1>4

LEMMA InstallKeeps ==
    ASSUME NEW t, NatInv(t), NEW k \in Keys, NEW rk, rk = At(k, rk[2]),
           FreeFor(t, k, rk[2]), NEW open,
           k \in DOMAIN t.mappings => rk \in DOMAIN t.forwards,
           NEW n, n = Install(t, k, rk, open)
    PROVE  Keeps(t, n) /\ k \in DOMAIN n.mappings
<1>1. PICK u : u = WithHost(t, HostOf(k), TRUE)  OBVIOUS
<1>2. SameTables(t, u)  BY <1>1, WithHostIs DEF NatInv, Sound
<1>3. PICK p : p = rk[2]  OBVIOUS
<1>4. PICK m : m = Mapping(k, p, open)  OBVIOUS
<1>5. MappingOK(m) /\ m.port = p /\ m.alias = {}
  BY <1>3, <1>4, MappingIs DEF FreeFor
<1>6. CASE k \notin DOMAIN t.mappings
  <2>1. n = Map(u, k, Mapping(k, p, open))  BY <1>1, <1>3, <1>6 DEF Install
  <2>2. FreeFor(t, k, p)  BY <1>3
  <2> QED  BY <1>2, <1>6, <2>1, <2>2, NewMapKeeps
<1>7. CASE k \in DOMAIN t.mappings
  <2>1. PICK old : old = t.mappings[k]  OBVIOUS
  <2>2. PICK older : older = {At(k, a.port) : a \in old.alias}  OBVIOUS
  <2>3. PICK kept : kept = Pruned(old)  OBVIOUS
  <2>4. MappingOK(old) /\ Side(old)
    BY <1>7, <2>1 DEF NatInv, Sound, MappingsOK, MappingOK
  <2>5. Agree(t)  BY DEF NatInv, Sound
  <2>6. ASSUME NEW x \in DOMAIN t.reverse, t.reverse[x] = k
        PROVE  x \in older \/ x = At(k, old.port)
    BY <2>1, <2>2, <2>5, <2>6, BoundSide
  <2>7. At(k, old.port) \in DOMAIN t.reverse /\ t.reverse[At(k, old.port)] = k
    BY <1>7, <2>1, <2>5, SideBound
  <2>8. old.alias = {}
    <3>1. SUFFICES ASSUME old.alias # {} PROVE FALSE  OBVIOUS
    <3>2. PICK x : x = At(k, old.port)  OBVIOUS
    <3>3. x \in DOMAIN t.forwards /\ Endpoint(t, x) = k
      BY <1>7, <2>1, <3>1, <3>2 DEF NatInv, Displaced
    <3>4. rk \in DOMAIN t.forwards /\ Endpoint(t, rk) = k  BY <1>7 DEF FreeFor
    <3>5. x = rk  BY <3>3, <3>4 DEF NatInv, Sound, Forwarded
    <3> QED  BY <2>7, <3>2, <3>5 DEF FreeFor
  <2>9. CASE DOMAIN kept.peers = {}
    <3>1. PICK out : out = {x \in (older \cup {At(k, old.port)}) \cap DOMAIN t.reverse :
                              t.reverse[x] = k}
      OBVIOUS
    <3>2. n = Map(Unbind(u, out), k, m)
      BY <1>1, <1>3, <1>4, <1>7, <2>1, <2>2, <2>3, <2>9, <3>1 DEF Install
    <3>3. PICK v : v = Unbind(u, out)  OBVIOUS
    <3>4. Trimmed(t, v, out)  BY <1>2, <3>3, TrimmedIs
    <3>5. /\ \A x \in out \cap DOMAIN t.reverse : t.reverse[x] = k
          /\ \A x \in DOMAIN t.reverse \ out : t.reverse[x] # k
      BY <2>6, <3>1
    <3>6. MayMap(t, out, k, m)  BY <1>3, <1>5, <3>5 DEF MayMap, FreeFor
    <3>7. NatInv(n) /\ n.forwards = t.forwards /\ n.mappings = Put(t.mappings, k, m)
      BY <3>2, <3>3, <3>4, <3>6, MapKeeps
    <3>8. \A r, q : ~Lives(old, r, q)
      <4>1. LivePeers(old) = {}
        BY <2>3, <2>4, <2>9, PrunedIs DEF Restrict
      <4> QED  BY <2>8, <4>1 DEF Lives
    <3>9. LivesOn(old, m)  BY <3>8 DEF LivesOn
    <3>10. LivesOn(t.mappings[k], m)  BY <2>1, <3>9
    <3>11. Spares(t, n)  BY <1>7, <3>7, <3>10, SparesPut
    <3> QED  BY <3>7, <3>11 DEF Put, Keeps
  <2>10. CASE DOMAIN kept.peers # {}
    <3>1. PICK out : out = {x \in older \cap DOMAIN t.reverse : t.reverse[x] = k}
      OBVIOUS
    <3>2. PICK a : a = [kept EXCEPT !.alias = {}]  OBVIOUS
    <3>3. PICK as : as = {a}  OBVIOUS
    <3>4. PICK x : x = [m EXCEPT !.alias = as]  OBVIOUS
    <3>5. n = Map(Unbind(u, out), k, x)
      BY <1>1, <1>3, <1>4, <1>7, <2>1, <2>2, <2>3, <2>10, <3>1, <3>2, <3>3, <3>4
      DEF Install
    <3>6. Side(kept) /\ kept.port = old.port  BY <2>3, <2>4, PrunedIs DEF Alike
    <3>7. PICK none : none = {}  OBVIOUS
    <3>8. Side(a) /\ a.port = old.port /\ a.alias = {}
      BY <3>2, <3>6, <3>7, AliasSet
    <3>9. Side(x) /\ x.port = p /\ x.alias = as
      BY <1>5, <3>4, AliasSet DEF MappingOK
    <3>10. old.port # p  BY <1>3, <2>7 DEF FreeFor
    <3>11. MappingOK(x)  BY <3>3, <3>8, <3>9, <3>10 DEF MappingOK
    <3>12. \A b \in old.alias : b.port # old.port  BY <2>4 DEF MappingOK
    <3>13. At(k, old.port) \notin older  BY <2>2, <3>12 DEF At
    <3>14. PICK v : v = Unbind(u, out)  OBVIOUS
    <3>15. Trimmed(t, v, out)  BY <1>2, <3>14, TrimmedIs
    <3>16. MayMap(t, out, k, x)
      <4>1. \A y \in out \cap DOMAIN t.reverse : t.reverse[y] = k  BY <3>1
      <4>2. \A y \in DOMAIN t.reverse \ out :
              t.reverse[y] = k => \E b \in x.alias : y = At(k, b.port)
        BY <2>6, <3>1, <3>3, <3>8, <3>9
      <4>3. \A b \in x.alias : /\ At(k, b.port) \in DOMAIN t.reverse \ out
                               /\ t.reverse[At(k, b.port)] = k
        BY <2>7, <3>1, <3>3, <3>8, <3>9, <3>13
      <4>4. rk \in DOMAIN t.forwards /\ rk = At(k, x.port)  BY <1>3, <1>7, <3>9
      <4> QED  BY <1>3, <3>9, <3>11, <4>1, <4>2, <4>3, <4>4 DEF MayMap, FreeFor
    <3>17. NatInv(n) /\ n.forwards = t.forwards /\ n.mappings = Put(t.mappings, k, x)
      BY <3>5, <3>14, <3>15, <3>16, MapKeeps
    <3>18. LivesOn(old, x)
      <4>1. LivePeers(kept) = LivePeers(old)  BY <2>3, <2>4, PrunedIs
      <4>2. a.peers = kept.peers  BY <3>2, <3>6, <3>7, AliasSet
      <4>3. LivePeers(a) = LivePeers(old)  BY <4>1, <4>2 DEF LivePeers
      <4>4. ASSUME NEW r, NEW q, Lives(old, r, q) PROVE Lives(x, r, q)
        <5>1. r \in LivePeers(old) /\ old.port = q  BY <2>8, <4>4 DEF Lives
        <5>2. r \in LivePeers(a)  BY <4>3, <5>1
        <5> QED  BY <3>3, <3>8, <3>9, <5>1, <5>2 DEF Lives
      <4> QED  BY <4>4 DEF LivesOn
    <3>19. LivesOn(t.mappings[k], x)  BY <2>1, <3>18
    <3>20. Spares(t, n)  BY <1>7, <3>17, <3>19, SparesPut
    <3> QED  BY <3>17, <3>20 DEF Put, Keeps
  <2> QED  BY <2>9, <2>10
<1> QED  BY <1>6, <1>7

-----------------------------------------------------------------------------
(* Packets.                                                                *)

(* x is side s after a packet of remote r was noted on it: the remotes     *)
(* that were live still are.                                               *)
Noted(s, x, r) ==
    /\ Alike(s, x) /\ LivePeers(s) \subseteq LivePeers(x)
    /\ DOMAIN s.peers \subseteq DOMAIN x.peers
    /\ DOMAIN x.peers \subseteq DOMAIN s.peers \cup {r}

LEMMA NoteNoted ==
    ASSUME NEW s, Side(s), NEW t, NEW k \in Keys, NEW r, NEW out, NEW flags,
           NEW x, x = Note(t, k, s, r, out, flags)
    PROVE  Noted(s, x, r)
<1>1. Alike(s, x)  BY NoteIs
<1>2. CASE x = s  BY <1>1, <1>2 DEF Noted
<1>3. ASSUME NEW st, x = [s EXCEPT !.peers =
                            Put(@, r, [left |-> PeerTimeout(k.proto, st), st |-> st])]
      PROVE  Noted(s, x, r)
  <2>1. PICK left : left = PeerTimeout(k.proto, st)  OBVIOUS
  <2>2. left \in Int /\ left >= 0
    BY <2>1, NatAssumption DEF PeerTimeout
  <2>3. PICK v : v = [left |-> left, st |-> st]  OBVIOUS
  <2>4. PICK ps : ps = Put(s.peers, r, v)  OBVIOUS
  <2>5. x.peers = ps
    <3>1. x = [s EXCEPT !.peers = ps]  BY <1>3, <2>1, <2>3, <2>4
    <3> QED  BY <3>1 DEF Side
  <2>6. DOMAIN ps = DOMAIN s.peers \cup {r}  BY <2>4 DEF Put
  <2>7. ps[r] = v  BY <2>4 DEF Put
  <2>8. \A q \in DOMAIN s.peers : q # r => ps[q] = s.peers[q]  BY <2>4 DEF Put
  <2>9. ps[r].left >= 0  BY <2>2, <2>3, <2>7
  <2>10. LivePeers(s) \subseteq LivePeers(x)
    BY <2>5, <2>6, <2>8, <2>9 DEF LivePeers
  <2> QED  BY <1>1, <2>5, <2>6, <2>10 DEF Noted
<1> QED  BY <1>2, <1>3 DEF Note

LEMMA TouchNoted ==
    ASSUME NEW s, Side(s), NEW t, NEW k \in Keys, NEW r, NEW out, NEW flags,
           NEW x, x = Note(t, k, Touch(k, s), r, out, flags)
    PROVE  Noted(s, x, r)
<1>1. PICK v : v = Touch(k, s)  OBVIOUS
<1>2. Alike(s, v) /\ Side(v)  BY <1>1, TouchIs DEF Alike
<1>3. v.peers = s.peers  BY <1>1 DEF Touch, Side
<1>4. Noted(v, x, r)  BY <1>1, <1>2, NoteNoted
<1>5. LivePeers(v) = LivePeers(s)  BY <1>3 DEF LivePeers
<1> QED  BY <1>2, <1>3, <1>4, <1>5, AlikeTransitive DEF Noted

(* A session still has its port, unless the remote is tracked on both      *)
(* sides.                                                                  *)
Holds(m, r, p) ==
    r \in TrackedBy(m) /\ (ForPeer(m, r).port = p \/ OnBothSides(m, r))

(* The remote is tracked on the side that has port p.                      *)
Tracks(m, r, p) ==
    \/ \E a \in m.alias : a.port = p /\ r \in DOMAIN a.peers
    \/ /\ m.port = p /\ r \in DOMAIN m.peers
       /\ \A a \in m.alias : r \notin DOMAIN a.peers

LEMMA TracksHolds ==
    ASSUME NEW m, MappingOK(m), NEW r, NEW p, Tracks(m, r, p) PROVE Holds(m, r, p)
<1>1. CASE \E a \in m.alias : a.port = p /\ r \in DOMAIN a.peers
  <2>1. PICK a \in m.alias : a.port = p /\ r \in DOMAIN a.peers  BY <1>1
  <2>2. m.alias = {a}  BY DEF MappingOK
  <2>3. {b \in m.alias : r \in DOMAIN b.peers} = {a}  BY <2>1, <2>2
  <2>4. ForPeer(m, r) = a  BY <2>3 DEF ForPeer, SideIn
  <2> QED  BY <2>1, <2>4 DEF Holds, TrackedBy
<1>2. CASE /\ m.port = p /\ r \in DOMAIN m.peers
           /\ \A a \in m.alias : r \notin DOMAIN a.peers
  <2>1. {b \in m.alias : r \in DOMAIN b.peers} = {}  BY <1>2
  <2>2. ForPeer(m, r) = m  BY <2>1 DEF ForPeer, SideIn
  <2> QED  BY <1>2, <2>2 DEF Holds, TrackedBy
<1> QED  BY <1>1, <1>2 DEF Tracks

LEMMA LivesTracks == ASSUME NEW m, NEW r, NEW p, Lives(m, r, p) PROVE Tracks(m, r, p)
BY DEF Lives, Tracks, LivePeers

LEMMA LivesCarries ==
    ASSUME NEW m, MappingOK(m), NEW r, NEW p, Lives(m, r, p) PROVE Holds(m, r, p)
BY LivesTracks, TracksHolds

(* A packet on the mapping itself, or from a remote of the side it is on,  *)
(* moves no session; one on the displaced side from another remote may     *)
(* have the remote tracked on both.                                        *)
LEMMA WithSideLives ==
    ASSUME NEW m, MappingOK(m), NEW s \in {m} \cup m.alias, NEW r, NEW new,
           Noted(s, new, r), NEW n, n = WithSide(m, s, new)
    PROVE  /\ s = m \/ r \in DOMAIN s.peers => LivesOn(m, n)
           /\ \A q, p : Lives(m, q, p) => Holds(n, q, p)
<1>1. Same(m, n)  BY WithSideSame DEF Noted
<1>2. MappingOK(n)  BY <1>1 DEF Same
<1>3. CASE s = m
  <2>1. /\ n.port = m.port /\ n.alias = m.alias /\ LivePeers(m) \subseteq LivePeers(n)
    BY <1>3 DEF WithSide, Noted, Alike
  <2>2. LivesOn(m, n)  BY <2>1 DEF LivesOn, Lives
  <2> QED  BY <1>2, <2>2, LivesCarries DEF LivesOn
<1>4. CASE s # m
  <2>1. Side(m) /\ m.alias = {s}  BY <1>4, SideOf DEF MappingOK
  <2>2. PICK v : v = {new}  OBVIOUS
  <2>3. n = [m EXCEPT !.alias = v]  BY <1>4, <2>2 DEF WithSide
  <2>4. n.port = m.port /\ n.alias = {new} /\ n.peers = m.peers
    BY <2>1, <2>2, <2>3, AliasSet
  <2>5. LivePeers(n) = LivePeers(m)  BY <2>4 DEF LivePeers
  <2>6. /\ new.port = s.port /\ LivePeers(s) \subseteq LivePeers(new)
        /\ DOMAIN new.peers \subseteq DOMAIN s.peers \cup {r}
    BY DEF Noted, Alike
  <2>7. ASSUME NEW q, NEW p, Lives(m, q, p), q # r \/ r \in DOMAIN s.peers
        PROVE  Lives(n, q, p)
    BY <2>1, <2>4, <2>5, <2>6, <2>7 DEF Lives
  <2>8. ASSUME NEW p, Lives(m, r, p), r \notin DOMAIN s.peers
        PROVE  Holds(n, r, p)
    <3>1. r \in LivePeers(m)  BY <2>1, <2>8 DEF Lives, LivePeers
    <3>2. r \in DOMAIN n.peers  BY <2>4, <3>1 DEF LivePeers
    <3>3. CASE r \in DOMAIN new.peers
      BY <2>4, <3>2, <3>3 DEF Holds, OnBothSides, TrackedBy
    <3>4. CASE r \notin DOMAIN new.peers
      <4>1. Lives(n, r, p)
        BY <2>1, <2>4, <2>5, <2>8, <3>1, <3>4 DEF Lives, LivePeers
      <4> QED  BY <1>2, <4>1, LivesCarries
    <3> QED  BY <3>3, <3>4
  <2>9. r \in DOMAIN s.peers => LivesOn(m, n)  BY <2>7 DEF LivesOn
  <2> QED  BY <1>2, <1>4, <2>7, <2>8, <2>9, LivesCarries
<1> QED  BY <1>3, <1>4

(* Every safe session of t has its port in n, but for a remote that has    *)
(* come to be tracked on both sides.                                       *)
Carried(t, n) ==
    \A k, r, p : Safe(t, k, r, p) =>
        k \in DOMAIN n.mappings /\ Holds(n.mappings[k], r, p)

Passes(t, n) == NatInv(n) /\ Carried(t, n)

LEMMA KeepsPasses == ASSUME NEW t, NEW n, Keeps(t, n) PROVE Passes(t, n)
<1>1. ASSUME NEW k, NEW r, NEW p, Safe(t, k, r, p)
      PROVE  k \in DOMAIN n.mappings /\ Holds(n.mappings[k], r, p)
  <2>1. k \in DOMAIN n.mappings /\ Lives(n.mappings[k], r, p)
    BY <1>1 DEF Keeps, Spares, Safe
  <2>2. MappingOK(n.mappings[k])  BY <2>1 DEF Keeps, NatInv, Sound, MappingsOK
  <2> QED  BY <2>1, <2>2, LivesCarries
<1> QED  BY <1>1 DEF Keeps, Passes, Carried

LEMMA PassesOn ==
    ASSUME NEW t, NEW u, NEW n, Keeps(t, u), Passes(u, n) PROVE Passes(t, n)
BY DEF Keeps, Spares, Passes, Carried

LEMMA PassesSelf == ASSUME NEW t, NatInv(t) PROVE Passes(t, t)
BY GoesSelf, KeepsPasses DEF Goes

(* n is t with another x for k, in which k's sessions hold their ports.    *)
LEMMA HoldingPasses ==
    ASSUME NEW t, NatInv(t), NEW k \in DOMAIN t.mappings, NEW x,
           Same(t.mappings[k], x),
           \A q, p : Lives(t.mappings[k], q, p) => Holds(x, q, p),
           NEW n, n = [t EXCEPT !.mappings[k] = x]
    PROVE  Passes(t, n)
<1>1. Renewed(t, n) /\ n.mappings[k] = x  BY MappingRenewed
<1>2. NatInv(n)  BY <1>1, RenewedKeeps
<1>3. \A j \in DOMAIN t.mappings : j # k => n.mappings[j] = t.mappings[j]
  <2>1. PICK ms : ms = [t.mappings EXCEPT ![k] = x]  OBVIOUS
  <2>2. Remapped(t, [t EXCEPT !.mappings = ms], ms)  BY RemappedIs DEF NatInv, Sound
  <2>3. n.mappings = ms  BY <2>1, <2>2 DEF Remapped
  <2> QED  BY <2>1, <2>3
<1>4. ASSUME NEW j, NEW q, NEW p, Safe(t, j, q, p)
      PROVE  j \in DOMAIN n.mappings /\ Holds(n.mappings[j], q, p)
  <2>1. j \in DOMAIN n.mappings /\ Lives(t.mappings[j], q, p)
    BY <1>1, <1>4 DEF Safe, Renewed
  <2>2. CASE j = k  BY <1>1, <2>1, <2>2
  <2>3. CASE j # k
    <3>1. n.mappings[j] = t.mappings[j] /\ MappingOK(n.mappings[j])
      BY <1>1, <1>2, <1>3, <2>1, <2>3 DEF Renewed, NatInv, Sound, MappingsOK
    <3> QED  BY <2>1, <3>1, LivesCarries
  <2> QED  BY <2>2, <2>3
<1> QED  BY <1>2, <1>4 DEF Passes, Carried

(* A packet noted on a side of k's mapping, which stays where it is.       *)
LEMMA NotedKeeps ==
    ASSUME NEW t, NatInv(t), NEW k \in DOMAIN t.mappings,
           NEW s \in {t.mappings[k]} \cup t.mappings[k].alias,
           NEW r, NEW out, NEW flags,
           NEW n, n = [t EXCEPT !.mappings[k] =
                         WithSide(@, s, Note(t, k, Touch(k, s), r, out, flags))]
    PROVE  /\ Passes(t, n)
           /\ s = t.mappings[k] \/ r \in DOMAIN s.peers => Goes(t, n)
<1>1. PICK m : m = t.mappings[k]  OBVIOUS
<1>2. MappingOK(m) /\ k \in Keys  BY <1>1 DEF NatInv, Sound, MappingsOK
<1>3. Side(s)  BY <1>1, <1>2, SideOf
<1>4. PICK new : new = Note(t, k, Touch(k, s), r, out, flags)  OBVIOUS
<1>5. Noted(s, new, r)  BY <1>2, <1>3, <1>4, TouchNoted
<1>6. PICK x : x = WithSide(m, s, new)  OBVIOUS
<1>7. Same(t.mappings[k], x)  BY <1>1, <1>2, <1>5, <1>6, WithSideSame DEF Noted
<1>8. /\ s = t.mappings[k] \/ r \in DOMAIN s.peers => LivesOn(t.mappings[k], x)
      /\ \A q, p : Lives(t.mappings[k], q, p) => Holds(x, q, p)
  BY <1>1, <1>2, <1>5, <1>6, WithSideLives
<1>9. PICK u : u = [t EXCEPT !.mappings[k] = x]  OBVIOUS
<1>10. n = u  BY <1>1, <1>4, <1>6, <1>9
<1>11. Passes(t, u)  BY <1>7, <1>8, <1>9, HoldingPasses
<1>12. s = t.mappings[k] \/ r \in DOMAIN s.peers => Goes(t, u)
  BY <1>7, <1>8, <1>9, LivingRenewed
<1> QED  BY <1>10, <1>11, <1>12

LEMMA NoteOutboundGoes ==
    ASSUME NEW t, NatInv(t), NEW k, NEW r, NEW flags
    PROVE  Goes(t, NoteOutbound(t, k, r, flags))
<1>1. PICK n : n = NoteOutbound(t, k, r, flags)  OBVIOUS
<1>2. CASE k \notin DOMAIN t.mappings
  <2>1. n = t  BY <1>1, <1>2 DEF NoteOutbound
  <2> QED  BY <1>1, <2>1, GoesSelf
<1>3. CASE k \in DOMAIN t.mappings
  <2>1. PICK m : m = t.mappings[k]  OBVIOUS
  <2>2. PICK s : s = ForPeer(m, r)  OBVIOUS
  <2>3. s \in {t.mappings[k]} \cup t.mappings[k].alias  BY <2>1, <2>2, ForIs
  <2>4. PICK out : out = TRUE  OBVIOUS
  <2>5. n = [t EXCEPT !.mappings[k] =
               WithSide(@, s, Note(t, k, Touch(k, s), r, out, flags))]
    BY <1>1, <1>3, <2>1, <2>2, <2>4 DEF NoteOutbound
  <2>6. s = m \/ r \in DOMAIN s.peers
    <3>1. PICK sides : sides = {a \in m.alias : r \in DOMAIN a.peers}  OBVIOUS
    <3>2. s = IF sides = {} THEN m ELSE CHOOSE a \in sides : TRUE
      BY <2>2, <3>1 DEF ForPeer, SideIn
    <3>3. s = m \/ s \in sides  BY <3>2
    <3> QED  BY <3>1, <3>3
  <2>7. Goes(t, n)  BY <1>3, <2>1, <2>3, <2>5, <2>6, NotedKeeps
  <2> QED  BY <1>1, <2>7
<1> QED  BY <1>2, <1>3

LEMMA NoteInboundPasses ==
    ASSUME NEW t, NatInv(t), NEW k, NEW p, NEW r, NEW flags
    PROVE  Passes(t, NoteInbound(t, k, p, r, flags))
<1>1. PICK n : n = NoteInbound(t, k, p, r, flags)  OBVIOUS
<1>2. PICK m : m = t.mappings[k]  OBVIOUS
<1>3. PICK s : s = ForPort(m, p)  OBVIOUS
<1>4. CASE k \in DOMAIN t.mappings /\ (IsOpen(s) \/ r \in DOMAIN s.peers)
  <2>1. s \in {t.mappings[k]} \cup t.mappings[k].alias  BY <1>2, <1>3, ForIs
  <2>2. PICK out : out = FALSE  OBVIOUS
  <2>3. n = [t EXCEPT !.mappings[k] =
               WithSide(@, s, Note(t, k, Touch(k, s), r, out, flags))]
    BY <1>1, <1>2, <1>3, <1>4, <2>2 DEF NoteInbound
  <2>4. Passes(t, n)  BY <1>4, <2>1, <2>3, NotedKeeps
  <2> QED  BY <1>1, <2>4
<1>5. CASE ~ (k \in DOMAIN t.mappings /\ (IsOpen(s) \/ r \in DOMAIN s.peers))
  <2>1. n = t  BY <1>1, <1>2, <1>3, <1>5 DEF NoteInbound
  <2> QED  BY <1>1, <2>1, PassesSelf
<1> QED  BY <1>4, <1>5

LEMMA NoteExpectedGoes ==
    ASSUME NEW t, NatInv(t), NEW k \in DOMAIN t.mappings, NEW r, NEW flags
    PROVE  Goes(t, NoteExpected(t, k, r, flags))
<1>1. PICK n : n = NoteExpected(t, k, r, flags)  OBVIOUS
<1>2. PICK m : m = t.mappings[k]  OBVIOUS
<1>3. MappingOK(m) /\ Side(m) /\ k \in Keys
  BY <1>2 DEF NatInv, Sound, MappingsOK, MappingOK
<1>4. PICK out : out = FALSE  OBVIOUS
<1>5. PICK x : x = Note(t, k, m, r, out, flags)  OBVIOUS
<1>6. Noted(m, x, r)  BY <1>3, <1>5, NoteNoted
<1>7. Same(m, x)  BY <1>3, <1>6, AlikeSame DEF Noted
<1>8. LivesOn(m, x)  BY <1>6 DEF Noted, Alike, LivesOn, Lives
<1>9. n = [t EXCEPT !.mappings[k] = x]  BY <1>1, <1>2, <1>4, <1>5 DEF NoteExpected
<1>10. Goes(t, n)  BY <1>2, <1>7, <1>8, <1>9, LivingRenewed
<1> QED  BY <1>1, <1>10

LEMMA SendOutKeeps ==
    ASSUME NEW t, NatInv(t), NEW k \in Keys, NEW r, NEW flags
    PROVE  Keeps(t, SendOut(t, k, r, flags))
<1>1. PICK u : u = GetOrCreate(t, k)  OBVIOUS
<1>2. Keeps(t, u)  BY <1>1, GetOrCreateKeeps
<1>3. Keeps(u, NoteOutbound(u, k, r, flags))  BY <1>2, NoteOutboundGoes DEF Goes, Keeps
<1> QED  BY <1>1, <1>2, <1>3, KeepsOn DEF SendOut

(* An expectation that is met is dropped, and its endpoint mapped.         *)
LEMMA ConnectPasses ==
    ASSUME NEW t, NatInv(t), NEW e \in Live(t), Rk(e) \notin DOMAIN t.reverse,
           NEW r, NEW flags
    PROVE  Passes(t, Connect(t, e, r, flags))
<1>1. PICK k : k = e.target  OBVIOUS
<1>2. PICK p : p = e.port  OBVIOUS
<1>3. PICK rk : rk = At(k, p)  OBVIOUS
<1>4. Rk(e) = rk /\ rk[2] = p  BY <1>1, <1>2, <1>3 DEF Rk, At
<1>5. k \in Keys /\ p \in Ports /\ e \in DOMAIN t.expectations
  BY <1>1, <1>2 DEF NatInv, Sound, Counted, Live
<1>6. PICK es : es = {e}  OBVIOUS
<1>7. PICK u : u = ExpectationsDrop(t, es)  OBVIOUS
<1>8. es \in SUBSET DOMAIN t.expectations  BY <1>5, <1>6
<1>9. Goes(t, u)
  <2>1. /\ NatInv(u) /\ Shrinks(t, u) /\ u.mappings = t.mappings
        /\ u.forwards = t.forwards
    BY <1>7, <1>8, DropKeeps
  <2> QED  BY <2>1, SparesSame DEF Goes, Keeps
<1>10. PICK ks : ks = {k}  OBVIOUS
<1>11. PICK v : v = ExpireMappings(u, ks)  OBVIOUS
<1>12. Goes(u, v)  BY <1>9, <1>11, ExpireMappingsKeeps DEF Goes, Keeps
<1>13. Goes(t, v) /\ NatInv(v) /\ Shrinks(t, v)
  BY <1>9, <1>12, GoesOn DEF Goes, Keeps
<1>14. PICK one : one = (t.expectations[e].one \/ e.remote # AnyRemote)  OBVIOUS
<1>15. Connect(t, e, r, flags) = Connected(v, e, one, r, flags)
  BY <1>1, <1>6, <1>7, <1>10, <1>11, <1>14 DEF Connect
<1>16. CASE k \in DOMAIN v.mappings
  <2>1. Connected(v, e, one, r, flags) = v  BY <1>1, <1>16 DEF Connected
  <2> QED  BY <1>13, <1>15, <2>1, KeepsPasses DEF Goes
<1>17. CASE k \notin DOMAIN v.mappings
  <2>1. Expecting(t)  BY DEF NatInv, Sound
  <2>2. rk \notin DOMAIN v.reverse /\ rk \notin DOMAIN v.forwards
    BY <1>4, <1>13, <2>1 DEF Shrinks, Expecting, ExpectingBut
  <2>3. ASSUME NEW d \in Live(v), Rk(d) = rk, Reserves(d, shared) PROVE d.target = k
    <3>1. d \in Live(t)  BY <1>13 DEF Shrinks
    <3>2. Rk(e) = Rk(d)  BY <1>4, <2>3
    <3> QED  BY <1>1, <2>1, <2>3, <3>1, <3>2 DEF Expecting, ExpectingBut
  <2>4. FreeFor(v, k, rk[2])  BY <1>3, <1>4, <1>5, <2>2, <2>3 DEF FreeFor
  <2>5. rk = At(k, rk[2])  BY <1>3, <1>4
  <2>6. PICK open : open = ~one  OBVIOUS
  <2>7. PICK w : w = Install(v, k, rk, open)  OBVIOUS
  <2>8. Keeps(v, w) /\ NatInv(w) /\ k \in DOMAIN w.mappings
    BY <1>5, <1>13, <1>17, <2>4, <2>5, <2>7, InstallKeeps DEF Keeps
  <2>9. PICK x : x = IF one THEN NoteExpected(w, k, r, flags) ELSE w  OBVIOUS
  <2>10. Keeps(w, x) /\ NatInv(x)
    <3>1. Keeps(w, NoteExpected(w, k, r, flags))  BY <2>8, NoteExpectedGoes DEF Goes
    <3>2. Keeps(w, w)  BY <2>8, GoesSelf DEF Goes
    <3> QED  BY <2>9, <3>1, <3>2 DEF Keeps
  <2>11. Connected(v, e, one, r, flags) = NoteInbound(x, k, p, r, flags)
    BY <1>1, <1>2, <1>3, <1>17, <2>6, <2>7, <2>9 DEF Connected
  <2>12. Keeps(t, x)  BY <1>13, <2>8, <2>10, KeepsOn DEF Goes
  <2>13. Passes(x, NoteInbound(x, k, p, r, flags))  BY <2>10, NoteInboundPasses
  <2> QED  BY <1>15, <2>11, <2>12, <2>13, PassesOn
<1> QED  BY <1>16, <1>17

LEMMA DeliverPasses ==
    ASSUME NEW t, NatInv(t), NEW rk, NEW r, NEW flags, NEW n \in Deliver(t, rk, r, flags)
    PROVE  Passes(t, n)
<1>1. CASE rk \in DOMAIN t.reverse
  <2>1. PICK k : k = t.reverse[rk]  OBVIOUS
  <2>2. PICK p : p = rk[2]  OBVIOUS
  <2>3. n = NoteInbound(t, k, p, r, flags)  BY <1>1, <2>1, <2>2 DEF Deliver
  <2> QED  BY <2>3, NoteInboundPasses
<1>2. ASSUME rk \notin DOMAIN t.reverse,
             NEW e \in Live(t), At(e.target, e.port) = rk, n = Connect(t, e, r, flags)
      PROVE  Passes(t, n)
  BY <1>2, ConnectPasses DEF Rk
<1>3. CASE n = t  BY <1>3, PassesSelf
<1>4. CASE ForwardLapsed(t, rk) /\ n = DropForwards(t, {rk})
  BY <1>4, DropLapsedAtGoes, KeepsPasses DEF Goes
<1>5. CASE /\ rk \in DOMAIN t.forwards /\ rk \notin DOMAIN t.reverse
           /\ n = NoteInbound(Install(t, Endpoint(t, rk), rk, TRUE), Endpoint(t, rk),
                              rk[2], r, flags)
  <2>1. PICK k : k = Endpoint(t, rk)  OBVIOUS
  <2>2. PICK p : p = rk[2]  OBVIOUS
  <2>3. PICK open : open = TRUE  OBVIOUS
  <2>4. PICK u : u = Install(t, k, rk, open)  OBVIOUS
  <2>5. n = NoteInbound(u, k, p, r, flags)  BY <1>5, <2>1, <2>2, <2>3, <2>4
  <2>6. k \in Keys /\ At(k, rk[2]) = rk  BY <1>5, <2>1 DEF NatInv, Sound, Forwarded
  <2>7. rk[2] \in Ports  BY <1>5 DEF NatInv, Sound, Counted, Rks
  <2>8. \A e \in Live(t) : Rk(e) # rk  BY <1>5 DEF NatInv, Sound, Expecting, ExpectingBut
  <2>9. FreeFor(t, k, rk[2])  BY <1>5, <2>1, <2>6, <2>7, <2>8 DEF FreeFor
  <2>10. Keeps(t, u)  BY <1>5, <2>4, <2>6, <2>9, InstallKeeps
  <2>11. Passes(u, n)  BY <2>5, <2>10, NoteInboundPasses DEF Keeps
  <2> QED  BY <2>10, <2>11, PassesOn
<1> QED  BY <1>1, <1>2, <1>3, <1>4, <1>5 DEF Deliver

LEMMA TurnAroundPasses ==
    ASSUME NEW t, NatInv(t), NEW k, NEW p, NEW flags, NEW n \in TurnAround(t, k, p, flags)
    PROVE  Passes(t, n)
<1>1. CASE n = t  BY <1>1, PassesSelf
<1>2. PICK rk : rk = At(k, p)  OBVIOUS
<1>3. PICK r : r = LeavesFrom(t, k, p)  OBVIOUS
<1>4. n = t \/ n \in Deliver(t, rk, r, flags)  BY <1>2, <1>3 DEF TurnAround
<1> QED  BY <1>1, <1>4, DeliverPasses

-----------------------------------------------------------------------------
(* Expectations.                                                           *)

(* e may be live: its port is not forwarded and is bound to e's target or  *)
(* to none.                                                                *)
MayExpect(t, e) ==
    /\ e.target \in Keys /\ e.port \in Ports /\ Rk(e) \notin DOMAIN t.forwards
    /\ Rk(e) \in DOMAIN t.reverse => t.reverse[Rk(e)] = e.target

(* If e's port is a TCP one, and not in S, it is expected for no other     *)
(* target before or for one target after.                                  *)
Undisputed(t, n, e, S) ==
    Reserves(e, S) =>
        \/ \A d \in Live(t) : Rk(d) = Rk(e) => d.target = e.target
        \/ ExpectedAlone(n, Rk(e))

(* The invariant is kept when S is shared from then on.                    *)
KeepsBut(t, n, S) ==
    /\ Rec(n) /\ MappingsOK(n) /\ Agree(n) /\ Counted(n) /\ Forwarded(n)
    /\ ExpectingBut(n, S) /\ Displaced(n, {}) /\ Spares(t, n)

LEMMA ReservesLess ==
    ASSUME NEW e, NEW S, shared \subseteq S, Reserves(e, S) PROVE Reserves(e, shared)
BY DEF Reserves

LEMMA ReservesSame ==
    ASSUME NEW d, NEW e, NEW S, Rk(d) = Rk(e), Reserves(e, S) PROVE Reserves(d, S)
BY DEF Reserves, Rk, At

LEMMA KeepsKeepsBut ==
    ASSUME NEW t, NEW n, NEW S, shared \subseteq S, Keeps(t, n) PROVE KeepsBut(t, n, S)
<1>1. ExpectingBut(n, shared)  BY DEF Keeps, NatInv, Sound, Expecting
<1>2. ExpectingBut(n, S)  BY <1>1, ReservesLess DEF ExpectingBut
<1> QED  BY <1>2 DEF Keeps, KeepsBut, NatInv, Sound

LEMMA KeepsButShared ==
    ASSUME NEW t, NEW n, KeepsBut(t, n, shared) PROVE Keeps(t, n)
BY DEF Keeps, KeepsBut, NatInv, Sound, Expecting

LEMMA KeepsButOn ==
    ASSUME NEW t, NEW u, NEW n, NEW S, Keeps(t, u), KeepsBut(u, n, S)
    PROVE  KeepsBut(t, n, S)
BY SparesOn DEF Keeps, KeepsBut

(* n is t with e live.                                                     *)
LEMMA ExpectingMore ==
    ASSUME NEW t, NatInv(t), NEW e, MayExpect(t, e), NEW n, NEW S, shared \subseteq S,
           Undisputed(t, n, e, S), n.reverse = t.reverse, n.forwards = t.forwards,
           Live(n) \subseteq Live(t) \cup {e},
           \A x \in DOMAIN n.expectations :
              n.expectations[x].one => x.target.proto = "tcp"
    PROVE  ExpectingBut(n, S)
<1>1. ExpectingBut(t, shared)  BY DEF NatInv, Sound, Expecting
<1>2. ASSUME NEW x \in Live(n)
      PROVE  /\ Rk(x) \notin DOMAIN n.forwards
             /\ Reserves(x, S) /\ Rk(x) \in DOMAIN n.reverse =>
                   n.reverse[Rk(x)] = x.target
  <2>1. CASE x = e  BY <2>1 DEF MayExpect
  <2>2. CASE x \in Live(t)  BY <1>1, <2>2, ReservesLess DEF ExpectingBut
  <2> QED  BY <2>1, <2>2
<1>3. ASSUME NEW x \in Live(n), Reserves(x, S), NEW d \in Live(n), Rk(d) = Rk(x)
      PROVE  d.target = x.target
  <2>1. Reserves(d, S)  BY <1>3, ReservesSame
  <2>2. CASE x \in Live(t) /\ d \in Live(t)
    BY <1>1, <1>3, <2>2, ReservesLess DEF ExpectingBut
  <2>3. CASE Rk(x) = Rk(e) /\ ExpectedAlone(n, Rk(e))
    BY <1>3, <2>3 DEF ExpectedAlone, Rk
  <2>4. CASE /\ x = e \/ d = e
             /\ \A c \in Live(t) : Rk(c) = Rk(e) => c.target = e.target
    BY <1>3, <2>4
  <2>5. CASE x = e \/ d = e  BY <1>3, <2>1, <2>3, <2>4, <2>5 DEF Undisputed
  <2> QED  BY <2>2, <2>5
<1> QED  BY <1>2, <1>3 DEF ExpectingBut

LEMMA PushKeeps ==
    ASSUME NEW t, NatInv(t), NEW e, MayExpect(t, e), e \notin DOMAIN t.expectations,
           NEW one, one => e.target.proto = "tcp", NEW n, n = ExpectationsPush(t, e, one),
           NEW S, shared \subseteq S, Undisputed(t, n, e, S)
    PROVE  KeepsBut(t, n, S)
<1>1. Pushes(t, n, e, one)  BY ExpectationsPushIs DEF NatInv, Sound
<1>2. /\ n.mappings = t.mappings /\ n.reverse = t.reverse
      /\ n.forwards = t.forwards /\ n.byEndpoint = t.byEndpoint /\ Rec(n)
  BY <1>1 DEF Pushes, SameForwards
<1>3. PICK v : v = [left |-> EXPECT, one |-> one]  OBVIOUS
<1>4. n.expectations = Put(t.expectations, e, v)  BY <1>1, <1>3 DEF Pushes
<1>5. /\ DOMAIN n.expectations = DOMAIN t.expectations \cup {e}
      /\ n.expectations[e] = v
      /\ \A x \in DOMAIN t.expectations : n.expectations[x] = t.expectations[x]
  BY <1>4 DEF Put
<1>6. Counted(n)  BY <1>1, PushCounted DEF NatInv, Sound, MayExpect
<1>7. MappingsOK(n) /\ Agree(n) /\ Forwarded(n) /\ Displaced(n, {})
  BY <1>2 DEF NatInv, Sound, MappingsOK, Agree, Forwarded, Displaced, Endpoint
<1>8. Live(n) \subseteq Live(t) \cup {e}  BY <1>5 DEF Live, Lapsed
<1>9. ASSUME NEW x \in DOMAIN n.expectations, n.expectations[x].one
      PROVE  x.target.proto = "tcp"
  <2>1. CASE x = e  BY <1>3, <1>5, <1>9, <2>1
  <2>2. CASE x \in DOMAIN t.expectations
    BY <1>5, <1>9, <2>2 DEF NatInv, Sound, Expecting, ExpectingBut
  <2> QED  BY <1>5, <2>1, <2>2
<1>10. ExpectingBut(n, S)  BY <1>2, <1>8, <1>9, ExpectingMore
<1>11. Spares(t, n)  BY <1>2, SparesSame
<1> QED  BY <1>2, <1>6, <1>7, <1>10, <1>11 DEF KeepsBut

LEMMA AfterDrop ==
    ASSUME NEW t, NatInv(t), NEW e, MayExpect(t, e),
           NEW es \in SUBSET DOMAIN t.expectations, NEW u, u = ExpectationsDrop(t, es)
    PROVE  /\ Keeps(t, u) /\ NatInv(u) /\ MayExpect(u, e)
           /\ DOMAIN u.expectations \subseteq DOMAIN t.expectations
           /\ \A n, S : Undisputed(t, n, e, S) => Undisputed(u, n, e, S)
<1>1. /\ NatInv(u) /\ Shrinks(t, u) /\ u.reverse = t.reverse /\ u.forwards = t.forwards
      /\ u.mappings = t.mappings
      /\ DOMAIN u.expectations = DOMAIN t.expectations \ es
  BY DropKeeps
<1>2. Keeps(t, u)  BY <1>1, SparesSame DEF Keeps
<1>3. Live(u) \subseteq Live(t)  BY <1>1 DEF Shrinks
<1> QED  BY <1>1, <1>2, <1>3 DEF MayExpect, Undisputed

LEMMA EvictedIs ==
    ASSUME NEW t, NEW k PROVE Evicted(t, k) \subseteq DOMAIN t.expectations
<1>1. \A xs : Soonest(t, xs) \subseteq xs  BY DEF Soonest
<1>2. /\ OfHostOf(t, k) \subseteq DOMAIN t.expectations
      /\ OfNs(t, k) \subseteq DOMAIN t.expectations
      /\ Busiest(t) \subseteq DOMAIN t.expectations
  BY DEF OfHostOf, OfNs, Busiest
<1> QED  BY <1>1, <1>2 DEF Evicted

LEMMA MakeRoomKeeps ==
    ASSUME NEW t, NatInv(t), NEW e, MayExpect(t, e), e \notin DOMAIN t.expectations,
           NEW one, one => e.target.proto = "tcp", NEW n \in MakeRoom(t, e, one),
           NEW S, shared \subseteq S, Undisputed(t, n, e, S)
    PROVE  KeepsBut(t, n, S)
<1>1. PICK k : k = e.target  OBVIOUS
<1>2. PICK out : out = Evicted(t, k)  OBVIOUS
<1>3. out \subseteq DOMAIN t.expectations  BY <1>2, EvictedIs
<1>4. \/ n = ExpectationsPush(t, e, one)
      \/ \E x \in out : n = ExpectationsPush(ExpectationsDrop(t, {x}), e, one)
  BY <1>1, <1>2 DEF MakeRoom, PushWithRoom
<1>5. CASE n = ExpectationsPush(t, e, one)  BY <1>5, PushKeeps
<1>6. ASSUME NEW x \in out, n = ExpectationsPush(ExpectationsDrop(t, {x}), e, one)
      PROVE  KeepsBut(t, n, S)
  <2>1. PICK es : es = {x}  OBVIOUS
  <2>2. PICK u : u = ExpectationsDrop(t, es)  OBVIOUS
  <2>3. es \in SUBSET DOMAIN t.expectations  BY <1>3, <2>1
  <2>4. /\ Keeps(t, u) /\ NatInv(u) /\ MayExpect(u, e)
        /\ DOMAIN u.expectations \subseteq DOMAIN t.expectations
        /\ Undisputed(u, n, e, S)
    BY <2>2, <2>3, AfterDrop
  <2>5. n = ExpectationsPush(u, e, one)  BY <1>6, <2>1, <2>2
  <2>6. KeepsBut(u, n, S)  BY <2>4, <2>5, PushKeeps
  <2> QED  BY <2>4, <2>6, KeepsButOn
<1> QED  BY <1>4, <1>5, <1>6

(* n is t with other expectations.                                         *)
Awaiting(t, n, xs) ==
    /\ Rec(n) /\ SameForwards(t, n)
    /\ n.mappings = t.mappings /\ n.reverse = t.reverse /\ n.holders = t.holders
    /\ n.expectations = xs

LEMMA AwaitingIs ==
    ASSUME NEW t, Rec(t), NEW xs PROVE Awaiting(t, [t EXCEPT !.expectations = xs], xs)
<1>1. PICK n : n = [t EXCEPT !.expectations = xs]  OBVIOUS
<1>2. n = [mappings |-> t.mappings, reverse |-> t.reverse, holders |-> t.holders,
           nextPort |-> t.nextPort, reclaim |-> t.reclaim, forwards |-> t.forwards,
           byEndpoint |-> t.byEndpoint, expectations |-> xs,
           hosts |-> t.hosts, limits |-> t.limits]
  BY <1>1 DEF Rec
<1> QED  BY <1>1, <1>2 DEF Awaiting, Rec, SameForwards

LEMMA RefreshKeeps ==
    ASSUME NEW t, NatInv(t), NEW e \in DOMAIN t.expectations, MayExpect(t, e),
           NEW n, n = [t EXCEPT !.expectations[e] = [left |-> EXPECT, one |-> @.one]],
           NEW S, shared \subseteq S, Undisputed(t, n, e, S)
    PROVE  KeepsBut(t, n, S)
<1>1. PICK xs : xs = [t.expectations EXCEPT ![e] = [left |-> EXPECT, one |-> @.one]]
  OBVIOUS
<1>2. n = [t EXCEPT !.expectations = xs]  BY <1>1
<1>3. Awaiting(t, n, xs)  BY <1>2, AwaitingIs DEF NatInv, Sound
<1>4. /\ Rec(n) /\ n.mappings = t.mappings /\ n.reverse = t.reverse
      /\ n.holders = t.holders
      /\ n.forwards = t.forwards /\ n.byEndpoint = t.byEndpoint
      /\ n.expectations = xs
  BY <1>3 DEF Awaiting, SameForwards
<1>5. DOMAIN xs = DOMAIN t.expectations  BY <1>1
<1>6. \A x \in DOMAIN t.expectations : x # e => xs[x] = t.expectations[x]  BY <1>1
<1>7. xs[e].one = t.expectations[e].one  BY <1>1
<1>8. Live(n) \subseteq Live(t) \cup {e}  BY <1>4, <1>5, <1>6 DEF Live, Lapsed
<1>9. \A x \in DOMAIN n.expectations : n.expectations[x].one => x.target.proto = "tcp"
  BY <1>4, <1>5, <1>6, <1>7 DEF NatInv, Sound, Expecting, ExpectingBut
<1>10. ExpectingBut(n, S)  BY <1>4, <1>8, <1>9, ExpectingMore
<1>11. Counted(n)  BY <1>4, <1>5, SameCounted DEF NatInv, Sound
<1>12. MappingsOK(n) /\ Agree(n) /\ Forwarded(n) /\ Displaced(n, {})
  BY <1>4 DEF NatInv, Sound, MappingsOK, Agree, Forwarded, Displaced, Endpoint
<1>13. Spares(t, n)  BY <1>4, SparesSame
<1> QED  BY <1>4, <1>10, <1>11, <1>12, <1>13 DEF KeepsBut

LEMMA AddExpectationKeeps ==
    ASSUME NEW t, NatInv(t), NEW e, e.target \in Keys, e.port \in Ports,
           NEW one, one => e.target.proto = "tcp", NEW n \in AddExpectation(t, e, one),
           NEW S, shared \subseteq S, Undisputed(t, n, e, S)
    PROVE  KeepsBut(t, n, S)
<1>1. PICK rk : rk = Rk(e)  OBVIOUS
<1>2. PICK u : u = ExpirePort(t, rk)  OBVIOUS
<1>3. Goes(t, u)  BY <1>2, ExpirePortGoes
<1>4. NatInv(u) /\ Undisputed(u, n, e, S)  BY <1>3 DEF Goes, Keeps, Shrinks, Undisputed
<1>5. n \in ExpectAt(u, rk, e, one)  BY <1>1, <1>2 DEF AddExpectation, Rk
<1>6. KeepsBut(u, n, S)
  <2>1. CASE \/ rk \in DOMAIN u.reverse /\ u.reverse[rk] # e.target
             \/ rk \in DOMAIN u.forwards
    <3>1. n = u  BY <1>5, <2>1 DEF ExpectAt
    <3>2. Keeps(u, u)  BY <1>4, GoesSelf DEF Goes
    <3> QED  BY <3>1, <3>2, KeepsKeepsBut
  <2>2. CASE ~ (\/ rk \in DOMAIN u.reverse /\ u.reverse[rk] # e.target
                \/ rk \in DOMAIN u.forwards)
    <3>1. MayExpect(u, e)  BY <1>1, <2>2 DEF MayExpect
    <3>2. CASE e \in DOMAIN u.expectations
      <4>1. n = [u EXCEPT !.expectations[e] = [left |-> EXPECT, one |-> @.one]]
        BY <1>5, <2>2, <3>2 DEF ExpectAt
      <4> QED  BY <1>4, <3>1, <3>2, <4>1, RefreshKeeps
    <3>3. CASE e \notin DOMAIN u.expectations
      <4>1. PICK k : k = e.target  OBVIOUS
      <4>2. PICK v : v = PurgeIfFull(u, k)  OBVIOUS
      <4>3. n \in MakeRoom(v, e, one)  BY <1>5, <2>2, <3>3, <4>1, <4>2 DEF ExpectAt
      <4>4. PICK es : es = Lapsed(u)  OBVIOUS
      <4>5. es \in SUBSET DOMAIN u.expectations  BY <4>4 DEF Lapsed
      <4>6. v = u \/ v = ExpectationsDrop(u, es)
        BY <4>2, <4>4 DEF PurgeIfFull, PurgeLapsed
      <4>7. Keeps(u, u)  BY <1>4, GoesSelf DEF Goes
      <4>8. /\ Keeps(u, v) /\ NatInv(v) /\ MayExpect(v, e)
            /\ e \notin DOMAIN v.expectations /\ Undisputed(v, n, e, S)
        BY <1>4, <3>1, <3>3, <4>5, <4>6, <4>7, AfterDrop
      <4>9. KeepsBut(v, n, S)  BY <4>3, <4>8, MakeRoomKeeps
      <4> QED  BY <4>8, <4>9, KeepsButOn
    <3> QED  BY <3>2, <3>3
  <2> QED  BY <2>1, <2>2
<1> QED  BY <1>3, <1>6, KeepsButOn DEF Goes

LEMMA OnPortExpectation ==
    ASSUME NEW k, NEW p, NEW r, NEW e, e = Expectation(k, p, r)
    PROVE  e.target = k /\ e.port = p /\ Rk(e) = At(k, p)
BY DEF Expectation, Rk

(* The port expect_from_in takes for k, unless it is shared, is expected   *)
(* for no other endpoint.                                                  *)
LEMMA ExpectedPortsAre ==
    ASSUME NEW t, NatInv(t), NEW k \in Keys, k.proto = "tcp",
           NEW a \in ExpectedPorts(t, k), a.port # NoPort
    PROVE  /\ a.port \in Ports
           /\ \A d \in Live(a.t) : Rk(d) = At(k, a.port) /\ Reserves(d, shared)
                                     => d.target = k
<1>1. Expecting(t)  BY DEF NatInv, Sound
<1>2. ASSUME NEW d \in Live(t), NEW p, Rk(d) = At(k, p) PROVE d.target.proto = "tcp"
  BY <1>2 DEF Rk, At
<1>3. CASE k \in DOMAIN t.mappings
  <2>1. PICK m : m = t.mappings[k]  OBVIOUS
  <2>2. PICK p : p = m.port  OBVIOUS
  <2>3. a.port = p /\ a.t = t  BY <1>3, <2>1, <2>2 DEF ExpectedPorts
  <2>4. PICK x : x = At(k, p)  OBVIOUS
  <2>5. x \in DOMAIN t.reverse /\ t.reverse[x] = k
    BY <1>3, <2>1, <2>2, <2>4, SideBound DEF NatInv, Sound
  <2>6. p \in Ports  BY <1>3, <2>1, <2>2 DEF NatInv, Sound, MappingsOK, MappingOK, Side
  <2> QED  BY <1>1, <1>2, <2>3, <2>4, <2>5, <2>6 DEF Expecting, ExpectingBut
<1>4. PICK pending : pending = {e.port : e \in {e \in Live(t) : e.target = k}}  OBVIOUS
<1>5. ASSUME a.t = t, a.port \in pending
      PROVE  /\ a.port \in Ports
             /\ \A d \in Live(a.t) : Rk(d) = At(k, a.port) /\ Reserves(d, shared)
                                       => d.target = k
  <2>1. PICK e \in Live(t) : e.target = k /\ e.port = a.port  BY <1>4, <1>5
  <2>2. Rk(e) = At(k, a.port)  BY <2>1 DEF Rk
  <2>3. ASSUME NEW d \in Live(t), Rk(d) = At(k, a.port), Reserves(d, shared)
        PROVE  Reserves(e, shared)
    BY <2>2, <2>3, ReservesSame
  <2>4. e.port \in Ports  BY DEF NatInv, Sound, Counted, Live
  <2> QED  BY <1>1, <1>5, <2>1, <2>2, <2>3, <2>4 DEF Expecting, ExpectingBut
<1>6. ASSUME ForwardPortFor(t, k) # NoPort, a.t = t, a.port = ForwardPortFor(t, k)
      PROVE  /\ a.port \in Ports
             /\ \A d \in Live(a.t) : Rk(d) = At(k, a.port) /\ Reserves(d, shared)
                                       => d.target = k
  <2>1. a.port \in Ports /\ At(k, a.port) \in DOMAIN t.forwards
    BY <1>6, ForwardPortIs DEF FreeFor
  <2> QED  BY <1>1, <1>6, <2>1 DEF Expecting, ExpectingBut
<1>7. PICK want : want = k.port  OBVIOUS
<1>8. PICK none : none = {}  OBVIOUS
<1>9. ASSUME a = AllocPort(t, want, none)
      PROVE  /\ a.port \in Ports
             /\ \A d \in Live(a.t) : Rk(d) = At(k, a.port) /\ Reserves(d, shared)
                                       => d.target = k
  <2>1. want \in Ports  BY <1>7, NatAssumption
  <2>2. a.port \in Ports /\ Unused(a.t, a.port)  BY <1>9, <2>1, AllocPortIs
  <2>3. \A d \in Live(a.t) : d.port # a.port  BY <2>2 DEF Unused, Live
  <2>4. \A d \in Live(a.t) : Rk(d) # At(k, a.port)  BY <2>3 DEF Rk, At
  <2> QED  BY <2>2, <2>4
<1>10. \/ k \in DOMAIN t.mappings
       \/ a.t = t /\ a.port \in pending
       \/ ForwardPortFor(t, k) # NoPort /\ a.t = t /\ a.port = ForwardPortFor(t, k)
       \/ a = AllocPort(t, want, none)
  BY <1>4, <1>7, <1>8 DEF ExpectedPorts
<1> QED  BY <1>3, <1>5, <1>6, <1>9, <1>10

LEMMA ExpectedPortsGo ==
    ASSUME NEW t, NatInv(t), NEW k \in Keys, NEW a \in ExpectedPorts(t, k)
    PROVE  Keeps(t, a.t)
<1>1. PICK want : want = k.port  OBVIOUS
<1>2. PICK none : none = {}  OBVIOUS
<1>3. want \in Ports  BY <1>1, NatAssumption
<1>4. a.t = t \/ a = AllocPort(t, want, none)  BY <1>1, <1>2 DEF ExpectedPorts
<1> QED  BY <1>3, <1>4, AllocPortIs, GoesSelf DEF Goes

-----------------------------------------------------------------------------
(* Forwards.                                                               *)

(* Port rk may be forwarded to k: it is bound to k or to none, expected by *)
(* none, and k has no other forward.                                       *)
MayForward(t, rk, k) ==
    /\ k \in Keys /\ rk \in Rks /\ rk = At(k, rk[2])
    /\ rk \in DOMAIN t.reverse => t.reverse[rk] = k
    /\ \A e \in Live(t) : Rk(e) # rk
    /\ k \in DOMAIN t.byEndpoint => t.byEndpoint[k] = rk

LEMMA InsertKeeps ==
    ASSUME NEW t, NatInv(t), NEW rk, NEW k, MayForward(t, rk, k), NEW f, f.key = k,
           NEW n, n = ForwardsInsert(t, rk, f)
    PROVE  NatInv(n) /\ n.mappings = t.mappings /\ Endpoint(n, rk) = k
<1>1. PICK rks : rks = {rk}  OBVIOUS
<1>2. PICK u : u = ForwardsRemove(t, rks)  OBVIOUS
<1>3. /\ Sound(u) /\ Displaced(u, rks) /\ u.mappings = t.mappings
      /\ u.reverse = t.reverse /\ u.expectations = t.expectations
      /\ DOMAIN u.forwards = DOMAIN t.forwards \ rks
      /\ DOMAIN u.byEndpoint = {j \in DOMAIN t.byEndpoint : t.byEndpoint[j] \notin rks}
  BY <1>2, ForwardsRemoveKeeps
<1>4. Inserts(t, u, n, rk, f)
  <2>1. u = ForwardsRemove(t, {rk})  BY <1>1, <1>2
  <2> QED  BY <2>1, ForwardsInsertIs DEF NatInv, Sound
<1>5. rk \notin DOMAIN u.forwards /\ k \notin DOMAIN u.byEndpoint
  BY <1>1, <1>3 DEF MayForward
<1>6. Counted(n)  BY <1>3, <1>4, <1>5, InsertCounted DEF Sound, MayForward
<1>7. /\ Rec(n) /\ n.mappings = u.mappings /\ n.reverse = u.reverse
      /\ n.expectations = u.expectations
  BY <1>3, <1>4 DEF Inserts
<1>8. n.forwards = Put(u.forwards, rk, f)  BY <1>4 DEF Inserts
<1>9. n.byEndpoint = Put(u.byEndpoint, k, rk)  BY <1>4 DEF Inserts
<1>10. /\ DOMAIN n.forwards = DOMAIN u.forwards \cup {rk} /\ Endpoint(n, rk) = k
       /\ \A x \in DOMAIN u.forwards : Endpoint(n, x) = Endpoint(u, x)
  BY <1>5, <1>8 DEF Put, Endpoint
<1>11. /\ DOMAIN n.byEndpoint = DOMAIN u.byEndpoint \cup {k} /\ n.byEndpoint[k] = rk
       /\ \A j \in DOMAIN u.byEndpoint : n.byEndpoint[j] = u.byEndpoint[j]
  BY <1>5, <1>9 DEF Put
<1>12. Forwarded(u) /\ Agree(u) /\ MappingsOK(u) /\ Expecting(u)  BY <1>3 DEF Sound
<1>13. ASSUME NEW j \in DOMAIN n.byEndpoint
       PROVE  n.byEndpoint[j] \in DOMAIN n.forwards /\ Endpoint(n, n.byEndpoint[j]) = j
  <2>1. CASE j = k  BY <1>10, <1>11, <2>1
  <2>2. CASE j \in DOMAIN u.byEndpoint  BY <1>10, <1>11, <1>12, <2>2 DEF Forwarded
  <2> QED  BY <1>11, <2>1, <2>2
<1>14. ASSUME NEW x \in DOMAIN n.forwards
       PROVE  /\ Endpoint(n, x) \in Keys /\ At(Endpoint(n, x), x[2]) = x
              /\ Endpoint(n, x) \in DOMAIN n.byEndpoint
              /\ n.byEndpoint[Endpoint(n, x)] = x
              /\ x \in DOMAIN n.reverse => n.reverse[x] = Endpoint(n, x)
  <2>1. CASE x = rk  BY <1>3, <1>7, <1>10, <1>11, <2>1 DEF MayForward
  <2>2. CASE x \in DOMAIN u.forwards
    BY <1>7, <1>10, <1>11, <1>12, <2>2 DEF Forwarded
  <2> QED  BY <1>10, <2>1, <2>2
<1>15. Forwarded(n)  BY <1>13, <1>14 DEF Forwarded
<1>16. Live(n) = Live(t)  BY <1>3, <1>7 DEF Live, Lapsed
<1>17. Live(u) = Live(t)  BY <1>3 DEF Live, Lapsed
<1>18. Expecting(n)
  <2>1. \A e \in Live(u) : Rk(e) \notin DOMAIN n.forwards
    BY <1>10, <1>12, <1>17 DEF Expecting, ExpectingBut, MayForward
  <2> QED  BY <1>7, <1>12, <1>16, <1>17, <2>1 DEF Expecting, ExpectingBut
<1>19. Displaced(n, {})
  <2>1. SUFFICES ASSUME NEW j \in DOMAIN n.mappings, n.mappings[j].alias # {}
                 PROVE  /\ At(j, n.mappings[j].port) \in DOMAIN n.forwards
                        /\ Endpoint(n, At(j, n.mappings[j].port)) = j
    BY DEF Displaced
  <2>2. PICK x : x = At(j, u.mappings[j].port)  OBVIOUS
  <2>3. j \in DOMAIN u.mappings /\ u.mappings[j].alias # {}  BY <1>7, <2>1
  <2>4. CASE x = rk
    <3>1. x \in DOMAIN u.reverse /\ u.reverse[x] = j  BY <1>12, <2>2, <2>3, SideBound
    <3>2. j = k  BY <1>3, <2>4, <3>1 DEF MayForward
    <3> QED  BY <1>7, <1>10, <2>2, <2>4, <3>2
  <2>5. CASE x # rk
    <3>1. x \in DOMAIN u.forwards /\ Endpoint(u, x) = j
      BY <1>1, <1>3, <2>2, <2>3, <2>5 DEF Displaced
    <3> QED  BY <1>7, <1>10, <2>2, <3>1
  <2> QED  BY <2>4, <2>5
<1>20. MappingsOK(n) /\ Agree(n)  BY <1>7, <1>12 DEF MappingsOK, Agree
<1>21. NatInv(n)  BY <1>6, <1>7, <1>15, <1>18, <1>19, <1>20 DEF NatInv, Sound
<1> QED  BY <1>3, <1>7, <1>10, <1>21

LEMMA OpenedRenewed ==
    ASSUME NEW t, NatInv(t), NEW k \in DOMAIN t.mappings,
           NEW n, n = [t EXCEPT !.mappings[k].open = TRUE]
    PROVE  Renewed(t, n) /\ Goes(t, n)
<1>1. PICK m : m = t.mappings[k]  OBVIOUS
<1>2. MappingOK(m) /\ Side(m)  BY <1>1 DEF NatInv, Sound, MappingsOK, MappingOK
<1>3. PICK v : v = TRUE  OBVIOUS
<1>4. PICK x : x = [m EXCEPT !.open = v]  OBVIOUS
<1>5. Same(m, x)  BY <1>2, <1>4, SideSet, AlikeSame
<1>6. n = [t EXCEPT !.mappings[k] = x]  BY <1>1, <1>3, <1>4
<1>7. Renewed(t, n)  BY <1>1, <1>5, <1>6, MappingRenewed
<1>8. x.peers = m.peers /\ x.port = m.port /\ x.alias = m.alias  BY <1>2, <1>4 DEF Side
<1>9. Goes(t, n)  BY <1>1, <1>5, <1>6, <1>8, SameSessions
<1> QED  BY <1>7, <1>9

(* Sessions live on in n, but for those of t on a port that was forwarded  *)
(* and now leads to another endpoint.                                      *)
LivesOrTaken(t, n) ==
    \A j, r, p : Safe(t, j, r, p) =>
        \/ j \in DOMAIN n.mappings /\ Lives(n.mappings[j], r, p)
        \/ At(j, p) \in DOMAIN t.forwards /\ Endpoint(n, At(j, p)) # j

LEMMA LivesBound ==
    ASSUME NEW t, NatInv(t), NEW j \in DOMAIN t.mappings, NEW r, NEW p,
           Lives(t.mappings[j], r, p), NEW x, x = At(j, p)
    PROVE  x \in DOMAIN t.reverse /\ t.reverse[x] = j
<1>1. p \in PortsOf(t.mappings[j])  BY DEF Lives, PortsOf
<1> QED  BY <1>1 DEF NatInv, Sound, Agree

LEMMA ForwardingKeeps ==
    ASSUME NEW t, NatInv(t), NEW k \in Keys, NEW rk \in Rks, rk = At(k, rk[2]), NEW left,
           NEW n, n = Forwarding(t, rk, k, left)
    PROVE  NatInv(n) /\ LivesOrTaken(t, n)
<1> DEFINE own == rk \in DOMAIN t.reverse /\ t.reverse[rk] = k
           refuse == \/ /\ rk \in DOMAIN t.forwards
                        /\ HostOf(Endpoint(t, rk)) # HostOf(k)
                     \/ \E e \in Live(t) : At(e.target, e.port) = rk
                     \/ rk \in DOMAIN t.reverse /\ rk \notin DOMAIN t.forwards /\ ~own
                     \/ k \in DOMAIN t.byEndpoint /\ t.byEndpoint[k] # rk
<1>1. PICK u : u = IF own THEN [t EXCEPT !.mappings[k].open = TRUE]
                   ELSE IF rk \in DOMAIN t.forwards /\ Endpoint(t, rk) = k THEN t
                   ELSE RemoveMappingsAt(t, {rk})
  OBVIOUS
<1>2. PICK f : f = [key |-> k, left |-> left]  OBVIOUS
<1>3. n = IF refuse THEN t ELSE ForwardsInsert(u, rk, f)  BY <1>1, <1>2 DEF Forwarding
<1>4. CASE refuse  BY <1>3, <1>4 DEF LivesOrTaken, Safe
<1>5. CASE ~refuse
  <2>1. \A e \in Live(t) : Rk(e) # rk  BY <1>5 DEF Rk
  <2>2. k \in DOMAIN t.byEndpoint => t.byEndpoint[k] = rk  BY <1>5
  <2>3. /\ NatInv(u) /\ Live(u) \subseteq Live(t) /\ u.byEndpoint = t.byEndpoint
        /\ rk \in DOMAIN u.reverse => u.reverse[rk] = k
        /\ \A j, r, p : Safe(t, j, r, p) =>
              \/ j \in DOMAIN u.mappings /\ Lives(u.mappings[j], r, p)
              \/ At(j, p) = rk /\ rk \in DOMAIN t.forwards /\ j # k
    <3>1. CASE own
      <4>1. k \in DOMAIN t.mappings  BY <3>1 DEF NatInv, Sound, Agree
      <4>2. Renewed(t, u) /\ Goes(t, u)  BY <1>1, <3>1, <4>1, OpenedRenewed
      <4>3. Spares(t, u)  BY <4>2 DEF Goes, Keeps
      <4>4. /\ NatInv(u) /\ Live(u) \subseteq Live(t) /\ u.byEndpoint = t.byEndpoint
            /\ rk \in DOMAIN u.reverse => u.reverse[rk] = k
        BY <3>1, <4>2, RenewedKeeps DEF Renewed
      <4> QED  BY <4>3, <4>4 DEF Spares, Safe
    <3>2. CASE ~own /\ rk \in DOMAIN t.forwards /\ Endpoint(t, rk) = k
      <4>1. u = t  BY <1>1, <3>2
      <4> QED  BY <3>2, <4>1 DEF NatInv, Sound, Forwarded, Safe
    <3>3. CASE ~own /\ ~ (rk \in DOMAIN t.forwards /\ Endpoint(t, rk) = k)
      <4>1. PICK rks : rks = {rk}  OBVIOUS
      <4>2. u = RemoveMappingsAt(t, rks)  BY <1>1, <3>3, <4>1
      <4>3. Sound(t) /\ Displaced(t, rks)  BY DEF NatInv, Displaced
      <4>4. /\ NatInv(u) /\ Shrinks(t, u) /\ u.byEndpoint = t.byEndpoint
            /\ DOMAIN u.reverse = DOMAIN t.reverse \ rks /\ LeavesLiving(t, u, rks)
        BY <4>2, <4>3, RemoveMappingsKeeps
      <4>5. ASSUME NEW j, NEW r, NEW p, Safe(t, j, r, p)
            PROVE  \/ j \in DOMAIN u.mappings /\ Lives(u.mappings[j], r, p)
                   \/ At(j, p) = rk /\ rk \in DOMAIN t.forwards /\ j # k
        <5>1. j \in DOMAIN t.mappings /\ Lives(t.mappings[j], r, p)  BY <4>5 DEF Safe
        <5>2. PICK x : x = At(j, p)  OBVIOUS
        <5>3. CASE x # rk  BY <4>1, <4>4, <5>1, <5>2, <5>3 DEF LeavesLiving
        <5>4. CASE x = rk
          <6>1. x \in DOMAIN t.reverse /\ t.reverse[x] = j  BY <5>1, <5>2, LivesBound
          <6>2. rk \in DOMAIN t.forwards  BY <1>5, <3>3, <5>4, <6>1
          <6>3. j # k  BY <3>3, <5>4, <6>1
          <6> QED  BY <5>2, <5>4, <6>2, <6>3
        <5> QED  BY <5>3, <5>4
      <4> QED  BY <4>1, <4>4, <4>5 DEF Shrinks
    <3> QED  BY <3>1, <3>2, <3>3
  <2>4. MayForward(u, rk, k)  BY <2>1, <2>2, <2>3 DEF MayForward
  <2>5. f.key = k /\ n = ForwardsInsert(u, rk, f)  BY <1>2, <1>3, <1>5
  <2>6. NatInv(n) /\ n.mappings = u.mappings /\ Endpoint(n, rk) = k
    BY <2>3, <2>4, <2>5, InsertKeeps
  <2>7. LivesOrTaken(t, n)  BY <2>3, <2>6 DEF LivesOrTaken
  <2> QED  BY <2>6, <2>7
<1> QED  BY <1>4, <1>5

LEMMA WithoutStaleGoes ==
    ASSUME NEW t, NatInv(t), NEW k PROVE Goes(t, WithoutStale(t, k))
<1>1. PICK rk : rk = t.byEndpoint[k]  OBVIOUS
<1>2. \/ WithoutStale(t, k) = t
      \/ ForwardLapsed(t, rk) /\ WithoutStale(t, k) = DropForwards(t, {rk})
  BY <1>1 DEF WithoutStale
<1> QED  BY <1>2, DropLapsedAtGoes, GoesSelf

-----------------------------------------------------------------------------
(* The mappings that ALGs ask for.                                         *)

LEMMA AlgOpenGoes ==
    ASSUME NEW t, NatInv(t), NEW k, NEW created PROVE Goes(t, AlgOpen(t, k, created))
<1>1. PICK v : v = ALG_OPEN_WINDOW  OBVIOUS
<1>2. PICK n : n = AlgOpen(t, k, created)  OBVIOUS
<1>3. CASE n = t  BY <1>2, <1>3, GoesSelf
<1>4. CASE k \in DOMAIN t.mappings /\ n = [t EXCEPT !.mappings[k].open = TRUE]
  BY <1>2, <1>4, OpenedRenewed
<1>5. CASE k \in DOMAIN t.mappings /\ n = [t EXCEPT !.mappings[k].openLeft = v]
  <2>1. PICK m : m = t.mappings[k]  OBVIOUS
  <2>2. MappingOK(m) /\ Side(m)
    BY <1>5, <2>1 DEF NatInv, Sound, MappingsOK, MappingOK
  <2>3. PICK x : x = [m EXCEPT !.openLeft = v]  OBVIOUS
  <2>4. Same(m, x)  BY <2>2, <2>3, SideSet, AlikeSame
  <2>5. n = [t EXCEPT !.mappings[k] = x]  BY <1>5, <2>1, <2>3
  <2>6. x.peers = m.peers /\ x.port = m.port /\ x.alias = m.alias  BY <2>2, <2>3 DEF Side
  <2>7. Goes(t, n)  BY <1>5, <2>1, <2>4, <2>5, <2>6, SameSessions
  <2> QED  BY <1>2, <2>7
<1> QED  BY <1>1, <1>2, <1>3, <1>4, <1>5 DEF AlgOpen

LEMMA AnnouncedKeeps ==
    ASSUME NEW t, NatInv(t), NEW k \in Keys PROVE Keeps(t, Announced(t, k))
<1>1. PICK u : u = GetOrCreate(t, k)  OBVIOUS
<1>2. PICK created : created = (k \notin DOMAIN t.mappings)  OBVIOUS
<1>3. Keeps(t, u)  BY <1>1, GetOrCreateKeeps
<1>4. Announced(t, k) = AlgOpen(u, k, created)  BY <1>1, <1>2 DEF Announced
<1>5. Keeps(u, AlgOpen(u, k, created))  BY <1>3, AlgOpenGoes DEF Goes, Keeps
<1> QED  BY <1>3, <1>4, <1>5, KeepsOn

LEMMA ReuseForKeeps ==
    ASSUME NEW t, NatInv(t), NEW k \in DOMAIN t.mappings
    PROVE  Keeps(t, ReuseFor(t, k)) /\ DOMAIN ReuseFor(t, k).mappings = DOMAIN t.mappings
<1>1. PICK m : m = t.mappings[k]  OBVIOUS
<1>2. PICK x : x = Touch(k, m)  OBVIOUS
<1>3. PICK u : u = [t EXCEPT !.mappings[k] = x]  OBVIOUS
<1>4. MappingOK(m) /\ Side(m)  BY <1>1 DEF NatInv, Sound, MappingsOK, MappingOK
<1>5. Same(m, x)  BY <1>2, <1>4, TouchIs, AlikeSame
<1>6. Renewed(t, u)  BY <1>1, <1>3, <1>5, MappingRenewed
<1>7. NatInv(u) /\ DOMAIN u.mappings = DOMAIN t.mappings
  BY <1>6, RenewedKeeps DEF Renewed
<1>8. x.peers = m.peers /\ x.port = m.port /\ x.alias = m.alias
  BY <1>2, <1>4 DEF Side, Touch
<1>9. Goes(t, u)  BY <1>1, <1>3, <1>5, <1>8, SameSessions
<1>10. PICK no : no = FALSE  OBVIOUS
<1>11. ReuseFor(t, k) = AlgOpen(u, k, no)  BY <1>1, <1>2, <1>3, <1>10 DEF ReuseFor
<1>12. Goes(u, AlgOpen(u, k, no))  BY <1>7, AlgOpenGoes
<1>13. DOMAIN AlgOpen(u, k, no).mappings = DOMAIN u.mappings
  <2>1. Rec(u)  BY <1>7 DEF NatInv, Sound
  <2> QED  BY <2>1 DEF AlgOpen, Rec
<1> QED  BY <1>7, <1>9, <1>11, <1>12, <1>13, GoesOn DEF Goes

LEMMA MapPairKeeps ==
    ASSUME NEW t, NatInv(t), NEW k1 \in Keys, NEW k2 \in Keys, k1 # k2,
           k1 \notin DOMAIN t.mappings, k2 \notin DOMAIN t.mappings,
           NEW p \in Ports, p + 1 \in Ports, Unused(t, p), Unused(t, p + 1),
           NEW u, SameTables(t, u)
    PROVE  Keeps(t, MapPair(u, k1, k2, p))
<1>1. PICK q : q = p + 1  OBVIOUS
<1>2. p \in Nat /\ q \in Ports /\ p # q  BY <1>1, PoolIs
<1>3. PICK v : v = Map(u, k1, Mapping(k1, p, TRUE))  OBVIOUS
<1>4. PICK n : n = Map(v, k2, Mapping(k2, q, TRUE))  OBVIOUS
<1>5. FreeFor(t, k1, p)  BY UnusedIsFree
<1>6. PICK yes : yes = TRUE  OBVIOUS
<1>7. v = Map(u, k1, Mapping(k1, p, yes))  BY <1>3, <1>6
<1>8. /\ Keeps(t, v) /\ NatInv(v) /\ DOMAIN v.mappings = DOMAIN t.mappings \cup {k1}
      /\ DOMAIN v.reverse = DOMAIN t.reverse \cup {At(k1, p)}
      /\ v.forwards = t.forwards /\ v.expectations = t.expectations
  BY <1>5, <1>7, NewMapKeeps DEF Keeps
<1>9. At(k1, p)[2] = p  BY DEF At
<1>10. Unused(v, q)  BY <1>1, <1>2, <1>8, <1>9 DEF Unused
<1>11. FreeFor(v, k2, q)  BY <1>2, <1>10, UnusedIsFree
<1>12. SameTables(v, v)  BY <1>8 DEF SameTables, SameForwards, NatInv, Sound
<1>13. n = Map(v, k2, Mapping(k2, q, yes))  BY <1>4, <1>6
<1>14. Keeps(v, n)  BY <1>8, <1>11, <1>12, <1>13, NewMapKeeps
<1>15. Keeps(t, u)  BY GoesSameTables DEF Goes
<1>16. MapPair(u, k1, k2, p) = u \/ MapPair(u, k1, k2, p) = n
  BY <1>1, <1>3, <1>4 DEF MapPair
<1> QED  BY <1>8, <1>14, <1>15, <1>16, KeepsOn

LEMMA MapPairAtKeeps ==
    ASSUME NEW t, NatInv(t), NEW k1 \in Keys, NEW k2 \in Keys, k1 # k2,
           k1 \notin DOMAIN t.mappings, k2 \notin DOMAIN t.mappings,
           NEW a, a = AllocPair(t)
    PROVE  Keeps(t, MapPairAt(a, k1, k2))
<1>1. /\ Goes(t, a.t)
      /\ \/ a.port = NoPort
         \/ /\ {a.port, a.port + 1} \subseteq Ports
            /\ Unused(a.t, a.port) /\ Unused(a.t, a.port + 1)
  BY AllocPairIs
<1>2. CASE a.port = NoPort
  <2>1. MapPairAt(a, k1, k2) = a.t  BY <1>2 DEF MapPairAt
  <2> QED  BY <1>1, <2>1 DEF Goes
<1>3. CASE a.port # NoPort
  <2>1. PICK v : v = a.t  OBVIOUS
  <2>2. PICK p : p = a.port  OBVIOUS
  <2>3. PICK u : u = WithHost(v, HostOf(k1), FALSE)  OBVIOUS
  <2>4. MapPairAt(a, k1, k2) = MapPair(u, k1, k2, p)
    BY <1>3, <2>1, <2>2, <2>3 DEF MapPairAt
  <2>5. NatInv(v) /\ k1 \notin DOMAIN v.mappings /\ k2 \notin DOMAIN v.mappings
    BY <1>1, <2>1 DEF Goes, Keeps, Shrinks
  <2>6. SameTables(v, u)  BY <2>3, <2>5, WithHostIs DEF NatInv, Sound
  <2>7. p \in Ports /\ p + 1 \in Ports /\ Unused(v, p) /\ Unused(v, p + 1)
    BY <1>1, <1>3, <2>1, <2>2
  <2>8. Keeps(v, MapPair(u, k1, k2, p))  BY <2>5, <2>6, <2>7, MapPairKeeps
  <2>9. Keeps(t, v)  BY <1>1, <2>1 DEF Goes
  <2> QED  BY <2>4, <2>8, <2>9, KeepsOn
<1> QED  BY <1>2, <1>3

-----------------------------------------------------------------------------
(* Namespaces that go, and time.                                           *)

LEMMA WithoutNamespaceKeeps ==
    ASSUME NEW t, NatInv(t), NEW ns, NEW n, n = WithoutNamespace(t, ns)
    PROVE  /\ NatInv(n)
           /\ \A k \in DOMAIN t.mappings : k.ns # ns =>
                 k \in DOMAIN n.mappings /\ n.mappings[k] = t.mappings[k]
<1>1. PICK es : es = {e \in DOMAIN t.expectations : e.target.ns = ns}  OBVIOUS
<1>2. PICK u : u = ExpectationsDrop(t, es)  OBVIOUS
<1>3. PICK rks : rks = {rk \in DOMAIN u.forwards : Endpoint(u, rk).ns = ns}  OBVIOUS
<1>4. PICK v : v = ForwardsRemove(u, rks)  OBVIOUS
<1>5. PICK mine : mine = {k \in DOMAIN v.mappings : k.ns = ns}  OBVIOUS
<1>6. PICK bound : bound = {rk \in DOMAIN v.reverse :
                              /\ v.reverse[rk] \in mine
                              /\ rk[2] \in PortsOf(v.mappings[v.reverse[rk]])}
  OBVIOUS
<1>7. PICK w : w = Unbind(v, bound)  OBVIOUS
<1>8. n = [w EXCEPT !.mappings = Without(@, mine)]
  <2>1. n = Unmapped(v, mine)  BY <1>5, <1>1, <1>2, <1>3, <1>4 DEF WithoutNamespace
  <2> QED  BY <1>6, <1>7, <2>1 DEF Unmapped
<1>9. NatInv(u) /\ u.mappings = t.mappings
  <2>1. es \in SUBSET DOMAIN t.expectations  BY <1>1
  <2> QED  BY <1>2, <2>1, DropKeeps
<1>10. Sound(v) /\ Displaced(v, rks) /\ v.mappings = t.mappings
  BY <1>4, <1>9, ForwardsRemoveKeeps
<1>11. Unbinds(v, w, bound)  BY <1>7, <1>10, UnbindIs DEF Sound
<1>12. Counted(w)  BY <1>10, <1>11, UnbindCounted DEF Sound
<1>13. PICK ms : ms = Without(t.mappings, mine)  OBVIOUS
<1>14. n = [w EXCEPT !.mappings = ms]
  <2>1. w.mappings = t.mappings  BY <1>10, <1>11 DEF Unbinds
  <2> QED  BY <1>8, <1>13, <2>1
<1>15. Remapped(w, n, ms)  BY <1>11, <1>14, RemappedIs DEF Unbinds
<1>16. /\ Rec(n) /\ SameForwards(v, n) /\ n.expectations = v.expectations
       /\ n.mappings = ms /\ n.reverse = Without(v.reverse, bound)
  BY <1>11, <1>15 DEF Remapped, Unbinds, SameForwards
<1>17. Counted(n)  BY <1>12, <1>15, SameCounted DEF Remapped, SameForwards
<1>18. /\ DOMAIN n.reverse = DOMAIN v.reverse \ bound
       /\ \A x \in DOMAIN n.reverse : n.reverse[x] = v.reverse[x]
  BY <1>16 DEF Without, Restrict
<1>19. /\ DOMAIN n.mappings = DOMAIN v.mappings \ mine
       /\ \A k \in DOMAIN n.mappings : n.mappings[k] = v.mappings[k]
  BY <1>10, <1>13, <1>16 DEF Without, Restrict
<1>20. Agree(v) /\ MappingsOK(v)  BY <1>10 DEF Sound
<1>21. MappingsOK(n)  BY <1>19, <1>20 DEF MappingsOK
<1>22. ASSUME NEW x \in DOMAIN v.reverse, v.reverse[x] \in mine PROVE x \in bound
  <2>1. PICK p \in PortsOf(v.mappings[v.reverse[x]]) : x = At(v.reverse[x], p)
    BY <1>20 DEF Agree
  <2>2. x[2] = p  BY <2>1 DEF At
  <2> QED  BY <1>6, <1>22, <2>1, <2>2
<1>23. ASSUME NEW x \in DOMAIN n.reverse
       PROVE  /\ n.reverse[x] \in DOMAIN n.mappings
              /\ \E p \in PortsOf(n.mappings[n.reverse[x]]) : x = At(n.reverse[x], p)
  <2>1. PICK k : k = n.reverse[x]  OBVIOUS
  <2>2. x \in DOMAIN v.reverse /\ v.reverse[x] = k /\ x \notin bound  BY <1>18, <2>1
  <2>3. k \notin mine  BY <1>22, <2>2
  <2>4. k \in DOMAIN v.mappings /\ \E p \in PortsOf(v.mappings[k]) : x = At(k, p)
    BY <1>20, <2>2 DEF Agree
  <2> QED  BY <1>19, <2>1, <2>3, <2>4
<1>24. ASSUME NEW k \in DOMAIN n.mappings, NEW p \in PortsOf(n.mappings[k])
       PROVE  At(k, p) \in DOMAIN n.reverse /\ n.reverse[At(k, p)] = k
  <2>1. PICK x : x = At(k, p)  OBVIOUS
  <2>2. k \in DOMAIN v.mappings /\ k \notin mine /\ p \in PortsOf(v.mappings[k])
    BY <1>19
  <2>3. x \in DOMAIN v.reverse /\ v.reverse[x] = k  BY <1>20, <2>1, <2>2 DEF Agree
  <2>4. x \notin bound  BY <1>6, <2>2, <2>3
  <2> QED  BY <1>18, <2>1, <2>3, <2>4
<1>25. Agree(n)  BY <1>23, <1>24 DEF Agree
<1>26. ASSUME NEW k \in DOMAIN n.mappings, n.mappings[k].alias # {}
       PROVE  At(k, n.mappings[k].port) \notin rks
  <2>1. k \in DOMAIN u.mappings /\ k \notin mine /\ n.mappings[k] = u.mappings[k]
    BY <1>9, <1>10, <1>19
  <2>2. Endpoint(u, At(k, n.mappings[k].port)) = k
    BY <1>9, <1>26, <2>1 DEF NatInv, Displaced
  <2>3. k.ns # ns  BY <1>5, <1>9, <1>10, <2>1
  <2> QED  BY <1>3, <2>2, <2>3
<1>27. CutBack(v, n, rks)
  BY <1>16, <1>17, <1>18, <1>19, <1>21, <1>25, <1>26 DEF CutBack
<1>28. NatInv(n)  BY <1>10, <1>27, CutKeeps
<1> QED  BY <1>5, <1>10, <1>19, <1>28

LEMMA AgedSideIs ==
    ASSUME NEW s, Side(s)
    PROVE  Alike(s, AgedSide(s)) /\ DOMAIN AgedSide(s).peers = DOMAIN s.peers
<1>1. PICK l : l = Less(s.left)  OBVIOUS
<1>2. PICK o : o = Less(s.openLeft)  OBVIOUS
<1>3. PICK ps : ps = [r \in DOMAIN s.peers |->
                        [left |-> Less(s.peers[r].left), st |-> s.peers[r].st]]
  OBVIOUS
<1>4. PICK n : n = [s EXCEPT !.left = l, !.openLeft = o, !.peers = ps]  OBVIOUS
<1>5. AgedSide(s) = n  BY <1>1, <1>2, <1>3, <1>4 DEF AgedSide
<1>6. n = [port |-> s.port, left |-> l, peers |-> ps, open |-> s.open,
           openLeft |-> o, alias |-> s.alias]
  BY <1>4 DEF Side
<1>7. DOMAIN n.peers = DOMAIN s.peers  BY <1>3, <1>6
<1> QED  BY <1>5, <1>6, <1>7 DEF Alike, Side

LEMMA AgedMappingSame ==
    ASSUME NEW m, MappingOK(m)
    PROVE  /\ Same(m, AgedMapping(m))
           /\ \A r, p : Lives(m, r, p) => Holds(AgedMapping(m), r, p)
<1>1. PICK u : u = AgedSide(m)  OBVIOUS
<1>2. Alike(m, u) /\ DOMAIN u.peers = DOMAIN m.peers  BY <1>1, AgedSideIs DEF MappingOK
<1>3. PICK as : as = {AgedSide(a) : a \in m.alias}  OBVIOUS
<1>4. PICK n : n = [u EXCEPT !.alias = as]  OBVIOUS
<1>5. AgedMapping(m) = n  BY <1>1, <1>2, <1>3, <1>4 DEF AgedMapping, Alike
<1>6. Side(n) /\ n.port = m.port /\ n.alias = as /\ DOMAIN n.peers = DOMAIN m.peers
  BY <1>2, <1>4, AliasSet DEF Alike
<1>7. CASE m.alias = {}
  <2>1. n.alias = {}  BY <1>3, <1>6, <1>7
  <2>2. Same(m, n)  BY <1>6, <1>7, <2>1 DEF Same, MappingOK, PortsOf
  <2>3. \A r, p : Tracks(m, r, p) => Tracks(n, r, p)  BY <1>6, <1>7, <2>1 DEF Tracks
  <2> QED  BY <1>5, <2>2, <2>3, LivesTracks, TracksHolds DEF Same
<1>8. ASSUME NEW a \in m.alias, m.alias = {a}, Side(a), a.alias = {}, a.port # m.port
      PROVE  Same(m, n) /\ \A r, p : Lives(m, r, p) => Holds(n, r, p)
  <2>1. PICK b : b = AgedSide(a)  OBVIOUS
  <2>2. Side(b) /\ b.port = a.port /\ b.alias = {} /\ DOMAIN b.peers = DOMAIN a.peers
    BY <1>8, <2>1, AgedSideIs DEF Alike
  <2>3. n.alias = {b}  BY <1>3, <1>6, <1>8, <2>1
  <2>4. MappingOK(n)  BY <1>6, <1>8, <2>2, <2>3 DEF MappingOK
  <2>5. PortsOf(n) = PortsOf(m)  BY <1>6, <1>8, <2>2, <2>3 DEF PortsOf
  <2>6. Same(m, n)  BY <1>6, <1>8, <2>3, <2>4, <2>5 DEF Same
  <2>7. \A r, p : Tracks(m, r, p) => Tracks(n, r, p)
    BY <1>6, <1>8, <2>2, <2>3 DEF Tracks
  <2> QED  BY <2>4, <2>6, <2>7, LivesTracks, TracksHolds
<1> QED  BY <1>5, <1>7, <1>8 DEF MappingOK

(* n is t with other times left.                                           *)
Elapsed(t, n, ms, fs, xs) ==
    /\ Rec(n) /\ n.mappings = ms /\ n.reverse = t.reverse /\ n.holders = t.holders
    /\ n.forwards = fs /\ n.byEndpoint = t.byEndpoint /\ n.expectations = xs

LEMMA ElapsedIs ==
    ASSUME NEW t, Rec(t), NEW ms, NEW fs, NEW xs, NEW c,
           NEW n, n = [t EXCEPT !.mappings = ms, !.forwards = fs, !.expectations = xs,
                                !.reclaim = c]
    PROVE  Elapsed(t, n, ms, fs, xs)
<1>1. n = [mappings |-> ms, reverse |-> t.reverse, holders |-> t.holders,
           nextPort |-> t.nextPort, reclaim |-> c, forwards |-> fs,
           byEndpoint |-> t.byEndpoint, expectations |-> xs,
           hosts |-> t.hosts, limits |-> t.limits]
  BY DEF Rec
<1> QED  BY <1>1 DEF Elapsed, Rec

LEMMA AgedPasses ==
    ASSUME NEW t, NatInv(t), NEW n, n = Aged(t) PROVE Passes(t, n)
<1>1. PICK ms : ms = [k \in DOMAIN t.mappings |-> AgedMapping(t.mappings[k])]  OBVIOUS
<1>2. PICK fs : fs = [rk \in DOMAIN t.forwards |->
                        [key |-> t.forwards[rk].key, left |-> Less(t.forwards[rk].left)]]
  OBVIOUS
<1>3. PICK xs : xs = [e \in DOMAIN t.expectations |->
                        [left |-> Less(t.expectations[e].left),
                         one |-> t.expectations[e].one]]
  OBVIOUS
<1>4. PICK c : c = IF t.reclaim = 0 THEN 0 ELSE t.reclaim - 1  OBVIOUS
<1>5. n = [t EXCEPT !.mappings = ms, !.forwards = fs, !.expectations = xs, !.reclaim = c]
  BY <1>1, <1>2, <1>3, <1>4 DEF Aged
<1>6. Elapsed(t, n, ms, fs, xs)  BY <1>5, ElapsedIs DEF NatInv, Sound
<1>7. DOMAIN n.mappings = DOMAIN t.mappings  BY <1>1, <1>6 DEF Elapsed
<1>8. \A k \in DOMAIN t.mappings : Same(t.mappings[k], n.mappings[k])
  BY <1>1, <1>6, AgedMappingSame DEF Elapsed, NatInv, Sound, MappingsOK
<1>9. /\ DOMAIN n.forwards = DOMAIN t.forwards
      /\ \A rk \in DOMAIN t.forwards : Endpoint(n, rk) = Endpoint(t, rk)
  BY <1>2, <1>6 DEF Elapsed, Endpoint
<1>10. /\ DOMAIN n.expectations = DOMAIN t.expectations
       /\ \A e \in DOMAIN t.expectations :
            /\ n.expectations[e].one = t.expectations[e].one
            /\ n.expectations[e].left = Less(t.expectations[e].left)
  BY <1>3, <1>6 DEF Elapsed
<1>11. Live(n) \subseteq Live(t)  BY <1>10 DEF Live, Lapsed, Less
<1>12. Rec(n) /\ n.reverse = t.reverse /\ n.holders = t.holders /\ n.byEndpoint = t.byEndpoint
  BY <1>6 DEF Elapsed
<1>13. Renewed(t, n)  BY <1>7, <1>8, <1>9, <1>10, <1>11, <1>12 DEF Renewed
<1>14. \A k \in DOMAIN t.mappings : \A r, p :
         Lives(t.mappings[k], r, p) => Holds(n.mappings[k], r, p)
  BY <1>1, <1>6, AgedMappingSame DEF Elapsed, NatInv, Sound, MappingsOK
<1>15. Carried(t, n)  BY <1>7, <1>14 DEF Carried, Safe
<1> QED  BY <1>13, <1>15, RenewedKeeps DEF Passes

-----------------------------------------------------------------------------
(* The invariant.                                                          *)

LEMMA InitInvariant == ASSUME Init PROVE NatInvariant
<1>1. PICK l : l = CHOOSE x \in scope.limits : TRUE  OBVIOUS
<1>2. inner = [mappings |-> <<>>, reverse |-> <<>>, holders |-> [p \in Ports |-> 0],
               nextPort |-> PORT_MIN, reclaim |-> 0, forwards |-> <<>>,
               byEndpoint |-> <<>>, expectations |-> <<>>, hosts |-> {},
               limits |-> l]
  BY <1>1 DEF Init
<1>3. Rec(inner)  BY <1>2 DEF Rec
<1>4. /\ DOMAIN inner.mappings = {} /\ DOMAIN inner.reverse = {}
      /\ DOMAIN inner.forwards = {} /\ DOMAIN inner.byEndpoint = {}
      /\ DOMAIN inner.expectations = {}
  BY <1>2
<1>5. Counted(inner)
  <2>1. inner.holders = [p \in Ports |-> 0]  BY <1>2
  <2>2. IsFiniteSet({}) /\ Cardinality({}) = 0  BY FS_EmptySet
  <2>3. \A p : OnPort({}, p) = {} /\ ExpectedOn({}, p) = {}  BY DEF OnPort, ExpectedOn
  <2>4. \A p \in Ports : Bound(inner, p) = 0 /\ Forwards(inner, p) = 0
                         /\ Expects(inner, p) = 0
    BY <1>4, <2>2, <2>3 DEF Bound, Forwards, Expects
  <2>5. IsCount(inner.holders)  BY <2>1 DEF IsCount
  <2>6. \A p \in Ports : inner.holders[p] = Bound(inner, p) + Forwards(inner, p)
                                            + Expects(inner, p)
    BY <2>1, <2>4
  <2> QED  BY <1>4, <2>2, <2>5, <2>6, CountedIs
<1>6. MappingsOK(inner) /\ Agree(inner) /\ Forwarded(inner) /\ Displaced(inner, {})
  BY <1>4 DEF MappingsOK, Agree, Forwarded, Displaced
<1>7. Expecting(inner)  BY <1>4 DEF Expecting, ExpectingBut, Live
<1> QED  BY <1>3, <1>5, <1>6, <1>7 DEF NatInvariant, NatInv, Sound

(* What a step does: it keeps the invariant, and the sessions that have no *)
(* reason to end keep their port.                                          *)
SessionsStay ==
    \A k, r, p :
        Safe(inner, k, r, p) /\ ~ForwardEnds(At(k, p)) /\ k.ns \notin attached \ attached'
        => k \in DOMAIN inner'.mappings /\ Holds(inner'.mappings[k], r, p)

NatStep == NatInv(inner') /\ SessionsStay

LEMMA PassesStep == ASSUME Passes(inner, inner') PROVE NatStep
BY DEF Passes, Carried, NatStep, SessionsStay, NatInvariant

LEMMA KeepsStep == ASSUME Keeps(inner, inner') PROVE NatStep
BY KeepsPasses, PassesStep

LEMMA SweptKeeps == ASSUME NatInvariant PROVE Keeps(inner, Swept)
<1>1. PICK none : none = {}  OBVIOUS
<1>2. Keeps(inner, Expire(inner, none))  BY ExpireKeeps DEF NatInvariant, Goes
<1>3. Swept = inner \/ Swept = Expire(inner, none)  BY <1>1 DEF Swept
<1>4. Keeps(inner, inner)  BY GoesSelf DEF NatInvariant, Goes
<1> QED  BY <1>2, <1>3, <1>4

LEMMA KeyAt == ASSUME NEW k \in Keys, NEW p \in Ports
               PROVE  At(k, p) \in Rks /\ At(k, p)[2] = p
BY NatAssumption DEF At, Rks

LEMMA PacketsKeep ==
    ASSUME NatInvariant
    PROVE  /\ \A k \in Keys : \A r, flags : Outbound(k, r, flags) => NatStep
           /\ \A k \in Keys : \A p, flags : Hairpin(k, p, flags) => NatStep
           /\ \A rk, r, flags : Inbound(rk, r, flags) => NatStep
<1>1. PICK t : t = Swept  OBVIOUS
<1>2. Keeps(inner, t)  BY <1>1, SweptKeeps
<1>3. NatInv(t)  BY <1>2 DEF Keeps
<1>4. ASSUME NEW k \in Keys, NEW r, NEW flags, Outbound(k, r, flags) PROVE NatStep
  <2>1. inner' = SendOut(t, k, r, flags)  BY <1>1, <1>4 DEF Outbound
  <2>2. Keeps(t, inner')  BY <1>3, <2>1, SendOutKeeps
  <2> QED  BY <1>2, <2>2, KeepsOn, KeepsStep
<1>5. ASSUME NEW k \in Keys, NEW p, NEW flags, Hairpin(k, p, flags) PROVE NatStep
  <2>1. PICK u : u = SendOut(t, k, p, flags)  OBVIOUS
  <2>2. Keeps(t, u)  BY <1>3, <2>1, SendOutKeeps
  <2>3. inner' \in TurnAround(u, k, p, flags)  BY <1>1, <1>5, <2>1 DEF Hairpin
  <2>4. Passes(u, inner')  BY <2>2, <2>3, TurnAroundPasses DEF Keeps
  <2>5. Passes(inner, inner')  BY <1>2, <2>2, <2>4, KeepsOn, PassesOn
  <2> QED  BY <2>5, PassesStep
<1>6. ASSUME NEW rk, NEW r, NEW flags, Inbound(rk, r, flags) PROVE NatStep
  <2>1. inner' \in Deliver(t, rk, r, flags)  BY <1>1, <1>6 DEF Inbound
  <2>2. Passes(t, inner')  BY <1>3, <2>1, DeliverPasses
  <2> QED  BY <1>2, <2>2, PassesOn, PassesStep
<1> QED  BY <1>4, <1>5, <1>6

(* A session on a port that is taken over was carried by the forward that  *)
(* now leads elsewhere.                                                    *)
LEMMA AddPortForwardKeeps ==
    ASSUME NatInvariant, NEW k \in Keys, NEW p \in Ports, NEW left,
           AddPortForward(At(k, p), k, left)
    PROVE  NatStep
<1>1. PICK rk : rk = At(k, p)  OBVIOUS
<1>2. rk \in Rks /\ rk = At(k, rk[2])  BY <1>1, KeyAt
<1>3. PICK u : u = ExpirePort(inner, rk)  OBVIOUS
<1>4. Goes(inner, u)  BY <1>3, ExpirePortGoes DEF NatInvariant
<1>5. PICK v : v = WithoutStale(u, k)  OBVIOUS
<1>6. Goes(u, v)  BY <1>4, <1>5, WithoutStaleGoes DEF Goes, Keeps
<1>7. Goes(inner, v)  BY <1>4, <1>6, GoesOn
<1>8. inner' = Forwarding(v, rk, k, left)  BY <1>1, <1>3, <1>5 DEF AddPortForward
<1>9. NatInv(v)  BY <1>7 DEF Goes, Keeps
<1>10. NatInv(inner') /\ LivesOrTaken(v, inner')  BY <1>2, <1>8, <1>9, ForwardingKeeps
<1>11. ASSUME NEW j, NEW r, NEW q, Safe(inner, j, r, q), ~ForwardEnds(At(j, q))
       PROVE  j \in DOMAIN inner'.mappings /\ Holds(inner'.mappings[j], r, q)
  <2>1. Safe(v, j, r, q)  BY <1>7, <1>11 DEF Goes, Keeps, Spares
  <2>2. PICK x : x = At(j, q)  OBVIOUS
  <2>3. CASE x \in DOMAIN v.forwards /\ Endpoint(inner', x) # j
    <3>1. x \in DOMAIN inner.forwards  BY <1>7, <2>3 DEF Goes, Shrinks
    <3>2. x \in DOMAIN inner.reverse /\ inner.reverse[x] = j
      BY <1>11, <2>2, LivesBound DEF NatInvariant, Safe
    <3>3. Endpoint(inner, x) = j
      BY <3>1, <3>2 DEF NatInvariant, NatInv, Sound, Forwarded
    <3> QED  BY <1>11, <2>2, <2>3, <3>1, <3>3 DEF ForwardEnds
  <2>4. CASE j \in DOMAIN inner'.mappings /\ Lives(inner'.mappings[j], r, q)
    <3>1. MappingOK(inner'.mappings[j])  BY <1>10, <2>4 DEF NatInv, Sound, MappingsOK
    <3> QED  BY <2>4, <3>1, LivesCarries
  <2> QED  BY <1>10, <2>1, <2>2, <2>3, <2>4 DEF LivesOrTaken
<1> QED  BY <1>10, <1>11 DEF NatStep, SessionsStay, NatInvariant

LEMMA CreateMappingsKeep ==
    ASSUME NatInvariant, NEW k \in Keys
    PROVE  /\ CreateMapping(k) => NatStep
           /\ \A j \in Keys : CreateMappingPair(k, j) => NatStep
<1>1. ASSUME CreateMapping(k) PROVE NatStep
  <2>1. PICK ks : ks = {k}  OBVIOUS
  <2>2. PICK u : u = ExpireMappings(inner, ks)  OBVIOUS
  <2>3. Keeps(inner, u)  BY <2>2, ExpireMappingsKeeps DEF NatInvariant, Keeps
  <2>4. inner' = Announced(u, k)  BY <1>1, <2>1, <2>2 DEF CreateMapping
  <2>5. Keeps(u, inner')  BY <2>3, <2>4, AnnouncedKeeps DEF Keeps
  <2> QED  BY <2>3, <2>5, KeepsOn, KeepsStep
<1>2. ASSUME NEW j \in Keys, CreateMappingPair(k, j) PROVE NatStep
  <2>1. k # j  BY <1>2 DEF CreateMappingPair
  <2>2. CASE /\ {k, j} \cap DOMAIN inner.mappings = {k, j}
             /\ inner' = ReuseFor(ReuseFor(inner, k), j)
    <3>1. k \in DOMAIN inner.mappings /\ j \in DOMAIN inner.mappings  BY <2>2
    <3>2. PICK u : u = ReuseFor(inner, k)  OBVIOUS
    <3>3. Keeps(inner, u) /\ j \in DOMAIN u.mappings
      BY <3>1, <3>2, ReuseForKeeps DEF NatInvariant
    <3>4. Keeps(u, ReuseFor(u, j))  BY <3>3, ReuseForKeeps DEF Keeps
    <3>5. Keeps(inner, inner')  BY <2>2, <3>2, <3>3, <3>4, KeepsOn
    <3> QED  BY <3>5, KeepsStep
  <2>3. CASE /\ {k, j} \cap DOMAIN inner.mappings = {}
             /\ inner' = MapPairAt(AllocPair(inner), k, j)
    <3>1. k \notin DOMAIN inner.mappings /\ j \notin DOMAIN inner.mappings  BY <2>3
    <3>2. PICK a : a = AllocPair(inner)  OBVIOUS
    <3>3. Keeps(inner, MapPairAt(a, k, j))
      BY <2>1, <3>1, <3>2, MapPairAtKeeps DEF NatInvariant
    <3> QED  BY <2>3, <3>2, <3>3, KeepsStep
  <2> QED  BY <1>2, <2>2, <2>3 DEF CreateMappingPair
<1> QED  BY <1>1, <1>2

LEMMA ExpectFromKeeps ==
    ASSUME NatInvariant, NEW k \in Keys, NEW r, ExpectFrom(k, r) PROVE NatStep
<1>1. PICK ks : ks = {k}  OBVIOUS
<1>2. PICK t : t = ExpireMappings(inner, ks)  OBVIOUS
<1>3. Keeps(inner, t) /\ NatInv(t)  BY <1>2, ExpireMappingsKeeps DEF NatInvariant, Keeps
<1>4. k.proto = "tcp"  BY DEF ExpectFrom
<1>5. PICK a \in ExpectedPorts(t, k) :
         IF a.port = NoPort THEN inner' = a.t
         ELSE inner' \in AddExpectation(a.t, Expectation(k, a.port, r), TRUE)
  BY <1>1, <1>2 DEF ExpectFrom
<1>6. PICK u : u = a.t  OBVIOUS
<1>7. Keeps(t, u)  BY <1>3, <1>6, ExpectedPortsGo
<1>8. Keeps(inner, u) /\ NatInv(u)  BY <1>3, <1>7, KeepsOn DEF Keeps
<1>9. CASE a.port = NoPort  BY <1>5, <1>6, <1>8, <1>9, KeepsStep
<1>10. CASE a.port # NoPort
  <2>1. PICK p : p = a.port  OBVIOUS
  <2>2. /\ p \in Ports
        /\ \A d \in Live(u) : Rk(d) = At(k, p) /\ Reserves(d, shared) => d.target = k
    BY <1>3, <1>4, <1>6, <1>10, <2>1, ExpectedPortsAre
  <2>3. PICK e : e = Expectation(k, p, r)  OBVIOUS
  <2>4. e.target = k /\ e.port = p /\ Rk(e) = At(k, p)  BY <2>3, OnPortExpectation
  <2>5. Undisputed(u, inner', e, shared)  BY <2>2, <2>4, ReservesSame DEF Undisputed
  <2>6. PICK one : one = TRUE  OBVIOUS
  <2>7. inner' \in AddExpectation(u, e, one)  BY <1>5, <1>6, <1>10, <2>1, <2>3, <2>6
  <2>8. e.target \in Keys /\ e.port \in Ports /\ e.target.proto = "tcp"
    BY <1>4, <2>2, <2>4
  <2>9. KeepsBut(u, inner', shared)  BY <1>8, <2>5, <2>7, <2>8, AddExpectationKeeps
  <2>10. Keeps(u, inner')  BY <2>9, KeepsButShared
  <2> QED  BY <1>8, <2>10, KeepsOn, KeepsStep
<1> QED  BY <1>9, <1>10

(* A port that an ALG's endpoint comes to be expected on beside another is *)
(* shared from then on.                                                    *)
LEMMA ExpectMediaKeeps ==
    ASSUME NatInvariant, NEW k \in Keys, NEW p \in Ports, ExpectMedia(k, p)
    PROVE  NatInvariant' /\ SessionsStay
<1>1. PICK e : e = Expectation(k, p, AnyRemote)  OBVIOUS
<1>2. e.target = k /\ e.port = p /\ Rk(e) = At(k, p)
  <2>1. PICK r : r = AnyRemote  OBVIOUS
  <2> QED  BY <1>1, <2>1, OnPortExpectation
<1>3. PICK one : one = FALSE  OBVIOUS
<1>4. inner' \in AddExpectation(inner, e, one)  BY <1>1, <1>3 DEF ExpectMedia
<1>5. PICK S : S = shared'  OBVIOUS
<1>6. /\ shared \subseteq S
      /\ k.proto = "tcp" /\ At(k, p) \notin S => ExpectedAlone(inner', At(k, p))
  BY <1>5 DEF ExpectMedia
<1>7. Undisputed(inner, inner', e, S)  BY <1>2, <1>6 DEF Undisputed, Reserves
<1>8. KeepsBut(inner, inner', S)
  BY <1>2, <1>3, <1>4, <1>6, <1>7, AddExpectationKeeps DEF NatInvariant
<1>9. NatInvariant'
  BY <1>5, <1>8 DEF KeepsBut, NatInvariant, NatInv, Sound, Expecting
<1>10. Carried(inner, inner')
  <2>1. ASSUME NEW j, NEW r, NEW q, Safe(inner, j, r, q)
        PROVE  j \in DOMAIN inner'.mappings /\ Holds(inner'.mappings[j], r, q)
    <3>1. j \in DOMAIN inner'.mappings /\ Lives(inner'.mappings[j], r, q)
      BY <1>8, <2>1 DEF KeepsBut, Spares, Safe
    <3>2. MappingOK(inner'.mappings[j])  BY <1>8, <3>1 DEF KeepsBut, MappingsOK
    <3> QED  BY <3>1, <3>2, LivesCarries
  <2> QED  BY <2>1 DEF Carried
<1> QED  BY <1>9, <1>10 DEF Carried, SessionsStay

(* The sessions that end with a forward were on its port, and those that   *)
(* end with a namespace were in it.                                        *)
LEMMA OwnerKeeps ==
    ASSUME NatInvariant
    PROVE  /\ \A rk : RemovePortForward(rk) => NatStep
           /\ Sweep => NatStep /\ NothingStale(inner')
           /\ \A l : SetLimits(l) => NatStep
           /\ \A ns : Detach(ns) => NatStep
           /\ Tick => NatStep
<1>1. ASSUME NEW rk, RemovePortForward(rk) PROVE NatStep
  <2>1. PICK rks : rks = {rk}  OBVIOUS
  <2>2. inner' = DropForwards(inner, rks)  BY <1>1, <2>1 DEF RemovePortForward
  <2>3. /\ NatInv(inner') /\ LeavesLiving(inner, inner', rks)
        /\ DOMAIN inner'.forwards = DOMAIN inner.forwards \ rks
    BY <2>2, DropForwardsKeeps DEF NatInvariant
  <2>4. ForwardEnds(rk)  BY <1>1, <2>1, <2>3 DEF ForwardEnds, RemovePortForward
  <2>5. ASSUME NEW k, NEW r, NEW p, Safe(inner, k, r, p), ~ForwardEnds(At(k, p))
        PROVE  k \in DOMAIN inner'.mappings /\ Holds(inner'.mappings[k], r, p)
    <3>1. At(k, p) \notin rks  BY <2>1, <2>4, <2>5
    <3>2. k \in DOMAIN inner'.mappings /\ Lives(inner'.mappings[k], r, p)
      BY <2>3, <2>5, <3>1 DEF LeavesLiving, Safe
    <3>3. MappingOK(inner'.mappings[k])  BY <2>3, <3>2 DEF NatInv, Sound, MappingsOK
    <3> QED  BY <3>2, <3>3, LivesCarries
  <2> QED  BY <2>3, <2>5 DEF NatStep, SessionsStay, NatInvariant
<1>2. ASSUME Sweep PROVE NatStep /\ NothingStale(inner')
  <2>1. PICK none : none = {}  OBVIOUS
  <2>2. PICK n : n = Expire(inner, none)  OBVIOUS
  <2>3. inner' = n  BY <1>2, <2>1, <2>2 DEF Sweep
  <2>4. Keeps(inner, n) /\ NothingStale(n)  BY <2>2, ExpireKeeps DEF NatInvariant, Goes
  <2> QED  BY <2>3, <2>4, KeepsStep
<1>3. ASSUME NEW l, SetLimits(l) PROVE NatStep
  <2>1. inner' = [inner EXCEPT !.limits = l]  BY <1>3 DEF SetLimits
  <2>2. SameTables(inner, [inner EXCEPT !.limits = l])
    BY SameTablesIs DEF NatInvariant, NatInv, Sound
  <2>3. Keeps(inner, [inner EXCEPT !.limits = l])
    BY <2>2, GoesSameTables DEF NatInvariant, Goes
  <2> QED  BY <2>1, <2>3, KeepsStep
<1>4. ASSUME NEW ns, Detach(ns) PROVE NatStep
  <2>1. inner' = WithoutNamespace(inner, ns)  BY <1>4 DEF Detach
  <2>2. /\ NatInv(inner')
        /\ \A k \in DOMAIN inner.mappings : k.ns # ns =>
              k \in DOMAIN inner'.mappings /\ inner'.mappings[k] = inner.mappings[k]
    BY <2>1, WithoutNamespaceKeeps DEF NatInvariant
  <2>3. ns \in attached \ attached'  BY <1>4 DEF Detach
  <2>4. ASSUME NEW k, NEW r, NEW p, Safe(inner, k, r, p), k.ns \notin attached \ attached'
        PROVE  k \in DOMAIN inner'.mappings /\ Holds(inner'.mappings[k], r, p)
    <3>1. k \in DOMAIN inner'.mappings /\ Lives(inner'.mappings[k], r, p)
      BY <2>2, <2>3, <2>4 DEF Safe
    <3>2. MappingOK(inner'.mappings[k])  BY <2>2, <3>1 DEF NatInv, Sound, MappingsOK
    <3> QED  BY <3>1, <3>2, LivesCarries
  <2> QED  BY <2>2, <2>4 DEF NatStep, SessionsStay, NatInvariant
<1>5. ASSUME Tick PROVE NatStep
  <2>1. inner' = Aged(inner)  BY <1>5 DEF Tick
  <2> QED  BY <2>1, AgedPasses, PassesStep DEF NatInvariant
<1> QED  BY <1>1, <1>2, <1>3, <1>4, <1>5

(* Every other step leaves shared alone.                                   *)
LEMMA StepKeeps == ASSUME NatStep, UNCHANGED shared PROVE NatInvariant' /\ SessionsStay
<1>1. /\ Rec(inner') /\ MappingsOK(inner') /\ Agree(inner') /\ Counted(inner')
      /\ Forwarded(inner') /\ ExpectingBut(inner', shared) /\ Displaced(inner', {})
  BY DEF NatStep, NatInv, Sound, Expecting
<1>2. NatInvariant'  BY <1>1 DEF NatInvariant, NatInv, Sound, Expecting
<1> QED  BY <1>2 DEF NatStep

LEMMA SharedStays ==
    /\ \A k, r, flags : Outbound(k, r, flags) => UNCHANGED shared
    /\ \A k, p, flags : Hairpin(k, p, flags) => UNCHANGED shared
    /\ \A rk, r, flags : Inbound(rk, r, flags) => UNCHANGED shared
    /\ \A rk, k, left : AddPortForward(rk, k, left) => UNCHANGED shared
    /\ \A k : CreateMapping(k) => UNCHANGED shared
    /\ \A k, j : CreateMappingPair(k, j) => UNCHANGED shared
    /\ \A k, r : ExpectFrom(k, r) => UNCHANGED shared
    /\ \A rk : RemovePortForward(rk) => UNCHANGED shared
    /\ Sweep => UNCHANGED shared
    /\ \A l : SetLimits(l) => UNCHANGED shared
    /\ \A ns : Detach(ns) => UNCHANGED shared
    /\ Tick => UNCHANGED shared
<1>1. /\ \A k : Sends(k) => UNCHANGED shared
      /\ \A k : Announces(k) => UNCHANGED shared
  BY DEF Sends, Announces, calls
<1>2. /\ \A k, r, flags : Outbound(k, r, flags) => UNCHANGED shared
      /\ \A k, p, flags : Hairpin(k, p, flags) => UNCHANGED shared
      /\ \A rk, r, flags : Inbound(rk, r, flags) => UNCHANGED shared
      /\ \A rk, k, left : AddPortForward(rk, k, left) => UNCHANGED shared
  BY <1>1 DEF Outbound, Hairpin, Inbound, AddPortForward, calls
<1>3. /\ \A k : CreateMapping(k) => UNCHANGED shared
      /\ \A k, j : CreateMappingPair(k, j) => UNCHANGED shared
      /\ \A k, r : ExpectFrom(k, r) => UNCHANGED shared
  BY <1>1 DEF CreateMapping, CreateMappingPair, ExpectFrom
<1>4. /\ \A rk : RemovePortForward(rk) => UNCHANGED shared
      /\ Sweep => UNCHANGED shared
      /\ \A l : SetLimits(l) => UNCHANGED shared
      /\ \A ns : Detach(ns) => UNCHANGED shared
      /\ Tick => UNCHANGED shared
  BY DEF RemovePortForward, Sweep, SetLimits, Detach, Tick, calls
<1> QED  BY <1>2, <1>3, <1>4

LEMMA NextSteps == ASSUME NatInvariant, Next PROVE NatInvariant' /\ SessionsStay
<1>1. ASSUME NEW k \in Keys, NEW p \in Ever("forwards"), NEW left,
             AddPortForward(At(k, p), k, left)
      PROVE  NatStep /\ UNCHANGED shared
  <2>1. PICK s \in Scopes : p \in s["forwards"]  BY DEF Ever
  <2>2. p \in Ports  BY <2>1, NatAssumption
  <2> QED  BY <1>1, <2>2, AddPortForwardKeeps, SharedStays
<1>2. CASE \E k \in Keys, r \in Remotes : \E flags \in FlagsOf(k.proto) :
              Outbound(k, r, flags)
  BY <1>2, PacketsKeep, SharedStays, StepKeeps
<1>3. CASE \E k \in Keys, p \in Ever("hairpins") : \E flags \in FlagsOf(k.proto) :
              Hairpin(k, p, flags)
  BY <1>3, PacketsKeep, SharedStays, StepKeeps
<1>4. CASE \E rk \in {k.proto : k \in Keys} \X Ports, r \in Remotes :
              \E flags \in FlagsOf(rk[1]) : Inbound(rk, r, flags)
  BY <1>4, PacketsKeep, SharedStays, StepKeeps
<1>5. CASE \E k \in Keys, p \in Ever("forwards"), left \in {LEASE, Forever} :
              AddPortForward(At(k, p), k, left)
  BY <1>1, <1>5, StepKeeps
<1>6. CASE \E k \in Keys : CreateMapping(k)
  BY <1>6, CreateMappingsKeep, SharedStays, StepKeeps
<1>7. CASE \E k1, k2 \in Keys : CreateMappingPair(k1, k2)
  BY <1>7, CreateMappingsKeep, SharedStays, StepKeeps
<1>8. CASE \E k \in Keys, r \in Remotes \cup {AnyRemote} : ExpectFrom(k, r)
  BY <1>8, ExpectFromKeeps, SharedStays, StepKeeps
<1>9. CASE \E k \in Keys, p \in Ports : ExpectMedia(k, p)  BY <1>9, ExpectMediaKeeps
<1>10. CASE \/ \E rk \in Protos \X Ports : RemovePortForward(rk)
            \/ Sweep
            \/ \E l \in Ever("limits") : SetLimits(l)
            \/ \E ns \in Namespaces : Detach(ns)
            \/ Tick
  BY <1>10, OwnerKeeps, SharedStays, StepKeeps
<1> QED  BY <1>2, <1>3, <1>4, <1>5, <1>6, <1>7, <1>8, <1>9, <1>10 DEF Next

LEMMA NextInvariant == ASSUME NatInvariant, [Next]_vars PROVE NatInvariant'
<1>1. CASE UNCHANGED vars
  BY <1>1 DEF vars, calls, NatInvariant, NatInv, Sound, Expecting
<1>2. CASE Next  BY <1>2, NextSteps
<1> QED  BY <1>1, <1>2

(* The reverse table and the mappings agree both ways, through every       *)
(* displacement, expiry, take-over and detachment: an outside port leads   *)
(* to one endpoint, whose mapping has a side there.                        *)
THEOREM PortLeadsToOne == Spec => []TablesAgree
<1>1. NatInvariant => TablesAgree
  <2> SUFFICES ASSUME NatInvariant PROVE TablesAgree  OBVIOUS
  <2>1. Agree(inner) /\ MappingsOK(inner)  BY DEF NatInvariant, NatInv, Sound
  <2>2. \A k \in DOMAIN inner.mappings :
          \A a \in inner.mappings[k].alias : a.port # inner.mappings[k].port
    BY <2>1 DEF MappingsOK, MappingOK
  <2>3. \A rk \in DOMAIN inner.reverse :
          /\ inner.reverse[rk] \in DOMAIN inner.mappings
          /\ rk \in {At(inner.reverse[rk], p) :
                       p \in PortsOf(inner.mappings[inner.reverse[rk]])}
    BY <2>1 DEF Agree
  <2> QED  BY <2>1, <2>2, <2>3 DEF TablesAgree, Agree
<1> QED  BY <1>1, InitInvariant, NextInvariant, PTL DEF Spec

(* Every port is held once for each mapping, forward and expectation on    *)
(* it, so no port leaks and none is given out twice.                       *)
THEOREM NoPortLeaks == Spec => []PortsAccounted
<1>1. NatInvariant => PortsAccounted
  <2> SUFFICES ASSUME NatInvariant, NEW p \in Ports
               PROVE  inner.holders[p] =
                        Cardinality({rk \in DOMAIN inner.reverse : rk[2] = p})
                        + Cardinality({rk \in DOMAIN inner.forwards : rk[2] = p})
                        + Cardinality({e \in DOMAIN inner.expectations : e.port = p})
    BY DEF PortsAccounted
  <2>1. inner.holders[p] = Cardinality(OnPort(DOMAIN inner.reverse, p))
                           + Cardinality(OnPort(DOMAIN inner.forwards, p))
                           + Cardinality(ExpectedOn(DOMAIN inner.expectations, p))
    BY DEF NatInvariant, NatInv, Sound, Counted
  <2> QED  BY <2>1 DEF OnPort, ExpectedOn
<1> QED  BY <1>1, InitInvariant, NextInvariant, PTL DEF Spec

(* A forwarded port leads to the forward's endpoint or nowhere, an         *)
(* endpoint has one forward, and only a forward displaces a mapping.       *)
THEOREM ForwardsLeadHome == Spec => []ForwardsRule
<1>1. NatInvariant => ForwardsRule
  BY DEF NatInvariant, NatInv, Sound, Forwarded, Displaced, ForwardsRule
<1> QED  BY <1>1, InitInvariant, NextInvariant, PTL DEF Spec

(* A port that FTP or IRC was handed for an endpoint leads to no other     *)
(* while the expectation lasts, and is not forwarded: only an ALG that     *)
(* expects another endpoint there, after the mapping it was told of is     *)
(* gone, can make it lead elsewhere.                                       *)
THEOREM ExpectedPortIsKept == Spec => []ExpectedPortKept
<1>1. NatInvariant => ExpectedPortKept
  <2> SUFFICES ASSUME NatInvariant, NEW e \in Live(inner), inner.expectations[e].one
               PROVE  /\ At(e.target, e.port) \notin DOMAIN inner.forwards
                      /\ \/ At(e.target, e.port) \in DOMAIN inner.reverse =>
                              inner.reverse[At(e.target, e.port)] = e.target
                         \/ At(e.target, e.port) \in shared
    BY DEF ExpectedPortKept
  <2>1. ExpectingBut(inner, shared)  BY DEF NatInvariant, NatInv, Sound, Expecting
  <2>2. e.target.proto = "tcp"  BY <2>1 DEF ExpectingBut, Live
  <2> QED  BY <2>1, <2>2 DEF ExpectingBut, Reserves, Rk
<1> QED  BY <1>1, InitInvariant, NextInvariant, PTL DEF Spec

(* A sweep leaves nothing idle or lapsed in any table, whatever was there  *)
(* before it.                                                              *)
THEOREM SweepLeavesNothing == Spec => SweepComplete
<1>1. NatInvariant /\ [Next]_vars => [Sweep => NothingStale(inner')]_vars
  BY OwnerKeeps
<1> QED  BY <1>1, InitInvariant, NextInvariant, PTL DEF Spec, SweepComplete

LEMMA LiveLives ==
    ASSUME NatInvariant, NEW k, NEW r, SessionLive(k, r)
    PROVE  /\ k \in DOMAIN inner.mappings
           /\ Lives(inner.mappings[k], r, LeavesFrom(inner, k, r))
<1>1. PICK m : m = inner.mappings[k]  OBVIOUS
<1>2. k \in DOMAIN inner.mappings  BY DEF SessionLive
<1>3. PICK p : p = ForPeer(m, r).port  OBVIOUS
<1>4. LeavesFrom(inner, k, r) = p  BY <1>1, <1>3 DEF LeavesFrom
<1>5. PICK s \in {m} \cup m.alias : r \in LivePeers(s) /\ s.port = p
  BY <1>1, <1>4 DEF SessionLive
<1>6. MappingOK(m)  BY <1>1, <1>2 DEF NatInvariant, NatInv, Sound, MappingsOK
<1>7. r \in DOMAIN s.peers  BY <1>5 DEF LivePeers
<1>8. CASE s \in m.alias  BY <1>1, <1>2, <1>4, <1>5, <1>8 DEF Lives
<1>9. CASE s = m
  <2>1. ASSUME NEW a \in m.alias, r \in DOMAIN a.peers PROVE FALSE
    <3>1. m.alias = {a} /\ a.port # m.port  BY <1>6 DEF MappingOK
    <3>2. {b \in m.alias : r \in DOMAIN b.peers} = {a}  BY <2>1, <3>1
    <3>3. ForPeer(m, r) = a  BY <3>2 DEF ForPeer, SideIn
    <3> QED  BY <1>3, <1>5, <1>9, <3>1, <3>3
  <2> QED  BY <1>1, <1>2, <1>4, <1>5, <1>9, <2>1 DEF Lives
<1> QED  BY <1>5, <1>8, <1>9

(* A session that is not idle keeps its outside port through every step:   *)
(* displacement, take-over, expiry, reclaim and sweep, whoever causes      *)
(* them.  It ends early only with the forward that carried it or its       *)
(* namespace, and moves only when its remote comes to be tracked on both   *)
(* ports.                                                                  *)
THEOREM SessionsKeepPort == Spec => SessionKept
<1> DEFINE Kept(k, r) ==
      LET p == LeavesFrom(inner, k, r)
      IN  SessionLive(k, r) /\ ~ForwardEnds(At(k, p)) /\ k.ns \notin attached \ attached'
          => /\ k \in DOMAIN inner'.mappings
             /\ r \in TrackedBy(inner'.mappings[k])
             /\ \/ LeavesFrom(inner', k, r) = p
                \/ OnBothSides(inner'.mappings[k], r)
<1>1. ASSUME NatInvariant, Next, NEW k \in Keys, NEW r \in Peers PROVE Kept(k, r)
  <2>1. PICK p : p = LeavesFrom(inner, k, r)  OBVIOUS
  <2>2. SUFFICES ASSUME SessionLive(k, r), ~ForwardEnds(At(k, p)),
                        k.ns \notin attached \ attached'
                 PROVE  /\ k \in DOMAIN inner'.mappings
                        /\ r \in TrackedBy(inner'.mappings[k])
                        /\ \/ LeavesFrom(inner', k, r) = p
                           \/ OnBothSides(inner'.mappings[k], r)
    BY <2>1
  <2>3. k \in DOMAIN inner.mappings /\ Lives(inner.mappings[k], r, p)
    BY <1>1, <2>1, <2>2, LiveLives
  <2>4. ~ForwardLapsed(inner, At(k, p))  BY <2>2 DEF ForwardEnds, ForwardLapsed
  <2>5. Safe(inner, k, r, p)  BY <2>3, <2>4 DEF Safe
  <2>6. SessionsStay  BY <1>1, NextSteps
  <2>7. k \in DOMAIN inner'.mappings /\ Holds(inner'.mappings[k], r, p)
    BY <2>2, <2>5, <2>6 DEF SessionsStay
  <2> QED  BY <2>7 DEF Holds, LeavesFrom
<1>2. NatInvariant /\ [Next]_vars => [\A k \in Keys, r \in Peers : Kept(k, r)]_vars
  BY <1>1
<1> QED  BY <1>2, InitInvariant, NextInvariant, PTL DEF Spec, SessionKept
=============================================================================
