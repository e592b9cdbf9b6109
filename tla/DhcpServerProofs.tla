-------------------------- MODULE DhcpServerProofs --------------------------
(***************************************************************************)
(* Proofs about the DHCP server's lease table, for any clients, pool,      *)
(* reservations and limits.                                                *)
(***************************************************************************)
EXTENDS DhcpServer, TLAPS, FiniteSetTheorems, WellFoundedInduction

(* The clients of key k may be given ip: it is reserved for them, or they  *)
(* have no reservation and nobody else has reserved it.                    *)
Fits(k, ip) ==
    /\ ip \in Subnet
    /\ \A c \in Clients : c.key = k =>
        \/ Reservation(c) = ip
        \/ Reservation(c) = None /\ \A m \in DOMAIN Reserved : Reserved[m] # ip

(* A lease has its five fields, and one granted on trust is bound.         *)
Sound(l) ==
    /\ l = [ip |-> l.ip, expiry |-> l.expiry, bound |-> l.bound,
            provisional |-> l.provisional, src |-> l.src]
    /\ l.expiry \in Int /\ l.bound \in BOOLEAN /\ l.provisional \in Int
    /\ l.provisional # None => l.bound

(* The table and its counts.                                               *)
ByIp(tb, i)  == {k \in DOMAIN tb.by_key : tb.by_key[k].ip = i}
BySrc(tb, s) == {k \in DOMAIN tb.by_key : tb.by_key[k].src = s}

Counted(tb) ==
    /\ tb = [by_key |-> tb.by_key, by_ip |-> tb.by_ip, by_src |-> tb.by_src]
    /\ tb.by_key = [k \in DOMAIN tb.by_key |-> tb.by_key[k]]
    /\ IsFiniteSet(DOMAIN tb.by_key)
    /\ tb.by_ip = [i \in Addrs |-> Cardinality(ByIp(tb, i))]
    /\ tb.by_src = [s \in Srcs |-> Cardinality(BySrc(tb, s))]

(* Two keys share an address only where it is reserved for both.           *)
Apart(tb) ==
    \A j, k \in DOMAIN tb.by_key :
        j # k /\ tb.by_key[j].ip = tb.by_key[k].ip =>
            \A c \in Clients : c.key \in {j, k} => Reservation(c) = tb.by_key[j].ip

Leased(tb) ==
    /\ Counted(tb) /\ Apart(tb)
    /\ \A k \in DOMAIN tb.by_key : Sound(tb.by_key[k]) /\ Fits(k, tb.by_key[k].ip)

(* What a client was told and may still use: a bound lease of its key is   *)
(* for it, and short of a restart there is one.                            *)
Honest(k) ==
    /\ Fits(k, promise[k].ip)
    /\ Has(leases, k) /\ leases.by_key[k].bound => leases.by_key[k].ip = promise[k].ip
    /\ restarts = 0 => /\ Has(leases, k) /\ leases.by_key[k].bound
                       /\ leases.by_key[k].expiry >= promise[k].until

Provisional(tb) == {k \in DOMAIN tb.by_key : tb.by_key[k].provisional # None}

Promised ==
    /\ promise = [k \in Keys |-> [ip |-> promise[k].ip, until |-> promise[k].until]]
    /\ \A k \in Keys : promise[k].until \in Int /\ (Holding(k) => Honest(k))

ServerInv ==
    /\ scope \in Scopes /\ clock \in Nat /\ restarts \in Nat
    /\ Leased(leases)
    /\ Promised

-----------------------------------------------------------------------------
(* The table's operators.                                                  *)

LEMMA CountLess ==
    ASSUME NEW S, IsFiniteSet(S), NEW T, T \subseteq S
    PROVE  Cardinality(S \ T) = Cardinality(S) - Cardinality(T)
<1>1. S \cap T = T  OBVIOUS
<1> QED  BY <1>1, FS_Difference

(* The table without the leases of keys.                                   *)
LEMMA DropIs ==
    ASSUME NEW tb, Counted(tb), NEW keys
    PROVE  LET d == Drop(tb, keys)
           IN  /\ Counted(d)
               /\ DOMAIN d.by_key = DOMAIN tb.by_key \ keys
               /\ \A k \in DOMAIN d.by_key : d.by_key[k] = tb.by_key[k]
<1> DEFINE D == DOMAIN tb.by_key
<1>1. PICK out : out = keys \cap D  OBVIOUS
<1>2. PICK u : u = Unindex(tb, out)  OBVIOUS
<1>3. PICK d : d = Drop(tb, keys)  OBVIOUS
<1>4. /\ u = [by_key |-> tb.by_key, by_ip |-> u.by_ip, by_src |-> u.by_src]
      /\ u.by_ip = [i \in Addrs |-> tb.by_ip[i] -
                        Cardinality({k \in out : tb.by_key[k].ip = i})]
      /\ u.by_src = [s \in Srcs |-> tb.by_src[s] -
                        Cardinality({k \in out : tb.by_key[k].src = s})]
  BY <1>2 DEF Unindex, Counted
<1>5. d = [u EXCEPT !.by_key = Restrict(u.by_key, DOMAIN u.by_key \ out)]
  BY <1>1, <1>2, <1>3 DEF Drop
<1>6. /\ d = [by_key |-> d.by_key, by_ip |-> d.by_ip, by_src |-> d.by_src]
      /\ d.by_key = [k \in D \ out |-> tb.by_key[k]]
      /\ d.by_ip = u.by_ip /\ d.by_src = u.by_src
  BY <1>4, <1>5 DEF Restrict
<1>7. /\ DOMAIN d.by_key = D \ keys
      /\ \A k \in DOMAIN d.by_key : d.by_key[k] = tb.by_key[k]
  BY <1>1, <1>6
<1>8. IsFiniteSet(D) /\ IsFiniteSet(D \ keys)  BY FS_Difference DEF Counted
<1>9. ASSUME NEW i \in Addrs PROVE d.by_ip[i] = Cardinality(ByIp(d, i))
  <2> DEFINE T == {k \in out : tb.by_key[k].ip = i}
  <2>1. ByIp(d, i) = ByIp(tb, i) \ T  BY <1>1, <1>7 DEF ByIp
  <2>2. T \subseteq ByIp(tb, i)  BY <1>1 DEF ByIp
  <2>3. IsFiniteSet(ByIp(tb, i))  BY <1>8, FS_Subset DEF ByIp
  <2>4. tb.by_ip[i] = Cardinality(ByIp(tb, i))  BY DEF Counted
  <2> QED  BY <1>4, <1>6, <2>1, <2>2, <2>3, <2>4, CountLess
<1>10. ASSUME NEW s \in Srcs PROVE d.by_src[s] = Cardinality(BySrc(d, s))
  <2> DEFINE T == {k \in out : tb.by_key[k].src = s}
  <2>1. BySrc(d, s) = BySrc(tb, s) \ T  BY <1>1, <1>7 DEF BySrc
  <2>2. T \subseteq BySrc(tb, s)  BY <1>1 DEF BySrc
  <2>3. IsFiniteSet(BySrc(tb, s))  BY <1>8, FS_Subset DEF BySrc
  <2>4. tb.by_src[s] = Cardinality(BySrc(tb, s))  BY DEF Counted
  <2> QED  BY <1>4, <1>6, <2>1, <2>2, <2>3, <2>4, CountLess
<1>11. Counted(d)
  BY <1>4, <1>6, <1>7, <1>8, <1>9, <1>10 DEF Counted
<1> QED  BY <1>3, <1>7, <1>11

(* The table with lease l for k, in place of the one it had.               *)
LEMMA InsertIs ==
    ASSUME NEW tb, Counted(tb), NEW k, NEW l, l.ip \in Addrs
    PROVE  LET n == Insert(tb, k, l)
           IN  /\ Counted(n)
               /\ DOMAIN n.by_key = DOMAIN tb.by_key \cup {k}
               /\ n.by_key[k] = l
               /\ \A j \in DOMAIN tb.by_key \ {k} : n.by_key[j] = tb.by_key[j]
<1>1. PICK d : d = Drop(tb, {k})  OBVIOUS
<1>2. PICK c : c = Count(d, l)  OBVIOUS
<1>3. PICK n : n = Insert(tb, k, l)  OBVIOUS
<1>4. /\ Counted(d)
      /\ DOMAIN d.by_key = DOMAIN tb.by_key \ {k}
      /\ \A j \in DOMAIN d.by_key : d.by_key[j] = tb.by_key[j]
  BY <1>1, DropIs
<1>5. /\ c = [by_key |-> d.by_key, by_ip |-> c.by_ip, by_src |-> c.by_src]
      /\ c.by_ip = [d.by_ip EXCEPT ![l.ip] = @ + 1]
      /\ c.by_src = [s \in Srcs |-> d.by_src[s] + IF s = l.src THEN 1 ELSE 0]
  BY <1>2, <1>4 DEF Count, Counted
<1>6. n = [c EXCEPT !.by_key = Put(c.by_key, k, l)]
  BY <1>1, <1>2, <1>3 DEF Insert
<1>7. /\ n = [by_key |-> n.by_key, by_ip |-> n.by_ip, by_src |-> n.by_src]
      /\ n.by_key = [j \in DOMAIN d.by_key \cup {k} |->
                        IF j = k THEN l ELSE d.by_key[j]]
      /\ n.by_ip = c.by_ip /\ n.by_src = c.by_src
  BY <1>5, <1>6 DEF Put
<1>8. /\ DOMAIN n.by_key = DOMAIN tb.by_key \cup {k}
      /\ n.by_key[k] = l
      /\ \A j \in DOMAIN tb.by_key \ {k} : n.by_key[j] = tb.by_key[j]
      /\ \A j \in DOMAIN d.by_key : n.by_key[j] = d.by_key[j]
      /\ k \notin DOMAIN d.by_key
      /\ DOMAIN n.by_key = DOMAIN d.by_key \cup {k}
  BY <1>4, <1>7
<1>9. IsFiniteSet(DOMAIN d.by_key) /\ IsFiniteSet(DOMAIN n.by_key)
  BY <1>4, <1>8, FS_AddElement DEF Counted
<1>10. ASSUME NEW i \in Addrs PROVE n.by_ip[i] = Cardinality(ByIp(n, i))
  <2>1. IsFiniteSet(ByIp(d, i)) /\ k \notin ByIp(d, i)
    BY <1>8, <1>9, FS_Subset DEF ByIp
  <2>2. d.by_ip[i] = Cardinality(ByIp(d, i)) /\ d.by_ip = [x \in Addrs |-> d.by_ip[x]]
    BY <1>4 DEF Counted
  <2>3. CASE i = l.ip
    <3>1. ByIp(n, i) = ByIp(d, i) \cup {k}  BY <1>8, <2>3 DEF ByIp
    <3>2. n.by_ip[i] = d.by_ip[i] + 1  BY <1>5, <1>7, <2>2, <2>3
    <3> QED  BY <2>1, <2>2, <3>1, <3>2, FS_AddElement
  <2>4. CASE i # l.ip
    <3>1. ByIp(n, i) = ByIp(d, i)  BY <1>8, <2>4 DEF ByIp
    <3>2. n.by_ip[i] = d.by_ip[i]  BY <1>5, <1>7, <2>2, <2>4
    <3> QED  BY <2>2, <3>1, <3>2
  <2> QED  BY <2>3, <2>4
<1>11. ASSUME NEW s \in Srcs PROVE n.by_src[s] = Cardinality(BySrc(n, s))
  <2>1. IsFiniteSet(BySrc(d, s)) /\ k \notin BySrc(d, s)
    BY <1>8, <1>9, FS_Subset DEF BySrc
  <2>2. d.by_src[s] = Cardinality(BySrc(d, s)) /\ d.by_src[s] \in Nat
    BY <1>4, <2>1, FS_CardinalityType DEF Counted
  <2>3. CASE s = l.src
    <3>1. BySrc(n, s) = BySrc(d, s) \cup {k}  BY <1>8, <2>3 DEF BySrc
    <3>2. n.by_src[s] = d.by_src[s] + 1  BY <1>5, <1>7, <2>3
    <3> QED  BY <2>1, <2>2, <3>1, <3>2, FS_AddElement
  <2>4. CASE s # l.src
    <3>1. BySrc(n, s) = BySrc(d, s)  BY <1>8, <2>4 DEF BySrc
    <3>2. n.by_src[s] = d.by_src[s]  BY <1>5, <1>7, <2>2, <2>4
    <3> QED  BY <2>2, <3>1, <3>2
  <2> QED  BY <2>3, <2>4
<1>12. n.by_ip = [i \in Addrs |-> n.by_ip[i]] /\ n.by_src = [s \in Srcs |-> n.by_src[s]]
  BY <1>4, <1>5, <1>7 DEF Counted
<1>13. Counted(n)
  BY <1>7, <1>9, <1>10, <1>11, <1>12 DEF Counted
<1> QED  BY <1>3, <1>8, <1>13

LEMMA HeldMeans ==
    ASSUME NEW tb, Counted(tb), NEW k, NEW ip \in Addrs
    PROVE  HeldByOther(tb, ip, k) <=>
                \E j \in DOMAIN tb.by_key \ {k} : tb.by_key[j].ip = ip
<1> DEFINE S == ByIp(tb, ip)
<1>1. IsFiniteSet(S)  BY FS_Subset DEF Counted, ByIp
<1>2. tb.by_ip[ip] = Cardinality(S)  BY DEF Counted
<1>3. k \in S <=> Has(tb, k) /\ tb.by_key[k].ip = ip  BY DEF ByIp, Has
<1>4. /\ IsFiniteSet(S \ {k})
      /\ Cardinality(S \ {k}) = IF k \in S THEN Cardinality(S) - 1 ELSE Cardinality(S)
  BY <1>1, FS_RemoveElement
<1>5. Cardinality(S \ {k}) = 0 <=> S \ {k} = {}  BY <1>4, FS_EmptySet
<1>6. Cardinality(S) \in Nat /\ Cardinality(S \ {k}) \in Nat
  BY <1>1, <1>4, FS_CardinalityType
<1>7. HeldByOther(tb, ip, k) <=> Cardinality(S \ {k}) # 0
  <2>1. CASE k \in S
    BY <2>1, <1>2, <1>3, <1>4, <1>6 DEF HeldByOther
  <2>2. CASE k \notin S
    BY <2>2, <1>2, <1>3, <1>4, <1>6 DEF HeldByOther
  <2> QED  BY <2>1, <2>2
<1> QED  BY <1>5, <1>7 DEF ByIp

(* Leases of d are leases of tb.                                           *)
Part(d, tb) ==
    /\ Counted(d)
    /\ DOMAIN d.by_key \subseteq DOMAIN tb.by_key
    /\ \A k \in DOMAIN d.by_key : d.by_key[k] = tb.by_key[k]

LEMMA PartLeased ==
    ASSUME NEW tb, NEW d, Leased(tb), Part(d, tb)
    PROVE  Leased(d)
  BY DEF Leased, Part, Apart

LEMMA DropPart ==
    ASSUME NEW tb, Counted(tb), NEW keys
    PROVE  Part(Drop(tb, keys), tb)
  BY DropIs DEF Part

LEMMA OneReservation ==
    ASSUME scope \in Scopes, NEW c \in Clients, NEW d \in Clients, c.key = d.key
    PROVE  Reservation(c) = Reservation(d)
  BY ServerAssumption DEF Clients, Reservation

LEMMA ClientKey ==
    ASSUME scope \in Scopes, NEW c \in Clients
    PROVE  c.key \in Keys
  BY ServerAssumption DEF Clients

LEMMA InsertLeased ==
    ASSUME scope \in Scopes, NEW tb, Leased(tb), NEW c \in Clients, NEW l, Sound(l),
           Fits(c.key, l.ip), Reservation(c) = l.ip \/ ~ HeldByOther(tb, l.ip, c.key)
    PROVE  Leased(Insert(tb, c.key, l))
<1>1. PICK k : k = c.key  OBVIOUS
<1>2. PICK n : n = Insert(tb, k, l)  OBVIOUS
<1>3. l.ip \in Addrs /\ Counted(tb)  BY DEF Fits, Addrs, Leased
<1>4. /\ Counted(n)
      /\ DOMAIN n.by_key = DOMAIN tb.by_key \cup {k}
      /\ n.by_key[k] = l
      /\ \A j \in DOMAIN tb.by_key \ {k} : n.by_key[j] = tb.by_key[j]
  BY <1>2, <1>3, InsertIs
<1>5. \A j \in DOMAIN n.by_key : Sound(n.by_key[j]) /\ Fits(j, n.by_key[j].ip)
  BY <1>1, <1>4 DEF Leased
<1>6. ASSUME NEW j \in DOMAIN tb.by_key, j # k, tb.by_key[j].ip = l.ip,
             NEW d \in Clients, d.key \in {j, k}
      PROVE  Reservation(d) = l.ip
  <2>1. HeldByOther(tb, l.ip, k)  BY <1>3, <1>6, HeldMeans
  <2>2. Reservation(c) = l.ip  BY <1>1, <2>1
  <2>3. CASE d.key = k  BY <1>1, <2>2, <2>3, OneReservation
  <2>4. CASE d.key = j
    <3>1. Fits(j, l.ip)  BY <1>6 DEF Leased
    <3>2. l.ip # None  BY ServerAssumption DEF Fits, None
    <3>3. c.mac \in DOMAIN Reserved /\ Reserved[c.mac] = l.ip
      BY <2>2, <3>2 DEF Reservation
    <3> QED  BY <2>4, <3>1, <3>3 DEF Fits
  <2> QED  BY <1>6, <2>3, <2>4
<1>7. Apart(n)
  <2> SUFFICES ASSUME NEW i \in DOMAIN n.by_key, NEW j \in DOMAIN n.by_key, i # j,
                      n.by_key[i].ip = n.by_key[j].ip, NEW d \in Clients,
                      d.key \in {i, j}
               PROVE  Reservation(d) = n.by_key[i].ip
    BY DEF Apart
  <2>1. CASE i = k  BY <1>4, <1>6, <2>1
  <2>2. CASE j = k  BY <1>4, <1>6, <2>2
  <2>3. CASE i # k /\ j # k
    <3>1. Apart(tb)  BY DEF Leased
    <3> QED  BY <1>4, <2>3, <3>1 DEF Apart
  <2> QED  BY <2>1, <2>2, <2>3
<1> QED  BY <1>1, <1>2, <1>4, <1>5, <1>7 DEF Leased

(* What is not held by others fits a client that has no reservation.       *)
LEMMA UnheldFits ==
    ASSUME scope \in Scopes, NEW tb, NEW c \in Clients, Reservation(c) = None,
           NEW ip \in Subnet, ~ HeldByOthers(tb, c, ip)
    PROVE  Fits(c.key, ip) /\ ~ HeldByOther(tb, ip, c.key)
<1>1. \A m \in DOMAIN Reserved : m # c.mac => Reserved[m] # ip
  BY DEF HeldByOthers
<1>2. ip # None  BY ServerAssumption DEF None
<1>3. \A m \in DOMAIN Reserved : Reserved[m] # ip
  BY <1>1, <1>2 DEF Reservation
<1> QED  BY <1>3, OneReservation DEF Fits, HeldByOthers

(* The lease a client without a reservation has is held by no other.       *)
LEMMA OwnUnheld ==
    ASSUME NEW tb, Leased(tb), NEW c \in Clients, Reservation(c) = None,
           Has(tb, c.key)
    PROVE  ~ HeldByOthers(tb, c, tb.by_key[c.key].ip)
<1>1. PICK ip : ip = tb.by_key[c.key].ip  OBVIOUS
<1>2. Fits(c.key, ip) /\ ip \in Addrs /\ ip # None /\ Counted(tb)
  BY <1>1, ServerAssumption DEF Leased, Has, Fits, Addrs, None
<1>3. ~ HeldByOther(tb, ip, c.key)
  <2> SUFFICES ASSUME HeldByOther(tb, ip, c.key) PROVE FALSE  OBVIOUS
  <2>1. PICK j \in DOMAIN tb.by_key \ {c.key} : tb.by_key[j].ip = ip
    BY <1>2, HeldMeans
  <2>2. Reservation(c) = ip  BY <1>1, <2>1 DEF Leased, Apart, Has
  <2> QED  BY <1>2, <2>2
<1> QED  BY <1>1, <1>2, <1>3 DEF HeldByOthers, Fits

-----------------------------------------------------------------------------
(* What a handler comes to, for the client it answers.                     *)

(* Table d has only leases of the table, and those of keys other than k    *)
(* that have not run out.                                                  *)
Spares(d, k) ==
    /\ Part(d, leases)
    /\ \A j \in DOMAIN leases.by_key \ {k} :
            leases.by_key[j].expiry > clock => j \in DOMAIN d.by_key

InUse(k) == Has(leases, k) /\ leases.by_key[k].bound /\ leases.by_key[k].expiry > clock

(* l may be entered for client c.                                          *)
Enters(tb, c, l) ==
    /\ Spares(tb, c.key)
    /\ leases' = Insert(tb, c.key, l)
    /\ Sound(l) /\ Fits(c.key, l.ip)
    /\ Reservation(c) = l.ip \/ ~ HeldByOther(tb, l.ip, c.key)
    /\ l.provisional = None \/ c.key \in Provisional(leases) \/ ~ NearlyFull(tb)

Refusal(c) ==
    /\ Spares(leases', c.key)
    /\ promise' = [promise EXCEPT ![c.key] = NoPromise]

Silence(c) ==
    /\ Spares(leases', c.key)
    /\ InUse(c.key) => Has(leases', c.key)
    /\ promise' = promise

Offering(c) ==
    /\ \E tb, l : Enters(tb, c, l) /\ ~ l.bound
    /\ ~ InUse(c.key)
    /\ promise' = promise

Grant(c) ==
    \E tb, l :
        /\ Enters(tb, c, l) /\ l.bound
        /\ promise' = [promise EXCEPT ![c.key] = [ip |-> l.ip, until |-> l.expiry]]

Answered ==
    /\ UNCHANGED <<clock, restarts, scope>>
    /\ \E c \in Clients : Refusal(c) \/ Silence(c) \/ Offering(c) \/ Grant(c)

(* Other keys' leases, as far as they have not run out, are as they were.  *)
Around(k) ==
    \A j \in Keys \ {k} :
        /\ Has(leases', j) => Has(leases, j) /\ leases'.by_key[j] = leases.by_key[j]
        /\ Has(leases, j) /\ leases.by_key[j].expiry > clock => Has(leases', j)

LEMMA AnsweredAround ==
    ASSUME ServerInv, NEW c \in Clients,
           \/ Spares(leases', c.key)
           \/ \E tb, l : Enters(tb, c, l)
    PROVE  Around(c.key) /\ Leased(leases')
<1>1. Leased(leases) /\ scope \in Scopes  BY DEF ServerInv
<1>2. CASE Spares(leases', c.key)
  <2>1. Around(c.key)  BY <1>2 DEF Around, Spares, Part, Has
  <2> QED  BY <1>1, <1>2, <2>1, PartLeased DEF Spares
<1>3. ASSUME NEW tb, NEW l, Enters(tb, c, l) PROVE Around(c.key) /\ Leased(leases')
  <2>1. Leased(tb)  BY <1>1, <1>3, PartLeased DEF Enters, Spares
  <2>2. Leased(leases')  BY <1>1, <1>3, <2>1, InsertLeased DEF Enters
  <2>3. l.ip \in Addrs /\ Counted(tb)  BY <1>3, <2>1 DEF Enters, Fits, Addrs, Leased
  <2>4. /\ DOMAIN leases'.by_key = DOMAIN tb.by_key \cup {c.key}
        /\ \A j \in DOMAIN tb.by_key \ {c.key} : leases'.by_key[j] = tb.by_key[j]
    BY <1>3, <2>3, InsertIs DEF Enters
  <2>5. Around(c.key)  BY <1>3, <2>4 DEF Around, Enters, Spares, Part, Has
  <2> QED  BY <2>2, <2>5
<1> QED  BY <1>2, <1>3

LEMMA Entered ==
    ASSUME ServerInv, NEW c \in Clients, NEW tb, NEW l, Enters(tb, c, l)
    PROVE  Has(leases', c.key) /\ leases'.by_key[c.key] = l
<1>1. Leased(tb)  BY PartLeased DEF Enters, Spares, ServerInv
<1>2. l.ip \in Addrs /\ Counted(tb)  BY <1>1 DEF Enters, Fits, Addrs, Leased
<1> QED  BY <1>2, InsertIs DEF Enters, Has

LEMMA LeasedPrimed ==
    ASSUME scope' = scope, Leased(leases')
    PROVE  Leased(leases)'
  BY DEF Leased, Counted, Apart, Sound, Fits, Reservation, Reserved, Clients, Srcs,
     ByIp, BySrc

LEMMA FitsPrimed ==
    ASSUME scope' = scope, NEW k \in Keys, Fits(k, promise'[k].ip)
    PROVE  Fits(k, promise[k].ip)'
  BY DEF Fits, Reservation, Reserved, Clients

(* A key whose promise stands.                                             *)
LEMMA StandsHonest ==
    ASSUME ServerInv, UNCHANGED <<restarts, scope>>, NEW k \in Keys,
           promise'[k] = promise[k], Holding(k),
           Has(leases', k) => (Has(leases, k) /\ leases'.by_key[k] = leases.by_key[k])
                                \/ ~ leases'.by_key[k].bound,
           InUse(k) => Has(leases', k) /\ leases'.by_key[k] = leases.by_key[k]
    PROVE  Honest(k)'
<1>1. Honest(k)  BY DEF ServerInv, Promised
<1>2. Fits(k, promise[k].ip)'  BY <1>1, FitsPrimed DEF Honest
<1>3. promise[k].until \in Int /\ clock \in Nat  BY DEF ServerInv, Promised
<1>4. ASSUME Has(leases', k), leases'.by_key[k].bound
      PROVE  leases'.by_key[k].ip = promise'[k].ip
  BY <1>1, <1>4 DEF Honest
<1>5. ASSUME restarts = 0
      PROVE  /\ Has(leases', k) /\ leases'.by_key[k].bound
             /\ leases'.by_key[k].expiry >= promise'[k].until
  <2>1. /\ Has(leases, k) /\ leases.by_key[k].bound
        /\ leases.by_key[k].expiry >= promise[k].until
    BY <1>1, <1>5 DEF Honest
  <2>2. leases.by_key[k].expiry \in Int
    BY <2>1 DEF ServerInv, Leased, Sound, Has
  <2>3. InUse(k)  BY <1>3, <2>1, <2>2 DEF InUse, Holding
  <2> QED  BY <2>1, <2>3
<1> QED  BY <1>2, <1>4, <1>5 DEF Honest, Has

LEMMA OthersHonest ==
    ASSUME ServerInv, UNCHANGED <<restarts, scope>>, NEW k \in Keys, Around(k),
           NEW j \in Keys \ {k}, promise'[j] = promise[j], Holding(j)
    PROVE  Honest(j)'
<1>1. /\ Has(leases', j) => Has(leases, j) /\ leases'.by_key[j] = leases.by_key[j]
      /\ InUse(j) => Has(leases', j) /\ leases'.by_key[j] = leases.by_key[j]
  BY DEF Around, InUse
<1> QED  BY <1>1, StandsHonest

LEMMA AnsweredKeeps ==
    ASSUME ServerInv, Answered
    PROVE  ServerInv'
<1>1. PICK c \in Clients : Refusal(c) \/ Silence(c) \/ Offering(c) \/ Grant(c)
  BY DEF Answered
<1>2. PICK k \in Keys : k = c.key  BY ClientKey DEF ServerInv
<1>3. UNCHANGED <<clock, restarts, scope>>  BY DEF Answered
<1>4. Around(k) /\ Leased(leases')
  BY <1>1, <1>2, AnsweredAround DEF Refusal, Silence, Offering, Grant
<1>5. Leased(leases)'  BY <1>3, <1>4, LeasedPrimed
<1>6. /\ promise = [j \in Keys |-> [ip |-> promise[j].ip, until |-> promise[j].until]]
      /\ \A j \in Keys : promise[j].until \in Int
      /\ clock \in Nat
  BY DEF ServerInv, Promised
<1>7. ASSUME /\ promise' = [j \in Keys |-> [ip |-> promise'[j].ip, until |-> promise'[j].until]]
             /\ promise'[k].until \in Int
             /\ \A j \in Keys \ {k} : promise'[j] = promise[j]
             /\ Holding(k)' => Honest(k)'
      PROVE  ServerInv'
  <2>1. ASSUME NEW j \in Keys \ {k} PROVE promise'[j].until \in Int /\ (Holding(j)' => Honest(j)')
    <3>1. promise'[j] = promise[j]  BY <1>7
    <3>2. Holding(j)' => Holding(j)  BY <1>3, <3>1 DEF Holding
    <3> QED  BY <1>3, <1>4, <1>6, <3>1, <3>2, OthersHonest
  <2>2. Promised'  BY <1>7, <2>1 DEF Promised
  <2> QED  BY <1>3, <1>5, <2>2 DEF ServerInv
<1>8. CASE Refusal(c)
  <2>1. promise' = [promise EXCEPT ![k] = NoPromise]  BY <1>2, <1>8 DEF Refusal
  <2>2. promise'[k] = NoPromise  BY <1>6, <2>1
  <2>3. ~ Holding(k)'  BY <1>3, <1>6, <2>2 DEF Holding, NoPromise
  <2> QED  BY <1>6, <1>7, <2>1, <2>2, <2>3 DEF NoPromise
<1>9. CASE Silence(c)
  <2>1. promise' = promise  BY <1>9 DEF Silence
  <2>2. ASSUME Holding(k)' PROVE Honest(k)'
    <3>1. Holding(k)  BY <1>3, <2>1, <2>2 DEF Holding
    <3>2. Part(leases', leases) /\ (InUse(k) => Has(leases', k))
      BY <1>2, <1>9 DEF Silence, Spares
    <3>3. Has(leases', k) => Has(leases, k) /\ leases'.by_key[k] = leases.by_key[k]
      BY <3>2 DEF Part, Has
    <3> QED  BY <1>3, <2>1, <3>1, <3>2, <3>3, StandsHonest
  <2> QED  BY <1>6, <1>7, <2>1, <2>2
<1>10. CASE Offering(c)
  <2>1. promise' = promise /\ ~ InUse(k)  BY <1>2, <1>10 DEF Offering
  <2>2. PICK tb, l : Enters(tb, c, l) /\ ~ l.bound  BY <1>10 DEF Offering
  <2>3. Has(leases', k) /\ leases'.by_key[k] = l  BY <1>2, <2>2, Entered
  <2>4. ASSUME Holding(k)' PROVE Honest(k)'
    <3>1. Holding(k)  BY <1>3, <2>1, <2>4 DEF Holding
    <3> QED  BY <1>3, <2>1, <2>2, <2>3, <3>1, StandsHonest
  <2> QED  BY <1>6, <1>7, <2>1, <2>4
<1>11. CASE Grant(c)
  <2>1. PICK tb, l : /\ Enters(tb, c, l) /\ l.bound
                     /\ promise' = [promise EXCEPT ![k] = [ip |-> l.ip, until |-> l.expiry]]
    BY <1>2, <1>11 DEF Grant
  <2>2. Has(leases', k) /\ leases'.by_key[k] = l  BY <1>2, <2>1, Entered
  <2>3. promise'[k] = [ip |-> l.ip, until |-> l.expiry]  BY <1>6, <2>1
  <2>4. l.expiry \in Int /\ Fits(k, l.ip)  BY <1>2, <2>1 DEF Enters, Sound
  <2>5. Fits(k, promise[k].ip)'  BY <1>3, <2>3, <2>4, FitsPrimed
  <2>6. Honest(k)'
    BY <2>1, <2>2, <2>3, <2>4, <2>5 DEF Honest, Has
  <2> QED  BY <1>6, <1>7, <2>1, <2>3, <2>4, <2>6
<1> QED  BY <1>1, <1>8, <1>9, <1>10, <1>11

-----------------------------------------------------------------------------
(* The handlers.                                                           *)

LEMMA LeastIs ==
    ASSUME NEW S, S \subseteq Nat, S # {}
    PROVE  Min(S) \in S /\ \A y \in S : Min(S) <= y
<1>1. PICK x \in S : \A y \in S : ~ (<<y, x>> \in OpToRel(<, Nat))
  BY WFMin, NatLessThanWellFounded
<1>2. ASSUME NEW y \in S PROVE x <= y
  <2>1. ~ (<<y, x>> \in OpToRel(<, Nat))  BY <1>1
  <2>2. <<y, x>> \in Nat \X Nat  OBVIOUS
  <2>3. ~ (<<y, x>>[1] < <<y, x>>[2])  BY <2>1, <2>2, Zenon DEF OpToRel
  <2> QED  BY <2>3
<1>3. \E z \in S : \A y \in S : z =< y  BY <1>2
<1> QED  BY <1>3 DEF Min

LEMMA LengthIs == ProvisionalLength \in Nat
<1>1. Min({LEASE, OFFER_HOLD}) \in {LEASE, OFFER_HOLD}
  BY ServerAssumption, LeastIs
<1> QED  BY <1>1, ServerAssumption DEF ProvisionalLength

(* What has not run out, with or without the lease of k.                   *)
LEMMA ExpireIs ==
    ASSUME ServerInv, NEW tb, tb = Expire(leases, clock)
    PROVE  /\ Leased(tb)
           /\ \A k : Has(tb, k) <=> Has(leases, k) /\ leases.by_key[k].expiry > clock
           /\ \A k : Has(tb, k) => tb.by_key[k] = leases.by_key[k]
           /\ \A k : Spares(tb, k)
           /\ \A k : Spares(Drop(tb, {k}), k) /\ Leased(Drop(tb, {k}))
           /\ \A k : ~ Has(Drop(tb, {k}), k)
<1>1. Leased(leases) /\ Counted(leases) /\ clock \in Nat  BY DEF ServerInv, Leased
<1>2. \A k \in DOMAIN leases.by_key : leases.by_key[k].expiry \in Int
  BY <1>1 DEF Leased, Sound
<1>3. PICK late : late = {k \in DOMAIN leases.by_key : leases.by_key[k].expiry <= clock}
  OBVIOUS
<1>4. tb = Drop(leases, late)  BY <1>3 DEF Expire
<1>5. /\ Counted(tb)
      /\ DOMAIN tb.by_key = DOMAIN leases.by_key \ late
      /\ \A k \in DOMAIN tb.by_key : tb.by_key[k] = leases.by_key[k]
  BY <1>1, <1>4, DropIs
<1>6. Part(tb, leases)  BY <1>5 DEF Part
<1>7. \A k : Has(tb, k) <=> Has(leases, k) /\ leases.by_key[k].expiry > clock
  BY <1>1, <1>2, <1>3, <1>5 DEF Has
<1>8. ASSUME NEW k PROVE Spares(tb, k)
  BY <1>6, <1>7 DEF Spares, Has
<1>9. ASSUME NEW k PROVE /\ Spares(Drop(tb, {k}), k) /\ Leased(Drop(tb, {k}))
                         /\ ~ Has(Drop(tb, {k}), k)
  <2>1. PICK d : d = Drop(tb, {k})  OBVIOUS
  <2>2. /\ Counted(d)
        /\ DOMAIN d.by_key = DOMAIN tb.by_key \ {k}
        /\ \A j \in DOMAIN d.by_key : d.by_key[j] = tb.by_key[j]
    BY <1>5, <2>1, DropIs
  <2>3. Part(d, leases)  BY <1>5, <2>2 DEF Part
  <2>4. Spares(d, k)  BY <1>7, <2>2, <2>3 DEF Spares, Has
  <2> QED  BY <1>1, <2>1, <2>2, <2>3, <2>4, PartLeased DEF Has
<1>10. Leased(tb)  BY <1>1, <1>6, PartLeased
<1>11. \A k : Has(tb, k) => tb.by_key[k] = leases.by_key[k]  BY <1>5 DEF Has
<1> QED  BY <1>7, <1>8, <1>9, <1>10, <1>11

(* A bound lease and an offer.                                             *)
LEMMA NewLeaseBound ==
    ASSUME NEW c, NEW ip, NEW expiry \in Int, NEW since \in Int, NEW l,
           l = NewLease(c, ip, TRUE, expiry, since)
    PROVE  /\ Sound(l) /\ l.ip = ip /\ l.expiry = expiry
           /\ l.bound /\ l.provisional = since
  BY DEF NewLease, Sound

LEMMA NewLeaseOffer ==
    ASSUME NEW c, NEW ip, NEW expiry \in Int, NEW l,
           l = NewLease(c, ip, FALSE, expiry, None)
    PROVE  /\ Sound(l) /\ l.ip = ip /\ l.expiry = expiry
           /\ ~ l.bound /\ l.provisional = None
  BY DEF NewLease, Sound, None

(* Ack, with a lease as long as the client is told.                        *)
LEMMA AckGrants ==
    ASSUME ServerInv, NEW c \in Clients, NEW tb, NEW l, NEW length,
           Ack(c, tb, l, length), Spares(tb, c.key), Sound(l), Fits(c.key, l.ip),
           Reservation(c) = l.ip \/ ~ HeldByOther(tb, l.ip, c.key),
           l.provisional = None \/ c.key \in Provisional(leases) \/ ~ NearlyFull(tb),
           l.bound, l.expiry = clock + length
    PROVE  Grant(c)
<1>1. Enters(tb, c, l)  BY DEF Enters, Ack
<1> QED  BY <1>1 DEF Grant, Ack

LEMMA NakRefuses ==
    ASSUME NEW c, NEW tb, NEW renewing, Nak(c, tb, renewing), Spares(tb, c.key)
    PROVE  Refusal(c)
  BY DEF Nak, Refusal

LEMMA RecordedAnswers ==
    ASSUME ServerInv, NEW c \in Clients, NEW tb, tb = Expire(leases, clock),
           NEW ip \in Subnet, NEW renewing, Reservation(c) = None, Has(tb, c.key),
           Recorded(c, tb, ip, renewing)
    PROVE  Refusal(c) \/ Grant(c)
<1>1. /\ Leased(tb) /\ Spares(tb, c.key)
      /\ Has(leases, c.key) /\ tb.by_key[c.key] = leases.by_key[c.key]
  BY ExpireIs
<1>2. clock \in Nat /\ scope \in Scopes  BY DEF ServerInv
<1>3. PICK own : own = tb.by_key[c.key]  OBVIOUS
<1>4. Sound(own)  BY <1>1, <1>3 DEF Leased, Has
<1>5. PICK ripe : ripe = (renewing /\ clock - own.provisional >= PROVISIONAL_MIN_AGE)
  OBVIOUS
<1>6. \/ Nak(c, tb, renewing)
      \/ /\ own.ip = ip /\ ~ HeldByOthers(tb, c, ip) /\ own.provisional # None
         /\ Ack(c, tb, [own EXCEPT !.expiry = clock + ProvisionalLength],
                ProvisionalLength)
      \/ /\ ~ HeldByOthers(tb, c, ip)
         /\ Ack(c, tb, NewLease(c, ip, TRUE, clock + LEASE, None), LEASE)
  <2>1. CASE own.ip = ip /\ ~ HeldByOthers(tb, c, ip) /\ own.provisional # None /\ ~ ripe
    BY <1>3, <1>5, <2>1 DEF Recorded
  <2>2. CASE own.ip = ip /\ ~ HeldByOthers(tb, c, ip) /\ (own.provisional = None \/ ripe)
    BY <1>3, <1>5, <2>2 DEF Recorded
  <2>3. CASE ~ (own.ip = ip /\ ~ HeldByOthers(tb, c, ip))
    BY <1>3, <2>3 DEF Recorded
  <2> QED  BY <2>1, <2>2, <2>3
<1>7. CASE Nak(c, tb, renewing)  BY <1>1, <1>7, NakRefuses
<1>8. CASE /\ own.ip = ip /\ ~ HeldByOthers(tb, c, ip) /\ own.provisional # None
           /\ Ack(c, tb, [own EXCEPT !.expiry = clock + ProvisionalLength],
                  ProvisionalLength)
  <2>1. PICK l : l = [own EXCEPT !.expiry = clock + ProvisionalLength]  OBVIOUS
  <2>2. /\ Sound(l) /\ l.ip = ip /\ l.bound /\ l.expiry = clock + ProvisionalLength
    BY <1>2, <1>4, <1>8, <2>1, LengthIs DEF Sound
  <2>3. c.key \in Provisional(leases)  BY <1>1, <1>3, <1>8 DEF Provisional, Has
  <2>4. Fits(c.key, ip) /\ ~ HeldByOther(tb, ip, c.key)
    BY <1>2, <1>8, UnheldFits
  <2> QED  BY <1>1, <1>8, <2>1, <2>2, <2>3, <2>4, AckGrants
<1>9. CASE /\ ~ HeldByOthers(tb, c, ip)
           /\ Ack(c, tb, NewLease(c, ip, TRUE, clock + LEASE, None), LEASE)
  <2>1. PICK l : l = NewLease(c, ip, TRUE, clock + LEASE, None)  OBVIOUS
  <2>2. clock + LEASE \in Int /\ None \in Int  BY <1>2, ServerAssumption DEF None
  <2>3. /\ Sound(l) /\ l.ip = ip /\ l.bound /\ l.expiry = clock + LEASE
        /\ l.provisional = None
    BY <2>1, <2>2, NewLeaseBound DEF NewLease
  <2>4. Fits(c.key, ip) /\ ~ HeldByOther(tb, ip, c.key)
    BY <1>2, <1>9, UnheldFits
  <2> QED  BY <1>1, <1>9, <2>1, <2>3, <2>4, AckGrants
<1> QED  BY <1>6, <1>7, <1>8, <1>9

LEMMA UnrecordedAnswers ==
    ASSUME ServerInv, NEW c \in Clients, NEW d, Leased(d), Spares(d, c.key),
           NEW ip, NEW renewing, Reservation(c) = None, ~ InUse(c.key),
           Unrecorded(c, d, ip, renewing)
    PROVE  Refusal(c) \/ Silence(c) \/ Grant(c)
<1>1. clock \in Nat /\ scope \in Scopes /\ Pool \subseteq Subnet
  BY ServerAssumption DEF ServerInv, Pool
<1>2. \/ Silent(d)
      \/ Nak(c, d, renewing)
      \/ /\ ip \in Pool /\ ~ HeldByOthers(d, c, ip) /\ ~ NearlyFull(d)
         /\ Ack(c, d, NewLease(c, ip, TRUE, clock + ProvisionalLength, clock),
                ProvisionalLength)
  <2>1. CASE ip \notin Pool  BY <2>1 DEF Unrecorded
  <2>2. CASE ip \in Pool /\ HeldByOthers(d, c, ip)  BY <2>2 DEF Unrecorded
  <2>3. CASE ip \in Pool /\ ~ HeldByOthers(d, c, ip)
    BY <2>3 DEF Unrecorded
  <2> QED  BY <2>1, <2>2, <2>3
<1>3. CASE Silent(d)  BY <1>3 DEF Silent, Silence
<1>4. CASE Nak(c, d, renewing)  BY <1>4, NakRefuses
<1>5. CASE /\ ip \in Pool /\ ~ HeldByOthers(d, c, ip) /\ ~ NearlyFull(d)
           /\ Ack(c, d, NewLease(c, ip, TRUE, clock + ProvisionalLength, clock),
                  ProvisionalLength)
  <2>1. PICK l : l = NewLease(c, ip, TRUE, clock + ProvisionalLength, clock)  OBVIOUS
  <2>2. clock + ProvisionalLength \in Int /\ clock \in Int  BY <1>1, LengthIs
  <2>3. Sound(l) /\ l.ip = ip /\ l.bound /\ l.expiry = clock + ProvisionalLength
    BY <2>1, <2>2 DEF NewLease, Sound
  <2>4. Fits(c.key, ip) /\ ~ HeldByOther(d, ip, c.key)
    BY <1>1, <1>5, UnheldFits
  <2> QED  BY <1>5, <2>1, <2>3, <2>4, AckGrants
<1> QED  BY <1>2, <1>3, <1>4, <1>5

LEMMA CommitAnswers ==
    ASSUME ServerInv, NEW c \in Clients, NEW tb, tb = Expire(leases, clock),
           NEW ip, NEW renewing, Commit(c, tb, ip, renewing)
    PROVE  Refusal(c) \/ Silence(c) \/ Grant(c)
<1>1. /\ Leased(tb) /\ Spares(tb, c.key)
      /\ Leased(Drop(tb, {c.key})) /\ Spares(Drop(tb, {c.key}), c.key)
      /\ Has(tb, c.key) <=> Has(leases, c.key) /\ leases.by_key[c.key].expiry > clock
      /\ Has(tb, c.key) => tb.by_key[c.key] = leases.by_key[c.key]
  BY ExpireIs
<1>2. clock \in Nat /\ scope \in Scopes  BY DEF ServerInv
<1>3. PICK own : own = tb.by_key[c.key]  OBVIOUS
<1>4. PICK granted : granted = (Has(tb, c.key) /\ own.ip = ip /\ ~ HeldByOthers(tb, c, ip))
  OBVIOUS
<1>5. CASE ip \notin Subnet \/ Reservation(c) \notin {None, ip}
  <2>1. Nak(c, tb, renewing)  BY <1>5 DEF Commit
  <2> QED  BY <1>1, <2>1, NakRefuses
<1>6. CASE ip \in Subnet /\ Reservation(c) = ip
  <2>1. PICK l : l = NewLease(c, ip, TRUE, clock + LEASE, None)  OBVIOUS
  <2>2. Ack(c, tb, l, LEASE)  BY <1>6, <2>1 DEF Commit
  <2>3. clock + LEASE \in Int /\ None \in Int  BY <1>2, ServerAssumption DEF None
  <2>4. /\ Sound(l) /\ l.ip = ip /\ l.bound /\ l.expiry = clock + LEASE
        /\ l.provisional = None
    BY <2>1, <2>3, NewLeaseBound DEF NewLease
  <2>5. Fits(c.key, ip)  BY <1>2, <1>6, OneReservation DEF Fits
  <2> QED  BY <1>1, <1>6, <2>2, <2>4, <2>5, AckGrants
<1>7. CASE /\ ip \in Subnet /\ Reservation(c) = None /\ Reservation(c) # ip
           /\ Has(tb, c.key) /\ (granted \/ own.bound)
  <2>1. Recorded(c, tb, ip, renewing)  BY <1>3, <1>4, <1>7 DEF Commit
  <2> QED  BY <1>7, <2>1, RecordedAnswers
<1>8. CASE /\ ip \in Subnet /\ Reservation(c) = None /\ Reservation(c) # ip
           /\ ~ (Has(tb, c.key) /\ (granted \/ own.bound))
  <2>1. Unrecorded(c, Drop(tb, {c.key}), ip, renewing)
    BY <1>3, <1>4, <1>8 DEF Commit
  <2>2. ~ InUse(c.key)  BY <1>1, <1>3, <1>8 DEF InUse
  <2> QED  BY <1>1, <1>8, <2>1, <2>2, UnrecordedAnswers
<1> QED  BY <1>5, <1>6, <1>7, <1>8

LEMMA DiscoverAnswers ==
    ASSUME ServerInv, NEW c, Discover(c)
    PROVE  c \in Clients /\ (Silence(c) \/ Offering(c))
<1>1. PICK tb : tb = Expire(leases, clock)  OBVIOUS
<1>2. PICK k : k = c.key  OBVIOUS
<1>3. PICK own : own = tb.by_key[k]  OBVIOUS
<1>4. PICK rest : rest = Drop(tb, {k})  OBVIOUS
<1>5. PICK free : free = {i \in Pool : ~ HeldByOthers(rest, c, i) /\ i \notin Live}  OBVIOUS
<1>6. c \in Clients /\ Reservation(c) = None /\ promise' = promise  BY DEF Discover
<1>7. /\ Leased(tb) /\ Spares(tb, k)
      /\ Leased(rest) /\ Spares(rest, k)
      /\ Has(tb, k) <=> Has(leases, k) /\ leases.by_key[k].expiry > clock
      /\ Has(tb, k) => tb.by_key[k] = leases.by_key[k]
  BY <1>1, <1>4, ExpireIs
<1>8. Has(tb, k) => ~ HeldByOthers(tb, c, own.ip)
  BY <1>2, <1>3, <1>6, <1>7, OwnUnheld
<1>9. \/ Has(tb, k) /\ leases' = tb
      \/ /\ Has(tb, k) /\ ~ own.bound
         /\ leases' = Insert(tb, k, [own EXCEPT !.expiry = clock + OFFER_HOLD])
      \/ ~ Has(tb, k) /\ leases' = rest
      \/ /\ ~ Has(tb, k) /\ free # {}
         /\ leases' = Insert(rest, k, NewLease(c, Min(free), FALSE, clock + OFFER_HOLD, None))
  BY <1>1, <1>2, <1>3, <1>4, <1>5, <1>8 DEF Discover
<1>10. clock \in Nat /\ scope \in Scopes /\ Pool \subseteq Subnet /\ Subnet \subseteq Nat
       /\ OFFER_HOLD \in Nat
  BY ServerAssumption DEF ServerInv, Pool
<1>11. CASE Has(tb, k) /\ leases' = tb
  BY <1>2, <1>6, <1>7, <1>11 DEF Silence
<1>12. CASE ~ Has(tb, k) /\ leases' = rest
  BY <1>2, <1>6, <1>7, <1>12 DEF Silence, InUse
<1>13. CASE /\ Has(tb, k) /\ ~ own.bound
            /\ leases' = Insert(tb, k, [own EXCEPT !.expiry = clock + OFFER_HOLD])
  <2>1. PICK l : l = [own EXCEPT !.expiry = clock + OFFER_HOLD]  OBVIOUS
  <2>2. Sound(own)  BY <1>3, <1>7, <1>13 DEF Leased, Has
  <2>3. /\ Sound(l) /\ l.ip = own.ip /\ ~ l.bound /\ l.provisional = None
    BY <1>10, <1>13, <2>1, <2>2 DEF Sound
  <2>4. Fits(k, own.ip) /\ own.ip \in Subnet
    BY <1>3, <1>7, <1>13 DEF Leased, Has, Fits
  <2>5. ~ HeldByOther(tb, own.ip, k)  BY <1>2, <1>8, <1>13 DEF HeldByOthers
  <2>6. Enters(tb, c, l)
    BY <1>2, <1>7, <1>13, <2>1, <2>3, <2>4, <2>5 DEF Enters
  <2>7. ~ InUse(k)  BY <1>3, <1>7, <1>13 DEF InUse
  <2> QED  BY <1>2, <1>6, <2>3, <2>6, <2>7 DEF Offering
<1>14. CASE /\ ~ Has(tb, k) /\ free # {}
            /\ leases' = Insert(rest, k,
                            NewLease(c, Min(free), FALSE, clock + OFFER_HOLD, None))
  <2>1. PICK ip : ip = Min(free)  OBVIOUS
  <2>2. ip \in free  BY <1>5, <1>10, <1>14, <2>1, LeastIs
  <2>3. ip \in Subnet /\ ~ HeldByOthers(rest, c, ip)  BY <1>5, <1>10, <2>2
  <2>4. PICK l : l = NewLease(c, ip, FALSE, clock + OFFER_HOLD, None)  OBVIOUS
  <2>5. clock + OFFER_HOLD \in Int /\ None \in Int  BY <1>10 DEF None
  <2>6. Sound(l) /\ l.ip = ip /\ ~ l.bound /\ l.provisional = None
    BY <2>4, <2>5, NewLeaseOffer DEF NewLease
  <2>7. Fits(k, ip) /\ ~ HeldByOther(rest, ip, k)
    BY <1>2, <1>6, <1>10, <2>3, UnheldFits
  <2>8. Enters(rest, c, l)
    BY <1>2, <1>7, <1>14, <2>1, <2>4, <2>6, <2>7 DEF Enters
  <2>9. ~ InUse(k)  BY <1>7, <1>14 DEF InUse
  <2> QED  BY <1>2, <1>6, <2>6, <2>8, <2>9 DEF Offering
<1> QED  BY <1>6, <1>9, <1>11, <1>12, <1>13, <1>14

(* Every handler comes to one of the four.                                 *)
LEMMA HandlersAnswer ==
    ASSUME ServerInv, NEW c,
           \/ Discover(c)
           \/ RequestElsewhere(c)
           \/ \E ip \in Addrs : RequestOffered(c, ip) \/ RequestRemembered(c, ip)
           \/ Renew(c) \/ Release(c) \/ Decline(c)
    PROVE  Answered
<1>1. PICK tb : tb = Expire(leases, clock)  OBVIOUS
<1>2. PICK k : k = c.key  OBVIOUS
<1>3. /\ Leased(tb) /\ Spares(tb, k)
      /\ Spares(Drop(tb, {k}), k)
      /\ Has(tb, k) <=> Has(leases, k) /\ leases.by_key[k].expiry > clock
      /\ Has(tb, k) => tb.by_key[k] = leases.by_key[k]
  BY <1>1, ExpireIs
<1>4. Counted(leases)  BY DEF ServerInv, Leased
<1>5. UNCHANGED <<clock, restarts, scope>> /\ c \in Clients
  BY DEF Discover, RequestElsewhere, RequestOffered, RequestRemembered, Renew,
     Release, Decline
<1> SUFFICES Refusal(c) \/ Silence(c) \/ Offering(c) \/ Grant(c)
  BY <1>5 DEF Answered
<1>6. CASE Discover(c)  BY <1>6, DiscoverAnswers
<1>7. CASE RequestElsewhere(c)
  <2>1. Silent(IF Has(tb, k) /\ ~ tb.by_key[k].bound THEN Drop(tb, {k}) ELSE tb)
    BY <1>1, <1>2, <1>7 DEF RequestElsewhere
  <2>2. CASE Has(tb, k) /\ ~ tb.by_key[k].bound
    BY <1>2, <1>3, <2>1, <2>2 DEF Silent, Silence, InUse
  <2>3. CASE ~ (Has(tb, k) /\ ~ tb.by_key[k].bound)
    BY <1>2, <1>3, <2>1, <2>3 DEF Silent, Silence, InUse
  <2> QED  BY <2>2, <2>3
<1>8. ASSUME NEW ip, RequestOffered(c, ip) PROVE Refusal(c) \/ Silence(c) \/ Grant(c)
  <2>1. Nak(c, Drop(tb, {k}), FALSE) \/ Commit(c, tb, ip, FALSE)
    BY <1>1, <1>2, <1>8 DEF RequestOffered
  <2> QED  BY <1>1, <1>2, <1>3, <1>5, <2>1, NakRefuses, CommitAnswers
<1>9. ASSUME NEW ip, RequestRemembered(c, ip) PROVE Refusal(c) \/ Silence(c) \/ Grant(c)
  <2>1. Commit(c, tb, ip, FALSE)  BY <1>1, <1>9 DEF RequestRemembered
  <2> QED  BY <1>1, <1>5, <2>1, CommitAnswers
<1>10. CASE Renew(c)
  <2>1. Commit(c, tb, promise[k].ip, TRUE)  BY <1>1, <1>2, <1>10 DEF Renew
  <2> QED  BY <1>1, <1>5, <2>1, CommitAnswers
<1>11. CASE Release(c)
  <2>1. promise' = [promise EXCEPT ![k] = NoPromise]  BY <1>2, <1>11 DEF Release
  <2>2. leases' = Drop(leases, {k}) \/ leases' = leases  BY <1>2, <1>11 DEF Release
  <2>3. Spares(leases, k)  BY <1>4 DEF Spares, Part
  <2>4. Spares(Drop(leases, {k}), k)  BY <1>4, DropIs DEF Spares, Part
  <2> QED  BY <1>2, <2>1, <2>2, <2>3, <2>4 DEF Refusal
<1>12. CASE Decline(c)
  <2>1. promise' = [promise EXCEPT ![k] = NoPromise]  BY <1>2, <1>12 DEF Decline
  <2>2. leases' = Drop(tb, {k}) \/ leases' = tb  BY <1>1, <1>2, <1>12 DEF Decline
  <2> QED  BY <1>2, <1>3, <2>1, <2>2 DEF Refusal
<1> QED  BY <1>6, <1>7, <1>8, <1>9, <1>10, <1>11, <1>12

LEMMA EmptyLeased == ASSUME scope \in Scopes PROVE Leased(Empty)
<1>1. PICK e : e = Empty  OBVIOUS
<1>2. /\ e = [by_key |-> e.by_key, by_ip |-> e.by_ip, by_src |-> e.by_src]
      /\ e.by_key = <<>> /\ e.by_ip = [i \in Addrs |-> 0] /\ e.by_src = [s \in Srcs |-> 0]
  BY <1>1 DEF Empty
<1>3. DOMAIN e.by_key = {} /\ e.by_key = [k \in {} |-> e.by_key[k]]  BY <1>2
<1>4. (\A i : ByIp(e, i) = {}) /\ (\A s : BySrc(e, s) = {})
  BY <1>3 DEF ByIp, BySrc
<1>5. Counted(e)  BY <1>2, <1>3, <1>4, FS_EmptySet DEF Counted
<1> QED  BY <1>1, <1>3, <1>5 DEF Leased, Apart

LEMMA ServerInit == Init => ServerInv
<1> SUFFICES ASSUME Init PROVE ServerInv  OBVIOUS
<1>1. Leased(leases)  BY EmptyLeased DEF Init
<1>2. promise = [k \in Keys |-> NoPromise] /\ clock = 0  BY DEF Init
<1>3. Promised  BY <1>2 DEF Promised, NoPromise, Holding
<1> QED  BY <1>1, <1>3 DEF ServerInv, Init

LEMMA ServerNext == ServerInv /\ [Next]_vars => ServerInv'
<1> SUFFICES ASSUME ServerInv, [Next]_vars PROVE ServerInv'  OBVIOUS
<1>1. ASSUME Restart PROVE ServerInv'
  <2>1. /\ leases' = Empty /\ UNCHANGED <<clock, promise, scope>>
        /\ restarts' = restarts + 1 /\ restarts \in Nat
    BY <1>1 DEF Restart, ServerInv
  <2>2. Leased(leases)'  BY <2>1, EmptyLeased, LeasedPrimed DEF ServerInv
  <2>3. \A k : ~ Has(leases', k)  BY <2>1 DEF Has, Empty
  <2>4. ASSUME NEW k \in Keys, Holding(k)' PROVE Honest(k)'
    <3>1. Honest(k)  BY <2>1, <2>4 DEF ServerInv, Promised, Holding
    <3>2. Fits(k, promise[k].ip)'  BY <2>1, <3>1, FitsPrimed DEF Honest
    <3> QED  BY <2>1, <2>3, <3>2 DEF Honest, Has
  <2>5. Promised'  BY <2>1, <2>4 DEF Promised, ServerInv
  <2> QED  BY <2>1, <2>2, <2>5 DEF ServerInv
<1>2. ASSUME Tick PROVE ServerInv'
  <2>1. /\ UNCHANGED <<leases, promise, restarts, scope>>
        /\ clock' = clock + 1 /\ clock \in Nat
    BY <1>2 DEF Tick, ServerInv
  <2>2. Leased(leases)'  BY <2>1, LeasedPrimed DEF ServerInv
  <2>3. ASSUME NEW k \in Keys, Holding(k)' PROVE Honest(k)'
    <3>1. Holding(k)  BY <2>1, <2>3 DEF Holding, ServerInv, Promised
    <3>2. Honest(k)  BY <3>1 DEF ServerInv, Promised
    <3>3. Fits(k, promise[k].ip)'  BY <2>1, <3>2, FitsPrimed DEF Honest
    <3> QED  BY <2>1, <3>2, <3>3 DEF Honest, Has
  <2>4. Promised'  BY <2>1, <2>3 DEF Promised, ServerInv
  <2> QED  BY <2>1, <2>2, <2>4 DEF ServerInv
<1>3. ASSUME UNCHANGED vars PROVE ServerInv'
  <2>1. UNCHANGED <<clock, leases, promise, restarts, scope>>  BY <1>3 DEF vars
  <2>2. Leased(leases)'  BY <2>1, LeasedPrimed DEF ServerInv
  <2>3. Promised'
    BY <2>1 DEF ServerInv, Promised, Holding, Honest, Has, Fits, Reservation,
       Reserved, Clients
  <2> QED  BY <2>1, <2>2, <2>3 DEF ServerInv
<1> QED
  BY <1>1, <1>2, <1>3, HandlersAnswer, AnsweredKeeps DEF Next

(* The counts by address and by Ethernet source agree with the table after *)
(* any sequence of messages, expiries, releases and restarts.              *)
THEOREM CountsAgree == Spec => []IndexesAgree
<1>1. ServerInv => IndexesAgree
  BY DEF ServerInv, Leased, Counted, IndexesAgree, ByIp, BySrc
<1> QED  BY <1>1, ServerInit, ServerNext, PTL DEF Spec

(* While a client may use its address the server has it on record for at   *)
(* least as long, whatever it or other clients ask, short of a restart.    *)
THEOREM LeasesAreKept == Spec => []LeaseKept
<1>1. ServerInv => LeaseKept
  BY DEF ServerInv, Promised, Honest, LeaseKept
<1> QED  BY <1>1, ServerInit, ServerNext, PTL DEF Spec

(* Two clients are told to use one address at once only where it is        *)
(* reserved for both, or after the server has forgotten its leases.        *)
THEOREM AddressesNotShared == Spec => []NoSharedAddress
<1>1. ServerInv => NoSharedAddress
  <2> SUFFICES ASSUME ServerInv, NEW j \in Keys, NEW k \in Keys, restarts = 0, j # k,
                      Holding(j), Holding(k), promise[j].ip = promise[k].ip,
                      NEW c \in Clients, c.key \in {j, k}
               PROVE  Reservation(c) = promise[j].ip
    BY DEF NoSharedAddress
  <2>1. /\ Has(leases, j) /\ leases.by_key[j].ip = promise[j].ip
        /\ Has(leases, k) /\ leases.by_key[k].ip = promise[k].ip
    BY DEF ServerInv, Promised, Honest
  <2> QED  BY <2>1 DEF ServerInv, Leased, Apart, Has
<1> QED  BY <1>1, ServerInit, ServerNext, PTL DEF Spec

-----------------------------------------------------------------------------
(* Leases granted on a client's word alone.                                *)

LEMMA CapacityIs == ASSUME scope \in Scopes PROVE Capacity \in Nat
<1>1. Pool \subseteq Subnet /\ IsFiniteSet(Subnet) /\ scope.max_leases \in Nat
  BY ServerAssumption DEF Pool
<1>2. Cardinality(Pool) \in Nat  BY <1>1, FS_Subset, FS_CardinalityType
<1>3. PICK n \in Nat, m \in Nat : n = Cardinality(Pool) /\ m = scope.max_leases
  BY <1>1, <1>2
<1>4. Min({n, m}) \in {n, m}  BY LeastIs
<1> QED  BY <1>3, <1>4 DEF Capacity

LEMMA ProvisionalFewer ==
    ASSUME ServerInv, ProvisionalBounded, scope' = scope,
           Provisional(leases') \subseteq Provisional(leases)
    PROVE  ProvisionalBounded'
<1>1. IsFiniteSet(Provisional(leases))
  BY FS_Subset DEF ServerInv, Leased, Counted, Provisional
<1>2. PICK n \in Nat, m \in Nat : /\ n = Cardinality(Provisional(leases))
                                  /\ m = Cardinality(Provisional(leases')) /\ m <= n
  BY <1>1, FS_Subset, FS_CardinalityType
<1>3. Capacity \in Nat /\ Capacity' = Capacity
  BY CapacityIs DEF ServerInv, Capacity, Pool
<1>4. n + Capacity \div 4 <= Capacity  BY <1>2 DEF ProvisionalBounded, Provisional
<1>5. m + Capacity' \div 4 <= Capacity'  BY <1>2, <1>3, <1>4
<1> QED  BY <1>2, <1>5 DEF ProvisionalBounded, Provisional

LEMMA ProvisionalRoom ==
    ASSUME ServerInv, scope' = scope, NEW tb, IsFiniteSet(DOMAIN tb.by_key),
           ~ NearlyFull(tb), NEW k,
           Provisional(leases') \subseteq DOMAIN tb.by_key \cup {k}
    PROVE  ProvisionalBounded'
<1>1. IsFiniteSet(DOMAIN tb.by_key \cup {k})  BY FS_AddElement
<1>2. PICK n \in Nat, m \in Nat : /\ n = Cardinality(DOMAIN tb.by_key)
                                  /\ m = Cardinality(Provisional(leases')) /\ m <= n + 1
  <2>1. PICK n \in Nat : n = Cardinality(DOMAIN tb.by_key)  BY FS_CardinalityType
  <2>2. Cardinality(DOMAIN tb.by_key \cup {k}) \in {n, n + 1}
    BY <2>1, FS_AddElement
  <2>3. PICK m \in Nat : /\ m = Cardinality(Provisional(leases'))
                         /\ m <= Cardinality(DOMAIN tb.by_key \cup {k})
    BY <1>1, FS_Subset, FS_CardinalityType
  <2> QED  BY <2>1, <2>2, <2>3
<1>3. Capacity \in Nat /\ Capacity' = Capacity
  BY CapacityIs DEF ServerInv, Capacity, Pool
<1>4. ~ (n * 4 >= Capacity * 3)  BY <1>2 DEF NearlyFull
<1>5. \A c \in Nat : c \div 4 \in Nat /\ 4 * (c \div 4) <= c  OBVIOUS
<1>6. m + Capacity' \div 4 <= Capacity'  BY <1>2, <1>3, <1>4, <1>5
<1> QED  BY <1>2, <1>6 DEF ProvisionalBounded, Provisional

LEMMA AnsweredBounded ==
    ASSUME ServerInv, ProvisionalBounded, Answered
    PROVE  ProvisionalBounded'
<1>1. PICK c \in Clients : Refusal(c) \/ Silence(c) \/ Offering(c) \/ Grant(c)
  BY DEF Answered
<1>2. scope' = scope  BY DEF Answered
<1>3. CASE Spares(leases', c.key)
  BY <1>2, <1>3, ProvisionalFewer DEF Spares, Part, Provisional
<1>4. ASSUME NEW tb, NEW l, Enters(tb, c, l) PROVE ProvisionalBounded'
  <2>1. Part(tb, leases) /\ Leased(tb)
    BY <1>4, PartLeased DEF Enters, Spares, ServerInv
  <2>2. l.ip \in Addrs /\ Counted(tb)  BY <1>4, <2>1 DEF Enters, Fits, Addrs, Leased
  <2>3. /\ DOMAIN leases'.by_key = DOMAIN tb.by_key \cup {c.key}
        /\ leases'.by_key[c.key] = l
        /\ \A j \in DOMAIN tb.by_key \ {c.key} : leases'.by_key[j] = tb.by_key[j]
    BY <1>4, <2>2, InsertIs DEF Enters
  <2>4. CASE l.provisional = None \/ c.key \in Provisional(leases)
    BY <1>2, <2>1, <2>3, <2>4, ProvisionalFewer DEF Part, Provisional
  <2>5. CASE ~ NearlyFull(tb)
    BY <1>2, <2>2, <2>3, <2>5, ProvisionalRoom DEF Counted, Provisional
  <2> QED  BY <1>4, <2>4, <2>5 DEF Enters
<1> QED  BY <1>1, <1>3, <1>4 DEF Refusal, Silence, Offering, Grant

(* Leases granted on a client's word alone leave a quarter of the          *)
(* capacity, rounded down, to others, through any number of restarts and   *)
(* of renewals of them.                                                    *)
THEOREM QuarterIsKept == Spec => []ProvisionalBounded
<1>1. ASSUME leases = Empty, scope \in Scopes PROVE ProvisionalBounded
  <2>1. Provisional(leases) = {}  BY <1>1 DEF Provisional, Empty
  <2>2. Cardinality(Provisional(leases)) = 0  BY <2>1, FS_EmptySet
  <2>3. \A c \in Nat : 0 + c \div 4 <= c  OBVIOUS
  <2> QED  BY <1>1, <2>2, <2>3, CapacityIs DEF ProvisionalBounded, Provisional
<1>2. Init => ServerInv /\ ProvisionalBounded
  BY <1>1, ServerInit DEF Init
<1>3. ServerInv /\ ProvisionalBounded /\ [Next]_vars => (ServerInv /\ ProvisionalBounded)'
  <2> SUFFICES ASSUME ServerInv, ProvisionalBounded, [Next]_vars
               PROVE  ProvisionalBounded'
    BY ServerNext
  <2>1. ASSUME Restart PROVE ProvisionalBounded'
    <3>1. leases' = Empty /\ scope' = scope  BY <2>1 DEF Restart
    <3>2. Provisional(leases') = {}  BY <3>1 DEF Provisional, Empty
    <3> QED  BY <3>1, <3>2, ProvisionalFewer
  <2>2. ASSUME Tick \/ UNCHANGED vars PROVE ProvisionalBounded'
    BY <2>2, ProvisionalFewer DEF Tick, vars
  <2> QED  BY <2>1, <2>2, HandlersAnswer, AnsweredBounded DEF Next
<1> QED  BY <1>2, <1>3, PTL DEF Spec

-----------------------------------------------------------------------------
(* Renewals.                                                               *)

(* An address that fits the client and is held by others is in the table.  *)
LEMMA HeldIsLeased ==
    ASSUME NEW d, Part(d, leases), NEW c \in Clients, NEW ip, Fits(c.key, ip),
           Reservation(c) # ip, HeldByOthers(d, c, ip)
    PROVE  \E j \in DOMAIN leases.by_key \ {c.key} : leases.by_key[j].ip = ip
<1>1. \A m \in DOMAIN Reserved : Reserved[m] # ip  BY DEF Fits
<1>2. HeldByOther(d, ip, c.key)  BY <1>1 DEF HeldByOthers
<1>3. ip \in Addrs /\ Counted(d)  BY DEF Fits, Addrs, Part
<1>4. \E j \in DOMAIN d.by_key \ {c.key} : d.by_key[j].ip = ip
  BY <1>2, <1>3, HeldMeans
<1> QED  BY <1>4 DEF Part

LEMMA RenewalRefused ==
    ASSUME ServerInv, NEW c, Renew(c), refused' # None
    PROVE  /\ refused' = c.key
           /\ \E j \in DOMAIN leases.by_key \ {c.key} :
                    leases.by_key[j].ip = promise[c.key].ip
<1>1. PICK tb : tb = Expire(leases, clock)  OBVIOUS
<1>2. PICK ip : ip = promise[c.key].ip  OBVIOUS
<1>3. c \in Clients /\ Holding(c.key) /\ Commit(c, tb, ip, TRUE)
  BY <1>1, <1>2 DEF Renew, Holding
<1>4. Honest(c.key)  BY <1>3, ClientKey DEF ServerInv, Promised
<1>5. Fits(c.key, ip)  BY <1>2, <1>4 DEF Honest
<1>6. Reservation(c) \in {None, ip} /\ ip \in Subnet  BY <1>3, <1>5 DEF Fits
<1>7. /\ Spares(tb, c.key) /\ Spares(Drop(tb, {c.key}), c.key)
      /\ Has(tb, c.key) => Has(leases, c.key) /\ tb.by_key[c.key] = leases.by_key[c.key]
  BY <1>1, ExpireIs
<1>8. Reservation(c) # ip
  <2> SUFFICES ASSUME Reservation(c) = ip PROVE FALSE  OBVIOUS
  <2>1. Ack(c, tb, NewLease(c, ip, TRUE, clock + LEASE, None), LEASE)
    BY <1>3, <1>6 DEF Commit
  <2> QED  BY <2>1 DEF Ack
<1>9. PICK own : own = tb.by_key[c.key]  OBVIOUS
<1>10. PICK granted : granted = (Has(tb, c.key) /\ own.ip = ip /\ ~ HeldByOthers(tb, c, ip))
  OBVIOUS
<1>11. CASE Has(tb, c.key) /\ (granted \/ own.bound)
  <2>1. Recorded(c, tb, ip, TRUE)  BY <1>3, <1>6, <1>8, <1>9, <1>10, <1>11 DEF Commit
  <2>2. own.ip = ip  BY <1>2, <1>4, <1>7, <1>9, <1>10, <1>11 DEF Honest
  <2>3. HeldByOthers(tb, c, ip) /\ Nak(c, tb, TRUE)
    <3>1. PICK ripe : ripe = (TRUE /\ clock - own.provisional >= PROVISIONAL_MIN_AGE)
      OBVIOUS
    <3>2. CASE ~ HeldByOthers(tb, c, ip) /\ own.provisional # None /\ ~ ripe
      <4>1. Ack(c, tb, [own EXCEPT !.expiry = clock + ProvisionalLength], ProvisionalLength)
        BY <1>9, <2>1, <2>2, <3>1, <3>2 DEF Recorded
      <4> QED  BY <4>1 DEF Ack
    <3>3. CASE ~ HeldByOthers(tb, c, ip) /\ (own.provisional = None \/ ripe)
      <4>1. Ack(c, tb, NewLease(c, ip, TRUE, clock + LEASE, None), LEASE)
        BY <1>9, <2>1, <2>2, <3>1, <3>3 DEF Recorded
      <4> QED  BY <4>1 DEF Ack
    <3>4. CASE HeldByOthers(tb, c, ip)  BY <2>1, <3>4 DEF Recorded
    <3> QED  BY <3>2, <3>3, <3>4
  <2> QED  BY <1>2, <1>3, <1>5, <1>7, <1>8, <2>3, HeldIsLeased DEF Spares, Nak
<1>12. CASE ~ (Has(tb, c.key) /\ (granted \/ own.bound))
  <2>1. PICK d : d = Drop(tb, {c.key})  OBVIOUS
  <2>2. Unrecorded(c, d, ip, TRUE)
    BY <1>3, <1>6, <1>8, <1>9, <1>10, <1>12, <2>1 DEF Commit
  <2>3. CASE ip \notin Pool  BY <2>2, <2>3 DEF Unrecorded, Silent
  <2>4. CASE ip \in Pool /\ ~ HeldByOthers(d, c, ip)
    BY <2>2, <2>4 DEF Unrecorded, Refuses, Silent, Ack
  <2>5. CASE ip \in Pool /\ HeldByOthers(d, c, ip)
    <3>1. Nak(c, d, TRUE)  BY <2>2, <2>5 DEF Unrecorded
    <3> QED  BY <1>2, <1>3, <1>5, <1>7, <1>8, <2>1, <2>5, <3>1, HeldIsLeased DEF Spares, Nak
  <2> QED  BY <2>3, <2>4, <2>5
<1> QED  BY <1>11, <1>12

(* Only a renewal is recorded as refused.                                  *)
LEMMA OthersNotRefused ==
    ASSUME Next, ~ \E c : Renew(c)
    PROVE  refused' = None
<1>1. ASSUME NEW c, NEW tb, NEW ip, Commit(c, tb, ip, FALSE) PROVE refused' = None
  <2>1. ASSUME NEW t, Nak(c, t, FALSE) PROVE refused' = None  BY <2>1 DEF Nak
  <2>2. ASSUME Recorded(c, tb, ip, FALSE) PROVE refused' = None
    BY <2>1, <2>2 DEF Recorded, Ack
  <2>3. ASSUME NEW d, Unrecorded(c, d, ip, FALSE) PROVE refused' = None
    <3>1. CASE ip \notin Pool  BY <2>3, <3>1 DEF Unrecorded, Silent
    <3>2. CASE ip \in Pool /\ HeldByOthers(d, c, ip)
      BY <2>1, <2>3, <3>2 DEF Unrecorded
    <3>3. CASE ip \in Pool /\ ~ HeldByOthers(d, c, ip)
      BY <2>1, <2>3, <3>3 DEF Unrecorded, Silent, Ack
    <3> QED  BY <3>1, <3>2, <3>3
  <2> QED  BY <1>1, <2>1, <2>2, <2>3 DEF Commit, Ack
<1>2. ASSUME NEW c, NEW ip, RequestOffered(c, ip) PROVE refused' = None
  BY <1>1, <1>2 DEF RequestOffered, Nak
<1>3. ASSUME NEW c, NEW ip, RequestRemembered(c, ip) PROVE refused' = None
  BY <1>1, <1>3 DEF RequestRemembered
<1>4. ASSUME NEW c, Discover(c) \/ RequestElsewhere(c) \/ Release(c) \/ Decline(c)
      PROVE  refused' = None
  BY <1>4 DEF Discover, RequestElsewhere, Release, Decline, Silent
<1> QED  BY <1>2, <1>3, <1>4 DEF Next, Restart, Tick

(* The table's keys are the clients'.                                      *)
KeysOnly == DOMAIN leases.by_key \subseteq Keys

LEMMA OnlyKeys == Spec => []KeysOnly
<1>1. Init => KeysOnly  BY DEF Init, KeysOnly, Empty
<1>2. ServerInv /\ KeysOnly /\ [Next]_vars => KeysOnly'
  <2> SUFFICES ASSUME ServerInv, KeysOnly, [Next]_vars PROVE KeysOnly'  OBVIOUS
  <2>1. ASSUME Answered PROVE KeysOnly'
    <3>1. PICK c \in Clients : Refusal(c) \/ Silence(c) \/ Offering(c) \/ Grant(c)
      BY <2>1 DEF Answered
    <3>2. CASE Spares(leases', c.key)  BY <3>2 DEF Spares, Part, KeysOnly
    <3>3. ASSUME NEW tb, NEW l, Enters(tb, c, l) PROVE KeysOnly'
      <4>1. Leased(tb)  BY <3>3, PartLeased DEF Enters, Spares, ServerInv
      <4>2. l.ip \in Addrs /\ Counted(tb)
        BY <3>3, <4>1 DEF Enters, Fits, Addrs, Leased
      <4>3. DOMAIN leases'.by_key = DOMAIN tb.by_key \cup {c.key}
        BY <3>3, <4>2, InsertIs DEF Enters
      <4>4. c.key \in Keys  BY ClientKey DEF ServerInv
      <4> QED  BY <3>3, <4>3, <4>4 DEF Enters, Spares, Part, KeysOnly
    <3> QED  BY <3>1, <3>2, <3>3 DEF Refusal, Silence, Offering, Grant
  <2>2. ASSUME Restart PROVE KeysOnly'  BY <2>2 DEF Restart, KeysOnly, Empty
  <2>3. ASSUME Tick \/ UNCHANGED vars PROVE KeysOnly'
    BY <2>3 DEF Tick, vars, KeysOnly
  <2> QED  BY <2>1, <2>2, <2>3, HandlersAnswer DEF Next
<1> QED  BY <1>1, <1>2, ServerInit, ServerNext, PTL DEF Spec

(* A client that renews the address it is using is refused only when the   *)
(* table has that address for another key: not for a declined address, not *)
(* for a restart, not for a reservation, not for a full table.             *)
THEOREM RenewalsHonoured == Spec => RenewalHonoured
<1> DEFINE A == \A k \in Keys :
                    refused # k /\ refused' = k =>
                        \E j \in Keys \ {k} : /\ Has(leases, j)
                                              /\ leases.by_key[j].ip = promise[k].ip
<1>1. ServerInv /\ KeysOnly /\ [Next]_vars => [A]_vars
  <2> SUFFICES ASSUME ServerInv, KeysOnly, Next PROVE A  OBVIOUS
  <2> SUFFICES ASSUME NEW k \in Keys, refused # k, refused' = k
               PROVE  \E j \in Keys \ {k} : /\ Has(leases, j)
                                            /\ leases.by_key[j].ip = promise[k].ip
    OBVIOUS
  <2>1. k # None  BY ServerAssumption
  <2>2. PICK c : Renew(c)  BY <2>1, OthersNotRefused
  <2> QED  BY <2>1, <2>2, RenewalRefused DEF Has, KeysOnly
<1>2. Spec => []KeysOnly  BY OnlyKeys
<1>3. Spec => [][A]_vars  BY <1>1, <1>2, ServerInit, ServerNext, PTL DEF Spec
<1> QED  BY <1>3 DEF RenewalHonoured
=============================================================================
