--------------------------- MODULE WgReplayProofs ---------------------------
(***************************************************************************)
(* Proofs about the replay filter for every word size, ring size, counter  *)
(* limit and number of receiving threads.  The inductive invariant says    *)
(* what the ring holds: of the BITMAP_WORDS words that end at the current  *)
(* one, exactly the bits of the counters accepted.                         *)
(***************************************************************************)
EXTENDS WgReplay, TLAPS

InRing(c) == /\ WordOf(c) <= CurrentWord
             /\ CurrentWord < WordOf(c) + BITMAP_WORDS

IInv ==
    /\ TypeOK
    /\ AcceptedOnce
    /\ \A c \in Counters : c >= next => accepts[c] = 0
    /\ \A c \in Counters : InRing(c) =>
            (BitOf(c) \in bitmap[SlotOf(c)] <=> accepts[c] = 1)

-----------------------------------------------------------------------------
(* Arithmetic of words and slots.                                          *)

LEMMA DivMod ==
    ASSUME NEW n \in Nat, NEW d \in Nat \ {0}
    PROVE  /\ n \div d \in Nat
           /\ n % d \in 0 .. d - 1
           /\ n = d * (n \div d) + (n % d)
  OBVIOUS

(* A multiple of d smaller than d is zero.                                 *)
LEMMA SmallMultiple ==
    ASSUME NEW d \in Nat \ {0}, NEW a \in Int, NEW r \in Int,
           d * a = r, -d < r, r < d
    PROVE  a = 0
<1>1. CASE a >= 1
  <2>1. d * a >= d  BY <1>1, SMT
  <2> QED  BY <2>1
<1>2. CASE a <= -1
  <2>1. d * a <= -d  BY <1>2, SMT
  <2> QED  BY <2>1
<1> QED  BY <1>1, <1>2

LEMMA DivMonotone ==
    ASSUME NEW m \in Nat, NEW n \in Nat, NEW d \in Nat \ {0}, m <= n
    PROVE  m \div d <= n \div d
<1> DEFINE a == m \div d   b == n \div d
<1>1. /\ a \in Nat /\ b \in Nat
      /\ m = d * a + (m % d) /\ m % d \in 0 .. d - 1
      /\ n = d * b + (n % d) /\ n % d \in 0 .. d - 1
  BY DivMod
<1>2. SUFFICES ASSUME a >= b + 1 PROVE FALSE
  BY <1>1
<1>3. d * a >= d * (b + 1)  BY <1>1, <1>2, SMT
<1>4. d * (b + 1) = d * b + d  BY <1>1, SMT
<1> HIDE DEF a, b
<1> QED  BY <1>1, <1>3, <1>4

(* Two numbers less than d apart that agree modulo d are equal.            *)
LEMMA ModInjective ==
    ASSUME NEW m \in Nat, NEW n \in Nat, NEW d \in Nat \ {0},
           m % d = n % d, m - n < d, n - m < d
    PROVE  m = n
<1> DEFINE a == m \div d   b == n \div d   r == n % d
<1>1. /\ a \in Nat /\ b \in Nat /\ r \in Nat
      /\ m = d * a + r
      /\ n = d * b + r
  <2>1. a \in Nat /\ m = d * a + (m % d)  BY DivMod
  <2>2. b \in Nat /\ n = d * b + (n % d)  BY DivMod
  <2>3. r \in 0 .. d - 1  BY DivMod
  <2> QED  BY <2>1, <2>2, <2>3
<1> HIDE DEF a, b, r
<1>2. d * (a - b) = m - n  BY <1>1, SMT
<1>3. a - b = 0  BY <1>1, <1>2, SmallMultiple
<1>4. a = b  BY <1>1, <1>3
<1> QED  BY <1>1, <1>4

(* d consecutive numbers take every value modulo d.                        *)
LEMMA ModSurjective ==
    ASSUME NEW m \in Nat, NEW d \in Nat \ {0}, NEW s \in 0 .. d - 1
    PROVE  \E i \in 1 .. d : (m + i) % d = s
<1> DEFINE a == m \div d   r == m % d
<1>1. /\ a \in Nat /\ r \in 0 .. d - 1 /\ m = d * a + r
  BY DivMod
<1> DEFINE i == IF s > r THEN s - r ELSE s - r + d
<1>2. i \in 1 .. d  BY <1>1
<1> DEFINE q == IF s > r THEN a ELSE a + 1
<1>3. q \in Nat /\ d * (a + 1) = d * a + d  BY <1>1, SMT
<1>4. m + i = d * q + s  BY <1>1, <1>3
<1> DEFINE x == m + i   q2 == x \div d   s2 == x % d
<1>5. x \in Nat  BY <1>2
<1>6. /\ q2 \in Nat /\ s2 \in 0 .. d - 1 /\ x = d * q2 + s2
  BY <1>5, DivMod
<1> HIDE DEF a, r, i, q, x, q2, s2
<1>7. d * (q2 - q) = s - s2  BY <1>3, <1>4, <1>5, <1>6, SMT DEF x
<1>8. q2 - q = 0  BY <1>3, <1>6, <1>7, SmallMultiple
<1>9. s2 = s  BY <1>3, <1>6, <1>7, <1>8, SMT
<1> QED  BY <1>2, <1>9 DEF s2, x

-----------------------------------------------------------------------------
(* Facts about the window.                                                 *)

LEMMA WordFacts ==
    ASSUME NEW c \in Nat
    PROVE  /\ WordOf(c) \in Nat
           /\ SlotOf(c) \in Slots
           /\ BitOf(c) \in Bits
           /\ c = WORD_BITS * WordOf(c) + BitOf(c)
<1>1. /\ WordOf(c) \in Nat /\ BitOf(c) \in Bits
      /\ c = WORD_BITS * WordOf(c) + BitOf(c)
  BY DivMod, WindowAssumption DEF WordOf, BitOf, Bits
<1>2. SlotOf(c) \in Slots
  BY <1>1, DivMod, WindowAssumption DEF SlotOf, Slots
<1> QED  BY <1>1, <1>2

(* Inside the ring, a slot and a bit belong to one counter.                *)
LEMMA CellInjective ==
    ASSUME NEW c \in Nat, NEW e \in Nat,
           SlotOf(c) = SlotOf(e), BitOf(c) = BitOf(e),
           WordOf(c) - WordOf(e) < BITMAP_WORDS,
           WordOf(e) - WordOf(c) < BITMAP_WORDS
    PROVE  c = e
<1>1. WordOf(c) = WordOf(e)
  BY WordFacts, ModInjective, WindowAssumption DEF SlotOf
<1> QED  BY <1>1, WordFacts

(* What is not too old still has its word in the ring.                     *)
LEMMA YoungInRing ==
    ASSUME next \in Nat, NEW c \in Nat, c < next, ~ TooOldOrInvalid(c)
    PROVE  InRing(c)
<1> DEFINE W == WordOf(c)   cur == WordOf(next - 1)
<1>1. CurrentWord = cur  BY DEF CurrentWord
<1>2. W <= cur  BY DivMonotone, WindowAssumption DEF WordOf
<1>3. next - 1 <= c + WINDOW
  <2>1. WINDOW \in Int  BY WindowAssumption DEF WINDOW
  <2>2. REJECT_AFTER_MESSAGES \in Nat  BY WindowAssumption
  <2> QED  BY <2>1, <2>2 DEF TooOldOrInvalid
<1>4. /\ W \in Nat /\ c = WORD_BITS * W + BitOf(c) /\ BitOf(c) \in Bits
      /\ cur \in Nat /\ BitOf(next - 1) \in Bits
      /\ next - 1 = WORD_BITS * cur + BitOf(next - 1)
  BY WordFacts
<1>5. cur < W + BITMAP_WORDS
  <2> HIDE DEF W, cur
  <2>1. SUFFICES ASSUME cur >= W + BITMAP_WORDS PROVE FALSE
    BY <1>4, WindowAssumption
  <2>2. WORD_BITS * cur >= WORD_BITS * (W + BITMAP_WORDS)
    BY <1>4, <2>1, WindowAssumption, SMT
  <2>3. WORD_BITS * (W + BITMAP_WORDS) =
            WORD_BITS * W + WINDOW + WORD_BITS
    BY <1>4, WindowAssumption, SMT DEF WINDOW
  <2>4. /\ WINDOW \in Int /\ WORD_BITS * cur \in Int
        /\ WORD_BITS * W \in Int
    BY <1>4, WindowAssumption DEF WINDOW
  <2> QED  BY <1>3, <1>4, <2>2, <2>3, <2>4, WindowAssumption DEF Bits
<1> QED  BY <1>1, <1>2, <1>5 DEF InRing
-----------------------------------------------------------------------------
(* The ring after an advance holds, for the words of the new window, what  *)
(* had been accepted, and nothing of the previous lap.                     *)
LEMMA AdvanceExact ==
    ASSUME IInv, NEW c \in Counters, c + 1 > next,
           NEW e \in Counters, WordOf(e) <= WordOf(c),
           WordOf(c) < WordOf(e) + BITMAP_WORDS
    PROVE  /\ Advance(c) \in [Slots -> SUBSET Bits]
           /\ BitOf(e) \in Advance(c)[SlotOf(e)] <=> accepts[e] = 1
<1> DEFINE cur   == CurrentWord
           new   == WordOf(c)
           k     == WordOf(e)
           ahead == new - cur
           clear == IF ahead < BITMAP_WORDS THEN ahead ELSE BITMAP_WORDS
           stale == {(cur + i) % BITMAP_WORDS : i \in 1 .. clear}
<1>1. /\ c \in Nat /\ e \in Nat /\ next \in Nat
      /\ bitmap \in [Slots -> SUBSET Bits]
  BY DEF Counters, IInv, TypeOK
<1>2. /\ new \in Nat /\ k \in Nat /\ SlotOf(e) \in Slots
  BY <1>1, WordFacts
<1>3. cur \in Nat /\ cur <= new
  <2>1. CASE next = 0  BY <2>1, <1>2 DEF CurrentWord
  <2>2. CASE next # 0
    <3>1. next - 1 \in Nat /\ next - 1 <= c  BY <2>2, <1>1
    <3>2. cur = WordOf(next - 1)  BY <2>2 DEF CurrentWord
    <3> QED  BY <3>1, <3>2, <1>1, WordFacts, DivMonotone, WindowAssumption
             DEF WordOf
  <2> QED  BY <2>1, <2>2
<1>4. Advance(c) = [s \in Slots |-> IF s \in stale THEN {} ELSE bitmap[s]]
  BY DEF Advance
<1>5. Advance(c) \in [Slots -> SUBSET Bits]
  BY <1>1, <1>4
<1>6. BITMAP_WORDS \in Nat \ {0} /\ clear \in Nat
  BY <1>2, <1>3, WindowAssumption
<1>7. CASE k <= cur
  <2>1. SlotOf(e) \notin stale
    <3>1. SUFFICES ASSUME NEW i \in 1 .. clear,
                          (cur + i) % BITMAP_WORDS = k % BITMAP_WORDS
                   PROVE  FALSE
      BY DEF SlotOf
    <3>2. /\ cur + i \in Nat /\ cur + i > k
          /\ (cur + i) - k < BITMAP_WORDS /\ k - (cur + i) < BITMAP_WORDS
      <4> HIDE DEF new, k, cur
      <4> QED  BY <1>2, <1>3, <1>6, <1>7, <3>1 DEF new, k
    <3>3. cur + i = k  BY <3>1, <3>2, <1>2, <1>6, ModInjective
    <3> QED  BY <3>2, <3>3, <1>2, <1>3
  <2>2. Advance(c)[SlotOf(e)] = bitmap[SlotOf(e)]
    BY <2>1, <1>2, <1>4
  <2>3. InRing(e)  BY <1>2, <1>3, <1>7, WindowAssumption DEF InRing
  <2> QED  BY <1>5, <2>2, <2>3 DEF IInv
<1>8. CASE k > cur
  <2>1. SlotOf(e) \in stale
    <3>1. CASE ahead < BITMAP_WORDS
      <4>1. k - cur \in 1 .. clear /\ cur + (k - cur) = k
        <5> HIDE DEF cur, k, new
        <5> QED  BY <1>2, <1>3, <1>8, <3>1 DEF k, new
      <4> QED  BY <4>1 DEF SlotOf
    <3>2. CASE ~ (ahead < BITMAP_WORDS)
      <4>1. clear = BITMAP_WORDS  BY <3>2
      <4>2. PICK i \in 1 .. BITMAP_WORDS :
                    (cur + i) % BITMAP_WORDS = SlotOf(e)
        BY <1>2, <1>3, <1>6, ModSurjective DEF Slots
      <4> QED  BY <4>1, <4>2
    <3> QED  BY <3>1, <3>2
  <2>2. Advance(c)[SlotOf(e)] = {}  BY <2>1, <1>2, <1>4
  <2>3. e >= next
    <3>1. SUFFICES ASSUME e < next PROVE FALSE  BY <1>1
    <3>2. /\ next - 1 \in Nat /\ e <= next - 1 /\ next # 0
      BY <1>1, <3>1
    <3>3. cur = WordOf(next - 1)  BY <3>2 DEF CurrentWord
    <3>4. k <= cur
      BY <1>1, <3>2, <3>3, DivMonotone, WindowAssumption DEF WordOf
    <3> QED  BY <1>2, <1>3, <1>8, <3>4
  <2>4. accepts[e] = 0  BY <2>3 DEF IInv
  <2> QED  BY <1>5, <2>2, <2>4
<1> QED  BY <1>2, <1>3, <1>7, <1>8
-----------------------------------------------------------------------------
LEMMA InitInv == Init => IInv
<1> SUFFICES ASSUME Init PROVE IInv  OBVIOUS
<1>1. TypeOK
  BY DEF Init, TypeOK, Idle
<1>2. \A c \in Counters : accepts[c] = 0 /\ accepts[c] # 1
  BY DEF Init, Counters
<1>3. AcceptedOnce  BY <1>2 DEF AcceptedOnce
<1>4. \A c \in Counters : BitOf(c) \notin bitmap[SlotOf(c)]
  BY WordFacts DEF Init, Counters
<1> QED  BY <1>1, <1>2, <1>3, <1>4 DEF IInv

(* Recording an authenticated counter keeps the ring exact.                *)
LEMMA CheckReplayInv ==
    ASSUME IInv, NEW t \in Threads, CheckReplay(t)
    PROVE  IInv'
<1> DEFINE c == opening[t]   ring == Ring(c)
<1> USE DEF Idle
<1>1. /\ next \in Nat /\ bitmap \in [Slots -> SUBSET Bits]
      /\ opening \in [Threads -> Counters \cup {Idle}]
      /\ accepts \in [Counters -> Nat]
      /\ c \in Counters /\ c \in Nat
  BY DEF IInv, TypeOK, CheckReplay, Counters
<1>2. opening' \in [Threads -> Counters \cup {Idle}]
  BY <1>1 DEF CheckReplay
<1>3. CASE TooOldOrInvalid(c)
  <2>1. UNCHANGED <<next, bitmap, accepts>>  BY <1>3 DEF CheckReplay
  <2> QED  BY <1>2, <2>1
           DEF IInv, TypeOK, AcceptedOnce, InRing, CurrentWord
<1>4. CASE ~ TooOldOrInvalid(c)
  <2> DEFINE slot == SlotOf(c)   bit == BitOf(c)   seen == bit \in ring[slot]
  <2>1. /\ next' = Highest(c)
        /\ bitmap' = [ring EXCEPT ![slot] = @ \cup {bit}]
        /\ accepts' = IF seen THEN accepts
                      ELSE [accepts EXCEPT ![c] = @ + 1]
    BY <1>4 DEF CheckReplay
  <2>2. /\ slot \in Slots /\ bit \in Bits  BY <1>1, WordFacts
  <2>3. next' \in Nat /\ next' > c /\ next' >= next
    BY <1>1, <2>1 DEF Highest
  (* The ring that the counter is looked up in already agrees with the     *)
  (* history for every word of the new window.                             *)
  <2>4. /\ ring \in [Slots -> SUBSET Bits]
        /\ CurrentWord' \in Nat
        /\ WordOf(c) <= CurrentWord'
        /\ CurrentWord' < WordOf(c) + BITMAP_WORDS
        /\ \A e \in Counters :
              /\ WordOf(e) <= CurrentWord'
              /\ CurrentWord' < WordOf(e) + BITMAP_WORDS
              => (BitOf(e) \in ring[SlotOf(e)] <=> accepts[e] = 1)
    <3>1. CASE c + 1 > next
      <4>1. ring = Advance(c)  BY <3>1 DEF Ring
      <4>2. next' = c + 1  BY <2>1, <3>1 DEF Highest
      <4>3. CurrentWord' = WordOf(c)  BY <1>1, <4>2 DEF CurrentWord
      <4>4. WordOf(c) \in Nat  BY <1>1, WordFacts
      <4>5. ring \in [Slots -> SUBSET Bits]
        BY <1>1, <3>1, <4>1, <4>4, AdvanceExact, WindowAssumption
      <4> QED  BY <1>1, <3>1, <4>1, <4>3, <4>4, <4>5, AdvanceExact,
                  WindowAssumption
    <3>2. CASE ~ (c + 1 > next)
      <4>1. ring = bitmap  BY <3>2 DEF Ring
      <4>2. next' = next  BY <2>1, <3>2 DEF Highest
      <4>3. CurrentWord' = CurrentWord  BY <4>2 DEF CurrentWord
      <4>4. InRing(c)  BY <1>1, <1>4, <3>2, YoungInRing
      <4>5. CurrentWord \in Nat
        BY <1>1, <3>2, WordFacts DEF CurrentWord
      <4> QED  BY <1>1, <4>1, <4>3, <4>4, <4>5 DEF InRing, IInv
    <3> QED  BY <3>1, <3>2
  <2>5. bitmap' \in [Slots -> SUBSET Bits]
    BY <2>1, <2>2, <2>4
  <2>6. seen <=> accepts[c] = 1
    BY <1>1, <2>4
  <2>7. /\ accepts' \in [Counters -> Nat]
        /\ accepts'[c] = 1
        /\ \A e \in Counters \ {c} : accepts'[e] = accepts[e]
    <3>1. accepts[c] = 0 \/ accepts[c] = 1
      BY <1>1 DEF IInv, AcceptedOnce
    <3>2. CASE seen  BY <1>1, <2>1, <2>6, <3>2
    <3>3. CASE ~ seen
      <4>1. accepts[c] = 0  BY <2>6, <3>1, <3>3
      <4>2. accepts' = [accepts EXCEPT ![c] = @ + 1]  BY <2>1, <3>3
      <4> QED  BY <1>1, <4>1, <4>2
    <3> QED  BY <3>2, <3>3
  <2>8. AcceptedOnce'
    BY <2>7 DEF IInv, AcceptedOnce
  <2>9. \A e \in Counters : e >= next' => accepts'[e] = 0
    BY <1>1, <2>3, <2>7 DEF IInv, Counters
  <2>10. ASSUME NEW e \in Counters, InRing(e)'
         PROVE  BitOf(e) \in bitmap'[SlotOf(e)] <=> accepts'[e] = 1
    <3>1. /\ WordOf(e) <= CurrentWord'
          /\ CurrentWord' < WordOf(e) + BITMAP_WORDS
      BY <2>10 DEF InRing, WordOf
    <3>2. BitOf(e) \in ring[SlotOf(e)] <=> accepts[e] = 1
      BY <2>4, <3>1
    <3>3. e \in Nat /\ SlotOf(e) \in Slots  BY WordFacts DEF Counters
    <3>4. CASE e = c
      BY <2>1, <2>2, <2>4, <2>7, <3>4
    <3>5. CASE e # c
      <4>1. ~ (SlotOf(e) = slot /\ BitOf(e) = bit)
        <5>1. /\ WordOf(c) \in Nat /\ WordOf(e) \in Nat
          BY <1>1, <3>3, WordFacts
        <5>2. /\ WordOf(c) - WordOf(e) < BITMAP_WORDS
              /\ WordOf(e) - WordOf(c) < BITMAP_WORDS
          BY <2>4, <3>1, <5>1, WindowAssumption
        <5> QED  BY <1>1, <3>3, <3>5, <5>2, CellInjective
      <4>2. BitOf(e) \in bitmap'[SlotOf(e)] <=>
                BitOf(e) \in ring[SlotOf(e)]
        BY <2>1, <2>2, <2>4, <3>3, <4>1
      <4> QED  BY <2>7, <3>2, <3>5, <4>2
    <3> QED  BY <3>4, <3>5
  <2>11. TypeOK'  BY <1>2, <2>3, <2>5, <2>7 DEF TypeOK
  <2>12. IInv' <=>
           /\ TypeOK' /\ AcceptedOnce'
           /\ \A e \in Counters : e >= next' => accepts'[e] = 0
           /\ \A e \in Counters : InRing(e)' =>
                 (BitOf(e) \in bitmap'[SlotOf(e)] <=> accepts'[e] = 1)
    BY DEF IInv, BitOf, SlotOf, WordOf, Counters
  <2> QED  BY <2>8, <2>9, <2>10, <2>11, <2>12
<1> QED  BY <1>3, <1>4

LEMMA NextInv == IInv /\ [Next]_vars => IInv'
<1> SUFFICES ASSUME IInv, [Next]_vars PROVE IInv'  OBVIOUS
<1>1. ASSUME UNCHANGED <<next, bitmap, accepts>>,
             opening' \in [Threads -> Counters \cup {Idle}]
      PROVE  IInv'
  BY <1>1 DEF IInv, TypeOK, AcceptedOnce, InRing, CurrentWord
<1>2. CASE UNCHANGED vars
  BY <1>1, <1>2 DEF vars, IInv, TypeOK
<1>3. ASSUME NEW t \in Threads, NEW c \in Counters, Receive(t, c)
      PROVE  IInv'
  BY <1>1, <1>3 DEF Receive, IInv, TypeOK
<1>4. ASSUME NEW t \in Threads, OpenFails(t) PROVE IInv'
  BY <1>1, <1>4 DEF OpenFails, IInv, TypeOK
<1>5. ASSUME NEW t \in Threads, CheckReplay(t) PROVE IInv'
  BY <1>5, CheckReplayInv
<1> QED  BY <1>2, <1>3, <1>4, <1>5 DEF Next

LEMMA InvExact == IInv => WindowExact
<1> SUFFICES ASSUME IInv, NEW c \in Counters, ~ TooOldOrInvalid(c)
             PROVE  IsReplay(c) <=> accepts[c] > 0
  BY DEF WindowExact
<1>1. /\ c \in Nat /\ next \in Nat /\ accepts[c] \in Nat /\ accepts[c] <= 1
  BY DEF IInv, TypeOK, Counters, AcceptedOnce
<1>2. CASE c < next
  <2>1. InRing(c)  BY <1>1, <1>2, YoungInRing
  <2>2. BitOf(c) \in bitmap[SlotOf(c)] <=> accepts[c] = 1
    BY <2>1 DEF IInv
  <2> QED  BY <1>1, <1>2, <2>2 DEF IsReplay
<1>3. CASE ~ (c < next)
  <2>1. accepts[c] = 0  BY <1>1, <1>3 DEF IInv
  <2> QED  BY <1>3, <2>1 DEF IsReplay
<1> QED  BY <1>2, <1>3

LEMMA SpecInv == Spec => []IInv
  BY InitInv, NextInv, PTL DEF Spec

(* The filter's state is always well formed: every set bit is a bit of its *)
(* word, whatever counters authenticated packets carry.                    *)
THEOREM TypeCorrect == Spec => []TypeOK
<1>1. IInv => TypeOK  BY DEF IInv
<1> QED  BY <1>1, SpecInv, PTL

(* No counter is delivered twice by check_replay, for any window size and  *)
(* any number of threads decrypting at once.                               *)
THEOREM NoReplay == Spec => []AcceptedOnce
<1>1. IInv => AcceptedOnce  BY DEF IInv
<1> QED  BY <1>1, SpecInv, PTL

(* In the window is_replay refuses exactly the counters already accepted.  *)
THEOREM FilterExact == Spec => []WindowExact
  BY InvExact, SpecInv, PTL

(* A counter that is_replay refuses as too old is refused ever after.      *)
THEOREM OldNeverReturns == Spec => OldStaysOld
<1>1. IInv /\ [Next]_vars =>
        \A c \in Counters : TooOldOrInvalid(c) => TooOldOrInvalid(c)'
  <2> SUFFICES ASSUME IInv, [Next]_vars,
                      NEW c \in Counters, TooOldOrInvalid(c)
               PROVE  TooOldOrInvalid(c)'
    OBVIOUS
  <2>1. next \in Nat /\ c \in Nat /\ WINDOW \in Int
    BY WindowAssumption DEF IInv, TypeOK, Counters, WINDOW
  <2>2. next' \in Nat /\ next' >= next
    <3>1. ASSUME NEW t \in Threads, CheckReplay(t)
          PROVE  next' \in Nat /\ next' >= next
      <4>1. opening[t] \in Nat
        BY <3>1 DEF CheckReplay, IInv, TypeOK, Counters, Idle
      <4> QED  BY <2>1, <3>1, <4>1 DEF CheckReplay, Highest
    <3> QED  BY <2>1, <3>1 DEF Next, vars, Receive, OpenFails
  <2> QED  BY <2>1, <2>2 DEF TooOldOrInvalid, WINDOW
<1> QED  BY <1>1, SpecInv, PTL DEF Spec, OldStaysOld
=============================================================================
