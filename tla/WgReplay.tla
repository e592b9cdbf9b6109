------------------------------ MODULE WgReplay ------------------------------
(***************************************************************************)
(* The replay filter of one WireGuard keypair (src/src/wg/replay.rs) and   *)
(* the receive path that consults it (process_data_packet in               *)
(* src/src/wg/transport.rs).                                               *)
(*                                                                         *)
(* The filter is a ring of BITMAP_WORDS words of WORD_BITS bits.  A thread *)
(* that receives a packet asks is_replay, decrypts with no lock held, and  *)
(* only then asks check_replay, which records the counter.  Several        *)
(* threads do this at once, so between the two questions any number of     *)
(* other packets, copies of this one included, may have moved the window.  *)
(* A word is modelled by the set of its bits that are set.                 *)
(***************************************************************************)
EXTENDS Integers

CONSTANTS
    WORD_BITS,              \* bits of a bitmap word (64)
    BITMAP_WORDS,           \* words of the ring (WINDOW_SIZE / 64)
    REJECT_AFTER_MESSAGES,  \* counters from here on are refused
    MAX_COUNTER,            \* largest counter a packet header can carry
    Threads                 \* threads receiving on this keypair

ASSUME WindowAssumption ==
    /\ WORD_BITS \in Nat \ {0}
    /\ BITMAP_WORDS \in Nat \ {0}
    /\ REJECT_AFTER_MESSAGES \in Nat
    /\ MAX_COUNTER \in Nat

VARIABLES
    next,       \* one past the highest counter accepted; 0 before the first
    bitmap,     \* the ring of words
    opening,    \* per thread, the counter of the packet it is decrypting
    accepts     \* history: how often each counter has been accepted

vars == <<next, bitmap, opening, accepts>>

Counters == 0 .. MAX_COUNTER
Idle     == -1
Bits     == 0 .. WORD_BITS - 1
Slots    == 0 .. BITMAP_WORDS - 1

(* Mutant of WINDOW: as long as the bitmap, not sparing the word being     *)
(* filled.                                                                 *)
WindowOfWholeBitmap == BITMAP_WORDS * WORD_BITS

(* How far behind the highest counter a packet may be and still be taken.  *)
WINDOW == (BITMAP_WORDS - 1) * WORD_BITS

WordOf(counter) == counter \div WORD_BITS
SlotOf(counter) == WordOf(counter) % BITMAP_WORDS

BitOf(counter) == counter % WORD_BITS

TooOldOrInvalid(counter) ==
    \/ counter >= REJECT_AFTER_MESSAGES
    \/ counter + 1 + WINDOW < next

IsReplay(counter) ==
    \/ TooOldOrInvalid(counter)
    \/ counter < next /\ BitOf(counter) \in bitmap[SlotOf(counter)]

(* The word that holds the highest counter; word 0 before the first.       *)
CurrentWord == IF next = 0 THEN 0 ELSE WordOf(next - 1)

(* Mutant of Advance: clears one word too few.                             *)
AdvanceOneShort(counter) ==
    LET ahead == WordOf(counter) - CurrentWord
        clear == IF ahead < BITMAP_WORDS THEN ahead ELSE BITMAP_WORDS
        stale == {(CurrentWord + i) % BITMAP_WORDS : i \in 1 .. clear - 1}
    IN  [s \in Slots |-> IF s \in stale THEN {} ELSE bitmap[s]]

(* The ring once the words after the current one, up to the one that       *)
(* holds counter, are cleared: they still hold the previous lap.           *)
Advance(counter) ==
    LET ahead == WordOf(counter) - CurrentWord
        clear == IF ahead < BITMAP_WORDS THEN ahead ELSE BITMAP_WORDS
        stale == {(CurrentWord + i) % BITMAP_WORDS : i \in 1 .. clear}
    IN  [s \in Slots |-> IF s \in stale THEN {} ELSE bitmap[s]]

(* Mutant of Highest: the counter is taken without comparing.              *)
HighestUnguarded(counter) == counter + 1

(* One past the highest counter once counter is recorded.                  *)
Highest(counter) == IF counter + 1 > next THEN counter + 1 ELSE next

(* The ring check_replay looks the counter up in.                          *)
Ring(counter) == IF counter + 1 > next THEN Advance(counter) ELSE bitmap

-----------------------------------------------------------------------------
Init ==
    /\ next = 0
    /\ bitmap = [s \in Slots |-> {}]
    /\ opening = [t \in Threads |-> Idle]
    /\ accepts = [c \in Counters |-> 0]

(* A packet arrives and passes is_replay; the thread starts to decrypt it. *)
(* One that does not pass is dropped and changes nothing.                  *)
Receive(t, counter) ==
    /\ opening[t] = Idle
    /\ ~ IsReplay(counter)
    /\ opening' = [opening EXCEPT ![t] = counter]
    /\ UNCHANGED <<next, bitmap, accepts>>

(* The packet fails authentication and is dropped; the filter must not     *)
(* have heard of it.                                                       *)
OpenFails(t) ==
    /\ opening[t] # Idle
    /\ opening' = [opening EXCEPT ![t] = Idle]
    /\ UNCHANGED <<next, bitmap, accepts>>

(* The packet authenticates and check_replay decides, under the filter's   *)
(* lock: refused with nothing changed, or recorded, and then accepted      *)
(* unless its bit was already set.                                         *)
CheckReplay(t) ==
    LET counter == opening[t]
        ring    == Ring(counter)
        slot    == SlotOf(counter)
        seen    == BitOf(counter) \in ring[slot]
    IN  /\ counter # Idle
        /\ opening' = [opening EXCEPT ![t] = Idle]
        /\ IF TooOldOrInvalid(counter)
           THEN UNCHANGED <<next, bitmap, accepts>>
           ELSE /\ next' = Highest(counter)
                /\ bitmap' = [ring EXCEPT ![slot] = @ \cup {BitOf(counter)}]
                /\ accepts' = IF seen THEN accepts
                              ELSE [accepts EXCEPT ![counter] = @ + 1]

Next ==
    \E t \in Threads :
        \/ \E counter \in Counters : Receive(t, counter)
        \/ OpenFails(t)
        \/ CheckReplay(t)

Spec == Init /\ [][Next]_vars

-----------------------------------------------------------------------------
TypeOK ==
    /\ next \in Nat
    /\ bitmap \in [Slots -> SUBSET Bits]
    /\ opening \in [Threads -> Counters \cup {Idle}]
    /\ accepts \in [Counters -> Nat]

(* Each counter is accepted at most once, whatever the threads interleave: *)
(* two copies of one packet decrypted at once, or one overtaken by a jump  *)
(* of the window while it was being decrypted.                             *)
AcceptedOnce == \A c \in Counters : accepts[c] <= 1

(* Inside the window the filter is exact, not only safe: is_replay refuses *)
(* a valid counter exactly when it has been accepted.  A word not cleared  *)
(* on the lap, or cleared one too far, makes it drop genuine packets.      *)
WindowExact ==
    \A c \in Counters :
        ~ TooOldOrInvalid(c) => (IsReplay(c) <=> accepts[c] > 0)

(* The window never moves back, and a counter refused as too old stays     *)
(* refused: is_replay's early refusal can be trusted.                      *)
OldStaysOld ==
    [][\A c \in Counters : TooOldOrInvalid(c) => TooOldOrInvalid(c)']_vars

=============================================================================
