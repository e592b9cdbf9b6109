-------------------------- MODULE WgAdapterProofs ---------------------------
(***************************************************************************)
(* Proofs about the WireGuard adapter and its server's timers, for any     *)
(* number of readers and any limits: what a thread that runs a callback,   *)
(* a removal or a poll leaves to the others.                               *)
(***************************************************************************)
EXTENDS WgAdapter, TLAPS, FiniteSetTheorems

(* A thread's record has its seven fields.                                 *)
Shaped(x) == x = [at |-> x.at, due |-> x.due, keepalive |-> x.keepalive,
                  own |-> x.own, out |-> x.out, held |-> x.held, sees |-> x.sees]

Shape == /\ thread = [th \in Threads |-> thread[th]]
         /\ \A th \in Threads : Shaped(thread[th])

OwnerAt == thread[Operator].at
Owns    == thread[Operator].own

(* Who has a device in hand that is not in the table, or not any more.     *)
InHand == {th \in Threads : thread[th].at \in {"wiring", "unwired"}}
            \cup {th \in {Operator} : thread[th].own}

(* Only readers wire, and the owner has a device in hand only right after  *)
(* it took one out of the table.                                           *)
HandsInv ==
    /\ \A th \in Threads \ Readers : thread[th].at \notin {"wiring", "unwired"}
    /\ Owns => OwnerAt \in {"idle", "forget", "clear"}

(* A device of a peer that is gone, or of an adapter that is closed, is    *)
(* still ahead of the owner that will take it out.                         *)
FateInv ==
    /\ allowed # None
    /\ dev # None /\ ~Known => OwnerAt \in {"sweep", "hookServer", "hookAdapter"}
    /\ dev # None /\ closed => OwnerAt = "join"

CountInv ==
    /\ IsFiniteSet(InHand) /\ open \in Int
    /\ open = Cardinality(InHand) + (IF dev = None THEN 0 ELSE 1)

DeviceInv == Shape /\ HandsInv /\ FateInv /\ CountInv

(* A record of PeerTimers has its seven fields.                            *)
Timing(t) == t = [trying |-> t.trying, attempts |-> t.attempts,
                  initiated |-> t.initiated, want |-> t.want,
                  keepalive |-> t.keepalive, reply |-> t.reply, sent |-> t.sent]

(* An initiation decided on in this interval started the interval anew.    *)
ClaimInv ==
    /\ Timing(timers)
    /\ recent \in {0, 1}
    /\ recent = 1 => timers.initiated = 0

-----------------------------------------------------------------------------
(* Steps of a thread.                                                      *)

ThreadFacts ==
    /\ Operator \in Threads \ Readers /\ Maint \in Threads \ Readers
    /\ App \in Threads \ Readers /\ Readers \subseteq Threads
    /\ Operator # Maint /\ Operator # App

LEMMA ThreadsApart == ThreadFacts
  BY ServerAssumption DEF ThreadFacts, Threads

(* Thread x goes on as rec, the others stay where they are.                *)
Becomes(x, rec) ==
    /\ Shape' /\ thread'[x] = rec
    /\ \A th \in Threads \ {x} : thread'[th] = thread[th]

LEMMA Replaced ==
    ASSUME Shape, NEW x \in Threads, NEW rec, Shaped(rec),
           thread' = [thread EXCEPT ![x] = rec]
    PROVE  Becomes(x, rec)
  BY DEF Shape, Becomes

LEMMA GoesBecomes ==
    ASSUME Shape, NEW x \in Threads, NEW place, Goes(x, place)
    PROVE  \E rec : /\ Becomes(x, rec) /\ rec.at = place
                    /\ rec.own = thread[x].own
<1> DEFINE rec == [thread[x] EXCEPT !.at = place]
<1>1. Shaped(thread[x])  BY DEF Shape
<1>2. Shaped(rec) /\ rec.at = place /\ rec.own = thread[x].own
  BY <1>1 DEF Shaped
<1> HIDE DEF rec
<1>3. thread' = [thread EXCEPT ![x] = rec]  BY DEF Goes, rec
<1> QED  BY <1>2, <1>3, Replaced

LEMMA IdleShape ==
    /\ Shaped(Idle) /\ Idle.at = "idle" /\ Idle.own = FALSE
    /\ \A x : Shaped(Loop(x)) /\ Loop(x).at \in {"idle", "gone"}
  BY DEF Idle, Loop, Shaped

LEMMA RestsBecomes ==
    ASSUME Shape, NEW x \in Threads, Rests(x)
    PROVE  \E rec : Becomes(x, rec) /\ rec.at \in {"idle", "gone"}
  BY IdleShape, Replaced DEF Rests

(* A step of the server: by a thread that wires nothing, and is not the    *)
(* owner, or by none.                                                      *)
Aside ==
    /\ UNCHANGED <<peer, adapterVars>>
    /\ \/ UNCHANGED thread
       \/ \E x \in Threads \ {Operator} : \E rec :
            /\ Becomes(x, rec)
            /\ thread[x].at \notin {"wiring", "unwired"}
            /\ rec.at \notin {"wiring", "unwired"}

LEMMA AsideGoes ==
    ASSUME Shape, UNCHANGED <<peer, adapterVars>>,
           NEW x \in Threads \ {Operator}, NEW place,
           thread[x].at \notin {"wiring", "unwired"},
           place \notin {"wiring", "unwired"}, Goes(x, place)
    PROVE  Aside
  BY GoesBecomes DEF Aside

LEMMA AsideRests ==
    ASSUME Shape, UNCHANGED <<peer, adapterVars>>,
           NEW x \in Threads \ {Operator},
           thread[x].at \notin {"wiring", "unwired"}, Rests(x)
    PROVE  Aside
<1>1. PICK rec : Becomes(x, rec) /\ rec.at \in {"idle", "gone"}
  BY RestsBecomes
<1> QED  BY <1>1 DEF Aside

LEMMA AsideReplaced ==
    ASSUME Shape, UNCHANGED <<peer, adapterVars>>,
           NEW x \in Threads \ {Operator}, NEW rec, Shaped(rec),
           thread[x].at \notin {"wiring", "unwired"},
           rec.at \notin {"wiring", "unwired"},
           thread' = [thread EXCEPT ![x] = rec]
    PROVE  Aside
  BY Replaced DEF Aside

LEMMA TimedAside ==
    ASSUME Shape, NEW th \in Timed, Runs(th)
    PROVE  Aside
<1> USE ThreadsApart
<1>a. th \in Threads \ {Operator}  BY DEF ThreadFacts, Timed
<1>b. Shaped(thread[th])  BY <1>a DEF Shape
<1>c. UNCHANGED adapterVars  BY DEF Runs
<1>1. ASSUME PruneStaged(th) PROVE Aside
  BY <1>a, <1>c, <1>1, AsideGoes DEF PruneStaged, At, handlerVars
<1>2. ASSUME DropStaged(th) PROVE Aside
  BY <1>a, <1>c, <1>2, AsideGoes DEF DropStaged, At, handlerVars
<1>3. ASSUME Poll(th) PROVE Aside
  <2>1. peer' = peer /\ thread[th].at = "poll"  BY <1>3 DEF Poll, At
  <2>2. ASSUME Rests(th) PROVE Aside
    BY <1>a, <1>c, <2>1, <2>2, AsideRests
  <2>3. ASSUME NEW due, NEW k,
               thread' = [thread EXCEPT ![th] =
                    IF due = "no" /\ ~k THEN Idle
                    ELSE [Idle EXCEPT !.at = IF due = "yes" THEN "build" ELSE "keepalive",
                                      !.due = due, !.keepalive = k]]
        PROVE  Aside
    <3> DEFINE rec == IF due = "no" /\ ~k THEN Idle
                ELSE [Idle EXCEPT !.at = IF due = "yes" THEN "build" ELSE "keepalive",
                                  !.due = due, !.keepalive = k]
    <3>1. Shaped(rec) /\ rec.at \notin {"wiring", "unwired"}
      BY DEF Shaped, Idle
    <3> HIDE DEF rec
    <3>2. thread' = [thread EXCEPT ![th] = rec]  BY <2>3 DEF rec
    <3> QED  BY <1>a, <1>c, <2>1, <3>1, <3>2, AsideReplaced
  <2> QED  BY <1>3, <2>2, <2>3 DEF Poll
<1>4. ASSUME BuildInitiation(th) PROVE Aside
  <2> DEFINE x == thread[th]
             rec == IF Authorized THEN [x EXCEPT !.at = "insert"]
                    ELSE IF x.own THEN Idle
                    ELSE [x EXCEPT !.at = "keepalive", !.due = "failed"]
  <2>1. Shaped(rec) /\ rec.at \notin {"wiring", "unwired"}
    BY <1>b DEF Shaped, Idle
  <2>2. thread' = [thread EXCEPT ![th] = rec]  BY <1>4 DEF BuildInitiation
  <2>3. peer' = peer /\ thread[th].at = "build"
    BY <1>4 DEF BuildInitiation, At, handlerVars
  <2> HIDE DEF rec
  <2> QED  BY <1>a, <1>c, <2>1, <2>2, <2>3, AsideReplaced
<1>5. ASSUME InsertInitiation(th) PROVE Aside
  <2> DEFINE x == thread[th]
  <2>1. PICK rec : rec = [x EXCEPT !.at = "keepalive", !.out = @ \cup {"init"}]
    OBVIOUS
  <2>2. Shaped(rec) /\ rec.at = "keepalive"  BY <1>b, <2>1 DEF Shaped
  <2>3. thread' = [thread EXCEPT ![th] = rec]
    <3>1. thread'[th] = rec  BY <1>a, <1>5, <2>1 DEF InsertInitiation, Shape
    <3>2. \A u \in Threads \ {th} : thread'[u] = thread[u]
      BY <1>5 DEF InsertInitiation, Shape
    <3>3. thread' = [u \in Threads |-> thread'[u]]
      BY <1>5 DEF InsertInitiation, Shape
    <3> QED  BY <3>1, <3>2, <3>3 DEF Shape
  <2>4. peer' = peer /\ thread[th].at = "insert"
    BY <1>5 DEF InsertInitiation, At, handlerVars
  <2> QED  BY <1>a, <1>c, <2>2, <2>3, <2>4, AsideReplaced
<1>6. ASSUME PollKeepalive(th) PROVE Aside
  <2> DEFINE x == thread[th]
  <2>1. PICK rec : rec = [x EXCEPT !.at = "act",
                            !.out = IF x.keepalive /\ HasSession
                                    THEN @ \cup {"keepalive"} ELSE @]
    OBVIOUS
  <2>2. Shaped(rec) /\ rec.at = "act"  BY <1>b, <2>1 DEF Shaped
  <2>3. thread' = [thread EXCEPT ![th] = rec]
    <3>1. thread'[th] = rec  BY <1>a, <1>6, <2>1 DEF PollKeepalive, Shape
    <3>2. \A u \in Threads \ {th} : thread'[u] = thread[u]
      BY <1>6 DEF PollKeepalive, Shape
    <3>3. thread' = [u \in Threads |-> thread'[u]]
      BY <1>6 DEF PollKeepalive, Shape
    <3> QED  BY <3>1, <3>2, <3>3 DEF Shape
  <2>4. peer' = peer /\ thread[th].at = "keepalive"
    BY <1>6 DEF PollKeepalive, At, handlerVars
  <2> QED  BY <1>a, <1>c, <2>2, <2>3, <2>4, AsideReplaced
<1>7. ASSUME Act(th) PROVE Aside
  BY <1>a, <1>c, <1>7, AsideRests DEF Act, At, handlerVars
<1> QED
  BY <1>1, <1>2, <1>3, <1>4, <1>5, <1>6, <1>7 DEF Runs, ThreadStep

LEMMA ReaderAside ==
    ASSUME Shape, NEW r \in Readers, UNCHANGED adapterVars,
           ReaderStep(r) \/ Arrival(r)
    PROVE  Aside
<1>a. r \in Threads \ {Operator}  BY ThreadsApart DEF ThreadFacts
<1>b. Shaped(thread[r])  BY <1>a DEF Shape
<1>r. ASSUME peer' = peer, thread[r].at \notin {"wiring", "unwired"}, Rests(r)
      PROVE  Aside
  BY <1>a, <1>r, AsideRests
<1>g. ASSUME NEW place, peer' = peer, thread[r].at \notin {"wiring", "unwired"},
             place \notin {"wiring", "unwired"}, Goes(r, place)
      PROVE  Aside
  BY <1>a, <1>g, AsideGoes
<1>o. ASSUME NEW out, peer' = peer, thread[r].at \notin {"wiring", "unwired"},
             thread' = [thread EXCEPT ![r].at = "dispatch", ![r].out = out]
      PROVE  Aside
  <2>1. PICK rec : rec = [thread[r] EXCEPT !.at = "dispatch", !.out = out]
    OBVIOUS
  <2>2. Shaped(rec) /\ rec.at = "dispatch"  BY <1>b, <2>1 DEF Shaped
  <2>3. thread' = [thread EXCEPT ![r] = rec]
    <3>1. thread'[r] = rec  BY <1>a, <1>o, <2>1 DEF Shape
    <3>2. \A u \in Threads \ {r} : thread'[u] = thread[u]  BY <1>o DEF Shape
    <3>3. thread' = [u \in Threads |-> thread'[u]]  BY <1>o DEF Shape
    <3> QED  BY <3>1, <3>2, <3>3 DEF Shape
  <2> QED  BY <1>a, <1>o, <2>2, <2>3, AsideReplaced
<1>1. ASSUME ReceiveResponse(r) PROVE Aside
  <2>1. peer' = peer /\ thread[r].at = "idle"
    BY <1>1 DEF ReceiveResponse, Receives, At
  <2> QED  BY <1>1, <1>r, <1>g, <2>1 DEF ReceiveResponse
<1>2. ASSUME ReceiveInitiation(r) PROVE Aside
  <2>1. peer' = peer /\ thread[r].at = "idle"
    BY <1>2 DEF ReceiveInitiation, Receives, At
  <2> QED  BY <1>2, <1>r, <1>o, <2>1 DEF ReceiveInitiation
<1>3. ASSUME NEW packet \in {"data", "keepalive", "confirm"},
             ReceiveTransport(r, packet)
      PROVE  Aside
  <2>1. peer' = peer /\ thread[r].at = "idle"
    BY <1>3 DEF ReceiveTransport, Receives, At
  <2>2. CASE thread' = [thread EXCEPT ![r].at = "confirmed"]
    <3>1. Goes(r, "confirmed")  BY <2>2 DEF Goes
    <3> QED  BY <1>g, <2>1, <3>1
  <2> QED  BY <1>3, <1>r, <1>g, <2>1, <2>2 DEF ReceiveTransport
<1>4. ASSUME InstallInitiator(r) PROVE Aside
  <2>1. peer' = peer /\ thread[r].at = "install"
    BY <1>4 DEF InstallInitiator, At
  <2> QED  BY <1>4, <1>r, <1>o, <2>1 DEF InstallInitiator
<1>5. ASSUME NoteReceived(r) PROVE Aside
  <2>1. peer' = peer /\ thread[r].at \notin {"wiring", "unwired"}
    BY <1>5 DEF NoteReceived
  <2> QED  BY <1>5, <1>g, <2>1 DEF NoteReceived
<1>6. ASSUME Dispatch(r) PROVE Aside
  <2>1. peer' = peer /\ thread[r].at = "dispatch"
    BY <1>6 DEF Dispatch, At, handlerVars
  <2> QED  BY <1>6, <1>g, <2>1 DEF Dispatch
<1>7. ASSUME Flush(r) PROVE Aside
  <2>1. peer' = peer /\ thread[r].at = "flush"
    BY <1>7 DEF Flush, At, handlerVars
  <2> QED  BY <1>7, <1>r, <1>g, <2>1 DEF Flush
<1>8. ASSUME TakeStaged(r) PROVE Aside
  <2>1. peer' = peer /\ thread[r].at = "take"
    BY <1>8 DEF TakeStaged, At, handlerVars
  <2>2. CASE Rests(r)  BY <1>r, <2>1, <2>2
  <2>3. CASE thread' = [thread EXCEPT ![r] = [Idle EXCEPT !.at = "send", !.held = staged]]
    <3>1. PICK rec : rec = [Idle EXCEPT !.at = "send", !.held = staged]
      OBVIOUS
    <3>2. Shaped(rec) /\ rec.at = "send"  BY <3>1 DEF Shaped, Idle
    <3>3. thread' = [thread EXCEPT ![r] = rec]  BY <2>3, <3>1
    <3> QED  BY <1>a, <2>1, <3>2, <3>3, AsideReplaced
  <2> QED  BY <1>8, <2>2, <2>3 DEF TakeStaged, Rests
<1>9. ASSUME SendStaged(r) PROVE Aside
  <2>1. peer' = peer /\ thread[r].at = "send"
    BY <1>9 DEF SendStaged, At
  <2>2. CASE Rests(r)  BY <1>r, <2>1, <2>2
  <2>3. ASSUME NEW rest, thread' = [thread EXCEPT ![r] = [@ EXCEPT !.held = rest]]
        PROVE  Aside
    <3>1. PICK rec : rec = [thread[r] EXCEPT !.held = rest]  OBVIOUS
    <3>2. Shaped(rec) /\ rec.at = "send"  BY <1>b, <2>1, <3>1 DEF Shaped
    <3>3. thread' = [thread EXCEPT ![r] = rec]  BY <2>3, <3>1
    <3> QED  BY <1>a, <2>1, <3>2, <3>3, AsideReplaced
  <2>4. CASE HasSession
    <3>1. CASE Tail(thread[r].held) = <<>>
      BY <1>9, <2>2, <2>4, <3>1 DEF SendStaged, Rests
    <3>2. CASE Tail(thread[r].held) # <<>>
      BY <1>9, <2>3, <2>4, <3>2 DEF SendStaged
    <3> QED  BY <3>1, <3>2
  <2>5. CASE ~ HasSession  BY <1>9, <2>2, <2>5 DEF SendStaged
  <2> QED  BY <2>4, <2>5
<1> QED
  BY <1>1, <1>2, <1>3, <1>4, <1>5, <1>6, <1>7, <1>8, <1>9
  DEF ReaderStep, Arrival

LEMMA SendsAside ==
    ASSUME Shape, Sends
    PROVE  Aside
<1>a. App \in Threads \ {Operator}  BY ThreadsApart DEF ThreadFacts
<1>b. Shaped(thread[App])  BY <1>a DEF Shape
<1>c. UNCHANGED adapterVars  BY DEF Sends
<1>1. ASSUME Send PROVE Aside
  <2>1. peer' = peer /\ thread[App].at = "idle"  BY <1>1 DEF Send, At
  <2>2. CASE thread' = thread  BY <1>c, <2>1, <2>2 DEF Aside
  <2>3. ASSUME NEW held, thread' = [thread EXCEPT ![App].at = "unsent",
                                                  ![App].held = held]
        PROVE  Aside
    <3>1. PICK rec : rec = [thread[App] EXCEPT !.at = "unsent", !.held = held]
      OBVIOUS
    <3>2. Shaped(rec) /\ rec.at = "unsent"  BY <1>b, <3>1 DEF Shaped
    <3>3. thread' = [thread EXCEPT ![App] = rec]
      <4>1. thread'[App] = rec  BY <1>a, <2>3, <3>1 DEF Shape
      <4>2. \A u \in Threads \ {App} : thread'[u] = thread[u]  BY <2>3 DEF Shape
      <4>3. thread' = [u \in Threads |-> thread'[u]]  BY <2>3 DEF Shape
      <4> QED  BY <4>1, <4>2, <4>3 DEF Shape
    <3> QED  BY <1>a, <1>c, <2>1, <3>2, <3>3, AsideReplaced
  <2> QED  BY <1>1, <2>2, <2>3 DEF Send
<1>2. ASSUME Unsent PROVE Aside
  <2>1. peer' = peer /\ thread[App].at = "unsent"
    BY <1>2 DEF Unsent, At, handlerVars
  <2> QED  BY <1>2, <1>a, <1>c, <2>1, AsideGoes, AsideRests DEF Unsent
<1>3. ASSUME Stage \/ Connect PROVE Aside
  <2>1. peer' = peer /\ thread[App].at \in {"stage", "idle"}
    BY <1>3 DEF Stage, Connect, At, handlerVars
  <2>2. ASSUME NEW rec, \/ rec = [Idle EXCEPT !.at = "prune"]
                        \/ rec = [Idle EXCEPT !.at = "build", !.own = TRUE]
        PROVE  Shaped(rec) /\ rec.at \notin {"wiring", "unwired"}
    BY <2>2 DEF Shaped, Idle
  <2>3. ASSUME NEW rec, Shaped(rec), rec.at \notin {"wiring", "unwired"},
               thread' = [thread EXCEPT ![App] = rec]
        PROVE  Aside
    BY <1>a, <1>c, <2>1, <2>3, AsideReplaced
  <2> QED  BY <1>3, <2>2, <2>3 DEF Stage, Connect
<1> QED  BY <1>1, <1>2, <1>3 DEF Sends

(* What happens without the owner and without a callback is aside.         *)
LEMMA AsideSteps ==
    ASSUME Shape, [Next]_vars
    PROVE  \/ Aside
           \/ \E r \in Readers : PeerConnected(r) \/ Wire(r) \/ Unwired(r)
           \/ SetAllowedIps \/ AddPeer \/ Expire \/ RemovePeer \/ Close
           \/ Operates
<1>1. ASSUME NEW r \in Readers, Reads(r) \/ Takes(r)
      PROVE  Aside \/ PeerConnected(r) \/ Wire(r) \/ Unwired(r)
  BY <1>1, ReaderAside DEF Reads, Takes
<1>2. ASSUME Timer PROVE Aside
  <2>1. Maint \in Threads \ {Operator}  BY ThreadsApart DEF ThreadFacts
  <2>2. UNCHANGED <<peer, adapterVars>> /\ thread[Maint].at = "idle"
        /\ Goes(Maint, "prune")
    BY <1>2 DEF Timer, RunTimers, At, handlerVars
  <2> QED  BY <2>1, <2>2, AsideGoes
<1>3. ASSUME \/ Clock \/ Answer
             \/ (Age \/ Lose \/ PeerActs) /\ UNCHANGED adapterVars
             \/ UNCHANGED vars
      PROVE  Aside
  BY <1>3 DEF Aside, Clock, Answer, Tick, PeerTakes, Age, Lose, PeerActs, vars,
     serverVars, handlerVars
<1> QED
  BY <1>1, <1>2, <1>3, TimedAside, SendsAside DEF Next

-----------------------------------------------------------------------------
(* Devices.                                                                *)

InHandOf(th) == thread[th].at \in {"wiring", "unwired"} \/ (th = Operator /\ Owns)

LEMMA InHandIs ==
    /\ InHand = {th \in Threads : InHandOf(th)}
    /\ InHand' = {th \in Threads : InHandOf(th)'}
  BY ThreadsApart DEF InHand, InHandOf, Owns, ThreadFacts

(* How the devices in hand change, and with them the count.                *)
LEMMA HandSame ==
    ASSUME CountInv, \A th \in Threads : InHandOf(th)' <=> InHandOf(th),
           open' = open, (dev' = None) <=> (dev = None)
    PROVE  CountInv'
<1>1. InHand' = InHand  BY InHandIs
<1> QED  BY <1>1 DEF CountInv

LEMMA HandTakes ==
    ASSUME CountInv, NEW x \in Threads, ~ InHandOf(x), InHandOf(x)',
           \A th \in Threads \ {x} : InHandOf(th)' <=> InHandOf(th),
           \/ open' = open + 1 /\ dev = None /\ dev' = None
           \/ open' = open /\ dev # None /\ dev' = None
    PROVE  CountInv'
<1>1. InHand' = InHand \cup {x} /\ x \notin InHand  BY InHandIs
<1>2. IsFiniteSet(InHand') /\ Cardinality(InHand') = Cardinality(InHand) + 1
  BY <1>1, FS_AddElement DEF CountInv
<1>3. Cardinality(InHand) \in Nat  BY FS_CardinalityType DEF CountInv
<1> QED  BY <1>2, <1>3 DEF CountInv

LEMMA HandGives ==
    ASSUME CountInv, NEW x \in Threads, InHandOf(x), ~ InHandOf(x)',
           \A th \in Threads \ {x} : InHandOf(th)' <=> InHandOf(th),
           \/ open' = open - 1 /\ dev' = dev
           \/ open' = open /\ dev = None /\ dev' # None
    PROVE  CountInv'
<1>1. InHand' = InHand \ {x} /\ x \in InHand  BY InHandIs
<1>2. IsFiniteSet(InHand') /\ Cardinality(InHand') = Cardinality(InHand) - 1
  BY <1>1, FS_RemoveElement DEF CountInv
<1>3. Cardinality(InHand) \in Nat  BY FS_CardinalityType DEF CountInv
<1> QED  BY <1>2, <1>3 DEF CountInv

LEMMA AsideKeeps ==
    ASSUME DeviceInv, Aside
    PROVE  DeviceInv'
<1> USE ThreadsApart DEF ThreadFacts
<1>1. Shape' /\ thread'[Operator] = thread[Operator]
  BY DEF Aside, Becomes, DeviceInv, Shape
<1>2. \A th \in Threads : thread'[th].at \in {"wiring", "unwired"} <=>
                          thread[th].at \in {"wiring", "unwired"}
  BY DEF Aside, Becomes
<1>3. CountInv'
  BY <1>1, <1>2, HandSame DEF DeviceInv, Aside, adapterVars, InHandOf, Owns
<1> QED
  BY <1>1, <1>2, <1>3 DEF DeviceInv, HandsInv, FateInv, Aside, adapterVars,
     Owns, OwnerAt, Known

(* A reader's step: the owner stays where it is.                           *)
LEMMA ReaderMoves ==
    ASSUME DeviceInv, NEW r \in Readers, NEW rec, Becomes(r, rec)
    PROVE  /\ Shape' /\ HandsInv'
           /\ thread'[Operator] = thread[Operator]
           /\ InHandOf(r) <=> thread[r].at \in {"wiring", "unwired"}
           /\ InHandOf(r)' <=> rec.at \in {"wiring", "unwired"}
           /\ \A th \in Threads \ {r} : InHandOf(th)' <=> InHandOf(th)
  BY ThreadsApart
  DEF ThreadFacts, DeviceInv, Becomes, HandsInv, InHandOf, Owns, OwnerAt

LEMMA CallbackKeeps ==
    ASSUME DeviceInv, NEW r \in Readers, PeerConnected(r) \/ Wire(r) \/ Unwired(r)
    PROVE  DeviceInv'
<1>a. r \in Threads /\ r # Operator  BY ThreadsApart DEF ThreadFacts
<1>b. Shape /\ Shaped(thread[r])  BY <1>a DEF DeviceInv, Shape
<1>c. CountInv /\ FateInv /\ HandsInv  BY DEF DeviceInv
<1>d. ASSUME NEW place, NEW sees,
             thread' = [thread EXCEPT ![r].at = place, ![r].sees = sees]
      PROVE  \E rec : Becomes(r, rec) /\ rec.at = place
  <2>1. PICK rec : rec = [thread[r] EXCEPT !.at = place, !.sees = sees]
    OBVIOUS
  <2>2. Shaped(rec) /\ rec.at = place  BY <1>b, <2>1 DEF Shaped
  <2>3. thread' = [thread EXCEPT ![r] = rec]
    <3>1. thread'[r] = rec  BY <1>a, <1>b, <1>d, <2>1 DEF Shape
    <3>2. \A u \in Threads \ {r} : thread'[u] = thread[u]
      BY <1>b, <1>d DEF Shape
    <3>3. thread' = [u \in Threads |-> thread'[u]]  BY <1>b, <1>d DEF Shape
    <3> QED  BY <1>b, <3>1, <3>2, <3>3 DEF Shape
  <2> QED  BY <1>a, <1>b, <2>2, <2>3, Replaced
<1>1. ASSUME PeerConnected(r) PROVE DeviceInv'
  <2>1. /\ thread[r].at = "callback"
        /\ UNCHANGED <<peer, dev, allowed, closed>>
    BY <1>1 DEF PeerConnected, At, handlerVars
  <2>2. CASE Goes(r, "flush") /\ UNCHANGED open
    <3>1. PICK rec : Becomes(r, rec) /\ rec.at = "flush"
      BY <1>a, <1>b, <2>2, GoesBecomes
    <3>2. CountInv'  BY <1>c, <2>1, <2>2, <3>1, ReaderMoves, HandSame
    <3> QED
      BY <1>c, <2>1, <3>1, <3>2, ReaderMoves DEF DeviceInv, FateInv, OwnerAt, Known
  <2>3. CASE /\ dev = None /\ open' = open + 1
             /\ thread' = [thread EXCEPT ![r].at = "wiring", ![r].sees = <<allowed>>]
    <3>1. PICK rec : Becomes(r, rec) /\ rec.at = "wiring"  BY <1>d, <2>3
    <3>2. CountInv'  BY <1>a, <1>c, <2>1, <2>3, <3>1, ReaderMoves, HandTakes
    <3> QED
      BY <1>c, <2>1, <3>1, <3>2, ReaderMoves DEF DeviceInv, FateInv, OwnerAt, Known
  <2> QED  BY <1>1, <2>2, <2>3 DEF PeerConnected
<1>2. ASSUME Wire(r) PROVE DeviceInv'
  <2>1. /\ thread[r].at = "wiring"
        /\ UNCHANGED <<peer, allowed, closed, open>>
        /\ dev' = IF Keep THEN allowed ELSE dev
    BY <1>2 DEF Wire, At, handlerVars, Entry
  <2>2. PICK rec : Becomes(r, rec) /\ rec.at = IF Keep THEN "flush" ELSE "unwired"
    BY <1>2, <1>d DEF Wire
  <2>3. CASE Keep
    <3>1. dev = None /\ dev' # None /\ ~closed /\ Known
      BY <1>c, <2>1, <2>3 DEF Keep, FateInv, Authorized, Known
    <3>2. CountInv'  BY <1>a, <1>c, <2>1, <2>2, <2>3, <3>1, ReaderMoves, HandGives
    <3> QED
      BY <1>c, <2>1, <2>2, <3>1, <3>2, ReaderMoves DEF DeviceInv, FateInv, Known
  <2>4. CASE ~ Keep
    <3>1. CountInv'  BY <1>c, <2>1, <2>2, <2>4, ReaderMoves, HandSame
    <3> QED
      BY <1>c, <2>1, <2>2, <2>4, <3>1, ReaderMoves
      DEF DeviceInv, FateInv, OwnerAt, Known
  <2> QED  BY <2>3, <2>4
<1>3. ASSUME Unwired(r) PROVE DeviceInv'
  <2>1. /\ thread[r].at = "unwired" /\ open' = open - 1
        /\ UNCHANGED <<peer, dev, allowed, closed>>
    BY <1>3 DEF Unwired, At, handlerVars
  <2>2. PICK rec : Becomes(r, rec) /\ rec.at = "flush"
    BY <1>3, <1>a, <1>b, GoesBecomes DEF Unwired
  <2>3. CountInv'  BY <1>a, <1>c, <2>1, <2>2, ReaderMoves, HandGives
  <2> QED
    BY <1>c, <2>1, <2>2, <2>3, ReaderMoves DEF DeviceInv, FateInv, OwnerAt, Known
<1> QED  BY <1>1, <1>2, <1>3

(* The owner's step: nobody else moves.                                    *)
LEMMA OwnerMoves ==
    ASSUME DeviceInv, NEW rec, Becomes(Operator, rec),
           rec.at \notin {"wiring", "unwired"},
           rec.own => rec.at \in {"idle", "forget", "clear"}
    PROVE  /\ Shape' /\ HandsInv'
           /\ InHandOf(Operator) <=> Owns
           /\ InHandOf(Operator)' <=> rec.own
           /\ OwnerAt' = rec.at
           /\ \A th \in Threads \ {Operator} : InHandOf(th)' <=> InHandOf(th)
  BY ThreadsApart
  DEF ThreadFacts, DeviceInv, Becomes, HandsInv, InHandOf, Owns, OwnerAt

LEMMA OwnerKeeps ==
    ASSUME DeviceInv, RemovePeer \/ Close \/ Operates
    PROVE  DeviceInv'
<1>a. Operator \in Threads /\ Operator \notin Readers
  BY ThreadsApart DEF ThreadFacts
<1>b. Shape /\ Shaped(thread[Operator])  BY <1>a DEF DeviceInv, Shape
<1>c. CountInv /\ FateInv /\ HandsInv  BY DEF DeviceInv
<1>g. ASSUME NEW place, Goes(Operator, place), ~ Owns,
             place \notin {"wiring", "unwired"}, UNCHANGED <<dev, open>>
      PROVE  Shape' /\ HandsInv' /\ CountInv' /\ OwnerAt' = place
  <2>1. PICK rec : Becomes(Operator, rec) /\ rec.at = place
                   /\ rec.own = thread[Operator].own
    BY <1>a, <1>b, <1>g, GoesBecomes
  <2>2. ~ rec.own  BY <1>g, <2>1 DEF Owns
  <2>3. Shape' /\ HandsInv' /\ OwnerAt' = place
        /\ \A th \in Threads : InHandOf(th)' <=> InHandOf(th)
    BY <1>g, <2>1, <2>2, OwnerMoves
  <2>4. CountInv'  BY <1>c, <1>g, <2>3, HandSame
  <2> QED  BY <2>3, <2>4
<1>u. ASSUME NEW place \in {"idle", "forget", "clear"}, ~ Owns,
             dev' = None, UNCHANGED open,
             thread' = [thread EXCEPT ![Operator].at = place,
                                      ![Operator].own = dev # None]
      PROVE  Shape' /\ HandsInv' /\ CountInv' /\ OwnerAt' = place
  <2>1. PICK rec : rec = [thread[Operator] EXCEPT !.at = place, !.own = dev # None]
    OBVIOUS
  <2>2. Shaped(rec) /\ rec.at = place  BY <1>b, <2>1 DEF Shaped
  <2>3. rec.own <=> dev # None  BY <1>b, <2>1 DEF Shaped
  <2>4. thread' = [thread EXCEPT ![Operator] = rec]
    <3>1. thread'[Operator] = rec  BY <1>a, <1>b, <1>u, <2>1 DEF Shape
    <3>2. \A u \in Threads \ {Operator} : thread'[u] = thread[u]
      BY <1>b, <1>u DEF Shape
    <3>3. thread' = [u \in Threads |-> thread'[u]]  BY <1>b, <1>u DEF Shape
    <3> QED  BY <1>b, <3>1, <3>2, <3>3 DEF Shape
  <2>5. Becomes(Operator, rec)  BY <1>a, <1>b, <2>2, <2>4, Replaced
  <2>6. /\ Shape' /\ HandsInv' /\ OwnerAt' = place
        /\ ~ InHandOf(Operator) /\ (InHandOf(Operator)' <=> dev # None)
        /\ \A th \in Threads \ {Operator} : InHandOf(th)' <=> InHandOf(th)
    BY <1>u, <2>2, <2>3, <2>5, OwnerMoves
  <2>7. CASE dev = None
    <3>1. CountInv'  BY <1>c, <1>u, <2>6, <2>7, HandSame
    <3> QED  BY <2>6, <3>1
  <2>8. CASE dev # None
    <3>1. CountInv'  BY <1>a, <1>c, <1>u, <2>6, <2>8, HandTakes
    <3> QED  BY <2>6, <3>1
  <2> QED  BY <2>7, <2>8
<1>1. ASSUME RemovePeer PROVE DeviceInv'
  <2>1. /\ OwnerAt = "idle" /\ ~ Owns /\ Goes(Operator, "sweep")
        /\ UNCHANGED <<dev, allowed, closed, open>>
    BY <1>1 DEF RemovePeer, At, OwnerAt, Owns, adapterVars
  <2>2. Shape' /\ HandsInv' /\ CountInv' /\ OwnerAt' = "sweep"  BY <1>g, <2>1
  <2> QED  BY <1>c, <2>1, <2>2 DEF DeviceInv, FateInv
<1>2. ASSUME Sweep \/ HookServer PROVE DeviceInv'
  <2>1. /\ OwnerAt \in {"sweep", "hookServer"}
        /\ Goes(Operator, "hookServer") \/ Goes(Operator, "hookAdapter")
        /\ UNCHANGED <<peer, dev, allowed, closed, open>>
    BY <1>2 DEF Sweep, HookServer, At, OwnerAt, handlerVars, adapterVars
  <2>2. ~ Owns  BY <1>c, <2>1 DEF HandsInv
  <2>3. /\ Shape' /\ HandsInv' /\ CountInv'
        /\ OwnerAt' \in {"hookServer", "hookAdapter"}
    BY <1>g, <2>1, <2>2
  <2> QED  BY <1>c, <2>1, <2>3 DEF DeviceInv, FateInv, Known
<1>3. ASSUME HookAdapter PROVE DeviceInv'
  <2>1. OwnerAt = "hookAdapter" /\ UNCHANGED <<peer, closed, open>>
    BY <1>3 DEF HookAdapter, At, OwnerAt, handlerVars
  <2>2. ~ Owns  BY <1>c, <2>1 DEF HandsInv
  <2>3. CASE Known
    <3>1. Goes(Operator, "forget") /\ UNCHANGED <<dev, allowed>>
      BY <1>3, <2>3 DEF HookAdapter
    <3>2. Shape' /\ HandsInv' /\ CountInv' /\ OwnerAt' = "forget"
      BY <1>g, <2>1, <2>2, <3>1
    <3> QED  BY <1>c, <2>1, <2>3, <3>1, <3>2 DEF DeviceInv, FateInv, Known
  <2>4. CASE ~ Known
    <3>1. Unwires("forget")  BY <1>3, <2>4 DEF HookAdapter
    <3>2. allowed' # None /\ dev' = None  BY <3>1 DEF Unwires, Unset, None
    <3>3. Shape' /\ HandsInv' /\ CountInv'
      BY <1>u, <2>1, <2>2, <3>1 DEF Unwires
    <3> QED  BY <3>2, <3>3 DEF DeviceInv, FateInv
  <2> QED  BY <2>3, <2>4
<1>4. ASSUME Forget PROVE DeviceInv'
  <2>1. /\ OwnerAt = "forget" /\ ~ Owns /\ Goes(Operator, "teardown")
        /\ UNCHANGED <<peer, dev, allowed, closed, open>>
    BY <1>4 DEF Forget, At, OwnerAt, Owns, handlerVars, adapterVars
  <2>2. Shape' /\ HandsInv' /\ CountInv' /\ OwnerAt' = "teardown"  BY <1>g, <2>1
  <2> QED  BY <1>c, <2>1, <2>2 DEF DeviceInv, FateInv, Known
<1>5. ASSUME TeardownPeer PROVE DeviceInv'
  <2>1. /\ OwnerAt = "teardown" /\ UNCHANGED <<peer, closed, open>>
        /\ Unwires("idle")
    BY <1>5 DEF TeardownPeer, At, OwnerAt, handlerVars
  <2>2. ~ Owns  BY <1>c, <2>1 DEF HandsInv
  <2>3. allowed' # None /\ dev' = None  BY <2>1 DEF Unwires, Unset, None
  <2>4. Shape' /\ HandsInv' /\ CountInv'
    BY <1>u, <2>1, <2>2 DEF Unwires
  <2> QED  BY <2>3, <2>4 DEF DeviceInv, FateInv
<1>6. ASSUME Cleanup PROVE DeviceInv'
  <2>1. /\ Owns /\ open' = open - 1
        /\ thread' = [thread EXCEPT ![Operator].own = FALSE]
        /\ UNCHANGED <<peer, dev, allowed, closed>>
    BY <1>6 DEF Cleanup, Owns, handlerVars
  <2>2. PICK rec : rec = [thread[Operator] EXCEPT !.own = FALSE]  OBVIOUS
  <2>3. Shaped(rec) /\ rec.at = OwnerAt /\ ~ rec.own
    BY <1>b, <2>2 DEF Shaped, OwnerAt
  <2>4. Becomes(Operator, rec)
    BY <1>a, <1>b, <2>1, <2>2, <2>3, Replaced
  <2>5. OwnerAt \notin {"wiring", "unwired"}
    BY <1>a, <1>c DEF HandsInv, OwnerAt
  <2>6. /\ Shape' /\ HandsInv' /\ OwnerAt' = OwnerAt
        /\ InHandOf(Operator) /\ ~ InHandOf(Operator)'
        /\ \A th \in Threads \ {Operator} : InHandOf(th)' <=> InHandOf(th)
    BY <2>1, <2>3, <2>4, <2>5, OwnerMoves
  <2>7. CountInv'  BY <1>a, <1>c, <2>1, <2>6, HandGives
  <2> QED  BY <1>c, <2>1, <2>6, <2>7 DEF DeviceInv, FateInv, Known
<1>7. ASSUME Close PROVE DeviceInv'
  <2>1. /\ OwnerAt = "idle" /\ ~ Owns /\ Goes(Operator, "join")
        /\ UNCHANGED <<peer, dev, allowed, open>>
    BY <1>7 DEF Close, At, OwnerAt, Owns, handlerVars
  <2>2. Shape' /\ HandsInv' /\ CountInv' /\ OwnerAt' = "join"  BY <1>g, <2>1
  <2> QED  BY <1>c, <2>1, <2>2 DEF DeviceInv, FateInv, Known
<1>8. ASSUME Drain PROVE DeviceInv'
  <2>1. /\ OwnerAt = "join" /\ dev' = None /\ UNCHANGED <<allowed, open>>
        /\ thread' = [thread EXCEPT ![Operator].at = "clear",
                                    ![Operator].own = dev # None]
    BY <1>8 DEF Drain, At, OwnerAt
  <2>2. ~ Owns  BY <1>c, <2>1 DEF HandsInv
  <2>3. Shape' /\ HandsInv' /\ CountInv'  BY <1>u, <2>1, <2>2
  <2> QED  BY <1>c, <2>1, <2>3 DEF DeviceInv, FateInv
<1>9. ASSUME CloseHandler PROVE DeviceInv'
  <2>1. /\ OwnerAt = "clear" /\ ~ Owns /\ Goes(Operator, "idle")
        /\ UNCHANGED <<peer, dev, allowed, closed, open>>
    BY <1>9 DEF CloseHandler, At, OwnerAt, Owns, adapterVars
  <2>2. Shape' /\ HandsInv' /\ CountInv' /\ OwnerAt' = "idle"  BY <1>g, <2>1
  <2> QED  BY <1>c, <2>1, <2>2 DEF DeviceInv, FateInv, Known
<1> QED
  BY <1>1, <1>2, <1>3, <1>4, <1>5, <1>6, <1>7, <1>8, <1>9 DEF Operates

LEMMA SettingsKeep ==
    ASSUME DeviceInv, SetAllowedIps \/ AddPeer \/ Expire
    PROVE  DeviceInv'
<1>1. UNCHANGED <<thread, closed, open>>
  BY DEF SetAllowedIps, AddPeer, Expire, adapterVars
<1>2. (dev' = None <=> dev = None) /\ allowed' # None
  <2>1. CASE SetAllowedIps
    <3>1. left.allows # None  BY <2>1 DEF SetAllowedIps, Happens, None
    <3> QED  BY <2>1, <3>1 DEF SetAllowedIps
  <2> QED  BY <2>1 DEF AddPeer, Expire, adapterVars, DeviceInv, FateInv
<1>3. Known' \/ ~ Known
  BY DEF SetAllowedIps, AddPeer, Expire, handlerVars, Known
<1>4. \A th \in Threads : InHandOf(th)' <=> InHandOf(th)
  BY <1>1 DEF InHandOf, Owns
<1>5. CountInv'  BY <1>1, <1>2, <1>4, HandSame DEF DeviceInv
<1>6. Shape' /\ HandsInv'
  BY <1>1 DEF DeviceInv, Shape, HandsInv, Owns, OwnerAt
<1>7. CASE SetAllowedIps
  <2>1. Known' <=> Known  BY <1>7 DEF SetAllowedIps, handlerVars, Known
  <2> QED
    BY <1>1, <1>2, <1>5, <1>6, <2>1 DEF DeviceInv, FateInv, OwnerAt
<1>8. CASE AddPeer \/ Expire
  <2>1. Known'  BY <1>8 DEF AddPeer, Expire, Known
  <2> QED
    BY <1>1, <1>2, <1>5, <1>6, <2>1 DEF DeviceInv, FateInv, OwnerAt
<1> QED  BY <1>7, <1>8

LEMMA DeviceInit == Init => DeviceInv
<1> SUFFICES ASSUME Init PROVE DeviceInv  OBVIOUS
<1>1. Shape /\ \A th \in Threads : thread[th] = Idle
  BY IdleShape DEF Init, ServerInit, Shape
<1>2. Operator \in Threads  BY ThreadsApart DEF ThreadFacts
<1>3. ~ Owns /\ \A th \in Threads : thread[th].at = "idle"
  BY <1>1, <1>2, IdleShape DEF Owns
<1>4. InHand = {}  BY <1>3, InHandIs DEF InHandOf
<1>5. CountInv
  BY <1>4, FS_EmptySet DEF CountInv, Init, None
<1>6. FateInv  BY DEF FateInv, Init, None, Unset
<1> QED  BY <1>1, <1>3, <1>5, <1>6 DEF DeviceInv, HandsInv

(* Whatever the connector, a removal, another connect, a change of the     *)
(* allowed sources or the close do while a device is being wired, every    *)
(* device wired is in the table or in the hands of the one thread that     *)
(* will clean it up, and the table's is of a known peer and an open        *)
(* adapter once calls and callbacks are done.                              *)
THEOREM NoDeviceLost == Spec => []DevicesFollow
<1>1. DeviceInv /\ [Next]_vars => DeviceInv'
  <2> SUFFICES ASSUME DeviceInv, [Next]_vars PROVE DeviceInv'  OBVIOUS
  <2>1. Shape  BY DEF DeviceInv
  <2> QED
    BY <2>1, AsideSteps, AsideKeeps, CallbackKeeps, OwnerKeeps, SettingsKeep
<1>2. DeviceInv => DevicesFollow
  <2> SUFFICES ASSUME DeviceInv PROVE DevicesFollow  OBVIOUS
  <2>1. open = Cardinality(InHand) + (IF dev = None THEN 0 ELSE 1)
    BY DEF DeviceInv, CountInv
  <2>2. ~ Busy => OwnerAt \in {"idle", "gone"}
    BY DEF Busy, OwnerAt
  <2>3. ~ Busy /\ dev # None => Known /\ ~ closed
    BY <2>2 DEF DeviceInv, FateInv
  <2> QED  BY <2>1, <2>3 DEF DevicesFollow, InHand
<1> QED  BY <1>1, <1>2, DeviceInit, PTL DEF Spec

(* A device in the table admits exactly what set_allowed_ips last said, in *)
(* whatever order it came with the device's making and wiring.             *)
THEOREM AllowedUpToDate == Spec => []AllowedAgree
<1>1. Init => AllowedAgree  BY DEF Init, AllowedAgree
<1>2. AllowedAgree /\ [Next]_vars => AllowedAgree'
  <2> SUFFICES ASSUME AllowedAgree, [Next]_vars PROVE AllowedAgree'  OBVIOUS
  <2>1. CASE UNCHANGED <<dev, allowed>>  BY <2>1 DEF AllowedAgree
  <2>2. ASSUME NEW r \in Readers, Reads(r) \/ Takes(r) PROVE AllowedAgree'
    BY <2>1, <2>2 DEF Reads, Takes, PeerConnected, Wire, Unwired, Entry,
       AllowedAgree, adapterVars
  <2>3. ASSUME Operates PROVE AllowedAgree'
    BY <2>1, <2>3 DEF Operates, Sweep, HookServer, HookAdapter, Forget,
       TeardownPeer, Cleanup, Drain, CloseHandler, Unwires, AllowedAgree,
       adapterVars
  <2>4. ASSUME SetAllowedIps PROVE AllowedAgree'
    BY <2>4 DEF SetAllowedIps, AllowedAgree
  <2> QED
    BY <2>1, <2>2, <2>3, <2>4 DEF Next, Runs, Timer, Clock, Answer, Sends,
       AddPeer, Expire, RemovePeer, Close, adapterVars, vars
<1> QED  BY <1>1, <1>2, PTL DEF Spec

-----------------------------------------------------------------------------
(* The timers.                                                             *)

(* The time of the last initiation stands, or is now.                      *)
Keeps(t, u) == Timing(u) /\ u.initiated \in {t.initiated, 0}

LEMMA TimersKeep ==
    ASSUME NEW t, Timing(t)
    PROVE  /\ Keeps(t, InitiationSent(t)) /\ InitiationSent(t).initiated = 0
           /\ Keeps(t, HandshakeComplete(t))
           /\ \A data : Keeps(t, PacketSent(t, data)) /\ Keeps(t, PacketReceived(t, data))
           /\ Keeps(t, GaveUp(t)) /\ GaveUp(t).initiated = t.initiated
           /\ Keeps(t, KeepaliveUnsent(t))
           /\ \A w : Keeps(t, [t EXCEPT !.want = w])
           /\ Keeps(t, t)
<1>1. Keeps(t, InitiationSent(t)) /\ InitiationSent(t).initiated = 0
  <2>1. PICK u : u = InitiationSent(t)  OBVIOUS
  <2>2. Keeps(t, u) /\ u.initiated = 0
    BY <2>1 DEF Timing, Keeps, InitiationSent
  <2> QED  BY <2>1, <2>2
<1>2. Keeps(t, HandshakeComplete(t))
  <2>1. PICK u : u = HandshakeComplete(t)  OBVIOUS
  <2>2. Keeps(t, u)  BY <2>1 DEF Timing, Keeps, HandshakeComplete
  <2> QED  BY <2>1, <2>2
<1>3. ASSUME NEW data PROVE Keeps(t, PacketSent(t, data))
  <2>1. PICK u : u = PacketSent(t, data)  OBVIOUS
  <2>2. Keeps(t, u)  BY <2>1 DEF Timing, Keeps, PacketSent
  <2> QED  BY <2>1, <2>2
<1>4. ASSUME NEW data PROVE Keeps(t, PacketReceived(t, data))
  <2>1. PICK u : u = PacketReceived(t, data)  OBVIOUS
  <2>2. Keeps(t, u)  BY <2>1 DEF Timing, Keeps, PacketReceived
  <2> QED  BY <2>1, <2>2
<1>5. Keeps(t, GaveUp(t)) /\ GaveUp(t).initiated = t.initiated
  <2>1. PICK u : u = GaveUp(t)  OBVIOUS
  <2>2. Keeps(t, u) /\ u.initiated = t.initiated
    BY <2>1 DEF Timing, Keeps, GaveUp
  <2> QED  BY <2>1, <2>2
<1>6. Keeps(t, KeepaliveUnsent(t))
  <2>1. PICK u : u = KeepaliveUnsent(t)  OBVIOUS
  <2>2. Keeps(t, u)  BY <2>1 DEF Timing, Keeps, KeepaliveUnsent
  <2> QED  BY <2>1, <2>2
<1>7. ASSUME NEW w PROVE Keeps(t, [t EXCEPT !.want = w])  BY DEF Timing, Keeps
<1> QED  BY <1>1, <1>2, <1>3, <1>4, <1>5, <1>6, <1>7 DEF Keeps

LEMMA KeepsChain ==
    ASSUME NEW t, NEW u, NEW v, Keeps(t, u), Keeps(u, v)
    PROVE  Keeps(t, v)
  BY DEF Keeps

(* An initiation is due only once the last is a REKEY_TIMEOUT ago, and     *)
(* claiming it makes it the last.                                          *)
LEMMA ClaimedOnce ==
    ASSUME NEW t, Timing(t)
    PROVE  LET d == Claimed(t)
           IN  /\ Keeps(t, d.timers)
               /\ d.due = "yes" => t.initiated # 0 /\ d.timers.initiated = 0
<1> DEFINE h == HandshakeDue(t)
<1>1. /\ h = [due |-> h.due, timers |-> h.timers]
      /\ Keeps(t, h.timers)
      /\ h.due = "yes" => t.initiated # 0
  <2>1. CASE t.trying
    <3>1. CASE t.initiated < REKEY_TIMEOUT
      <4>1. h = [due |-> "no", timers |-> t]
        BY <2>1, <3>1 DEF HandshakeDue, Retry
      <4> QED  BY <4>1, TimersKeep
    <3>2. CASE ~ (t.initiated < REKEY_TIMEOUT) /\ t.attempts > MAX_TIMER_HANDSHAKES
      <4>1. h = [due |-> "failed", timers |-> GaveUp(t)]
        BY <2>1, <3>2 DEF HandshakeDue, Retry
      <4> QED  BY <4>1, TimersKeep
    <3>3. CASE ~ (t.initiated < REKEY_TIMEOUT) /\ ~ (t.attempts > MAX_TIMER_HANDSHAKES)
      <4>1. PICK u : u = [t EXCEPT !.attempts = @ + 1]  OBVIOUS
      <4>2. h = [due |-> "yes", timers |-> u]
        BY <2>1, <3>3, <4>1 DEF HandshakeDue, Retry
      <4>3. Keeps(t, u)  BY <4>1 DEF Keeps, Timing
      <4>4. t.initiated # 0  BY <3>3 DEF REKEY_TIMEOUT
      <4> QED  BY <4>2, <4>3, <4>4
    <3> QED  BY <3>1, <3>2, <3>3
  <2>2. CASE ~ t.trying
    <3>1. PICK w : w = (t.want \/ t.reply >= REPLY_TIMEOUT)  OBVIOUS
    <3>2. h = [due |-> IF w /\ t.initiated >= REKEY_TIMEOUT THEN "yes" ELSE "no",
               timers |-> [t EXCEPT !.want = w]]
      BY <2>2, <3>1 DEF HandshakeDue, Begin
    <3>3. Keeps(t, [t EXCEPT !.want = w])  BY TimersKeep
    <3>4. (w /\ t.initiated >= REKEY_TIMEOUT) => t.initiated # 0
      BY DEF REKEY_TIMEOUT
    <3> QED  BY <3>2, <3>3, <3>4
  <2> QED  BY <2>1, <2>2
<1> HIDE DEF h
<1>2. Timing(h.timers)  BY <1>1 DEF Keeps
<1>3. CASE h.due = "yes"
  <2>1. Claimed(t) = [h EXCEPT !.timers = InitiationSent(@)]
    BY <1>3 DEF Claimed, h
  <2>2. Claimed(t).timers = InitiationSent(h.timers)  BY <1>1, <2>1
  <2> QED  BY <1>1, <1>2, <1>3, <2>2, TimersKeep, KeepsChain
<1>4. CASE h.due # "yes"
  <2>1. Claimed(t) = h  BY <1>4 DEF Claimed, h
  <2> QED  BY <1>1, <1>4, <2>1
<1> QED  BY <1>3, <1>4

LEMMA EncryptedKeeps ==
    ASSUME Timing(timers)
    PROVE  (\A data : Keeps(timers, Encrypted(data))) /\ Keeps(timers, Wanted)
<1>1. ASSUME NEW data PROVE Keeps(timers, Encrypted(data))
  <2>1. PICK t : t = PacketSent(timers, data)  OBVIOUS
  <2>2. Keeps(timers, t) /\ Timing(t)  BY <2>1, TimersKeep DEF Keeps
  <2>3. PICK w : w = (t.want \/ (session.initiator /\ session.age \in {"aged", "old"}))
    OBVIOUS
  <2>4. Encrypted(data) = [t EXCEPT !.want = w]  BY <2>1, <2>3 DEF Encrypted
  <2> QED  BY <2>2, <2>4, TimersKeep, KeepsChain
<1>2. Keeps(timers, Wanted)  BY TimersKeep DEF Wanted
<1> QED  BY <1>1, <1>2

(* A step that decides on no initiation.                                   *)
Unclaimed == recent' = recent /\ Keeps(timers, timers')

LEMMA UnclaimedKeeps ==
    ASSUME ClaimInv, Unclaimed PROVE ClaimInv'
  BY DEF ClaimInv, Unclaimed, Keeps

LEMMA TimedClaims ==
    ASSUME ClaimInv, NEW th \in Timed, Runs(th)
    PROVE  ClaimInv'
<1>a. Timing(timers)  BY DEF ClaimInv
<1>b. Keeps(timers, timers)  BY <1>a, TimersKeep
<1>1. ASSUME Poll(th) PROVE ClaimInv'
  <2>1. PICK d : d = Claimed(timers)  OBVIOUS
  <2>2. /\ Keeps(timers, d.timers)
        /\ d.due = "yes" => timers.initiated # 0 /\ d.timers.initiated = 0
    BY <1>a, <2>1, ClaimedOnce
  <2>3. /\ timers' = IF Known THEN d.timers ELSE timers
        /\ recent' = IF Known /\ d.due = "yes" THEN recent + 1 ELSE recent
    BY <1>1, <2>1 DEF Poll
  <2>4. CASE Known /\ d.due = "yes"
    <3>1. recent = 0  BY <2>2, <2>4 DEF ClaimInv
    <3>2. recent' = 1 /\ timers' = d.timers  BY <2>3, <2>4, <3>1
    <3> QED  BY <2>2, <2>4, <3>2 DEF ClaimInv, Keeps
  <2>5. CASE ~ (Known /\ d.due = "yes")
    <3>1. Unclaimed  BY <1>b, <2>2, <2>3, <2>5 DEF Unclaimed
    <3> QED  BY <3>1, UnclaimedKeeps
  <2> QED  BY <2>4, <2>5
<1>2. ASSUME InsertInitiation(th) PROVE ClaimInv'
  <2>1. Unclaimed
    BY <1>2, <1>a, <1>b, TimersKeep DEF InsertInitiation, WithTimers, Unclaimed
  <2> QED  BY <2>1, UnclaimedKeeps
<1>3. ASSUME PollKeepalive(th) PROVE ClaimInv'
  <2>1. recent' = recent  BY <1>3 DEF PollKeepalive, worldVars
  <2>2. \/ timers' = timers \/ timers' = Encrypted(FALSE)
        \/ timers' = KeepaliveUnsent(timers)
    BY <1>3 DEF PollKeepalive, WithTimers
  <2>3. Unclaimed
    BY <1>a, <1>b, <2>1, <2>2, TimersKeep, EncryptedKeeps DEF Unclaimed
  <2> QED  BY <2>3, UnclaimedKeeps
<1>4. ASSUME PruneStaged(th) \/ DropStaged(th) \/ BuildInitiation(th) \/ Act(th)
      PROVE  ClaimInv'
  <2>1. Unclaimed
    BY <1>4, <1>b DEF PruneStaged, DropStaged, BuildInitiation, Act, handlerVars,
       worldVars, Unclaimed
  <2> QED  BY <2>1, UnclaimedKeeps
<1> QED  BY <1>1, <1>2, <1>3, <1>4 DEF Runs, ThreadStep

LEMMA ReaderUnclaimed ==
    ASSUME ClaimInv, NEW r \in Readers, Reads(r) \/ Takes(r)
    PROVE  Unclaimed
<1>a. Timing(timers)  BY DEF ClaimInv
<1>b. Keeps(timers, timers)  BY <1>a, TimersKeep
<1>1. ASSUME InstallInitiator(r) PROVE Unclaimed
  <2>1. /\ recent' = recent
        /\ timers' = timers \/ timers' = PacketSent(timers, FALSE)
    BY <1>1 DEF InstallInitiator, worldVars
  <2> QED  BY <1>a, <1>b, <2>1, TimersKeep DEF Unclaimed
<1>2. ASSUME NoteReceived(r) PROVE Unclaimed
  <2>1. PICK u : u = IF At(r, "confirmed") THEN HandshakeComplete(timers) ELSE timers
    OBVIOUS
  <2>2. PICK t : t = PacketReceived(u, At(r, "data"))  OBVIOUS
  <2>3. PICK w : w = (t.want \/ (session.initiator /\ session.age = "old"))  OBVIOUS
  <2>4. Keeps(timers, u) /\ Timing(u)  BY <1>a, <1>b, <2>1, TimersKeep DEF Keeps
  <2>5. Keeps(u, t) /\ Timing(t)  BY <2>2, <2>4, TimersKeep DEF Keeps
  <2>6. Keeps(timers, [t EXCEPT !.want = w])
    BY <2>4, <2>5, TimersKeep, KeepsChain
  <2>7. timers' = timers \/ timers' = [t EXCEPT !.want = w]
    BY <1>2, <2>1, <2>2, <2>3 DEF NoteReceived, WithTimers
  <2>8. recent' = recent  BY <1>2 DEF NoteReceived, worldVars
  <2> QED  BY <1>b, <2>6, <2>7, <2>8 DEF Unclaimed
<1>3. ASSUME SendStaged(r) PROVE Unclaimed
  <2>1. recent' = recent /\ (timers' = Encrypted(TRUE) \/ timers' = Wanted)
    BY <1>3 DEF SendStaged
  <2> QED  BY <1>a, <2>1, EncryptedKeeps DEF Unclaimed
<1>4. ASSUME ReceiveResponse(r) PROVE Unclaimed
  <2>1. PICK u : u = HandshakeComplete(timers)  OBVIOUS
  <2>2. Keeps(timers, u) /\ Timing(u)  BY <1>a, <2>1, TimersKeep DEF Keeps
  <2>3. Keeps(timers, PacketReceived(u, FALSE))
    BY <2>2, TimersKeep, KeepsChain
  <2>4. timers' = timers \/ timers' = PacketReceived(u, FALSE)
    BY <1>4, <2>1 DEF ReceiveResponse, WithTimers
  <2>5. recent' = recent  BY <1>4 DEF ReceiveResponse
  <2> QED  BY <1>b, <2>3, <2>4, <2>5 DEF Unclaimed
<1>5. ASSUME \/ Dispatch(r) \/ Flush(r) \/ TakeStaged(r) \/ ReceiveInitiation(r)
             \/ \E packet \in {"data", "keepalive", "confirm"} : ReceiveTransport(r, packet)
             \/ PeerConnected(r) \/ Wire(r) \/ Unwired(r)
      PROVE  Unclaimed
  BY <1>5, <1>b DEF Dispatch, Flush, TakeStaged, ReceiveInitiation, ReceiveTransport,
     PeerConnected, Wire, Unwired, handlerVars, worldVars, Unclaimed
<1> QED
  BY <1>1, <1>2, <1>3, <1>4, <1>5 DEF Reads, Takes, ReaderStep, Arrival

(* However many threads run the timers, with whatever else sends, receives *)
(* or is configured between, they decide on one initiation at most in a    *)
(* REKEY_TIMEOUT: the decision is claimed under the timers' lock, before   *)
(* the initiation is built.                                                *)
THEOREM OneInitiationDecided == Spec => []OneInitiation
<1>1. Init => ClaimInv
  BY DEF Init, ServerInit, ClaimInv, Timing, Fresh
<1>2. ClaimInv /\ [Next]_vars => ClaimInv'
  <2> SUFFICES ASSUME ClaimInv, [Next]_vars PROVE ClaimInv'  OBVIOUS
  <2>a. Timing(timers)  BY DEF ClaimInv
  <2>b. Keeps(timers, timers)  BY <2>a, TimersKeep
  <2>1. ASSUME NEW th \in Timed, Runs(th) PROVE ClaimInv'
    BY <2>1, TimedClaims
  <2>2. ASSUME NEW r \in Readers, Reads(r) \/ Takes(r) PROVE ClaimInv'
    BY <2>2, ReaderUnclaimed, UnclaimedKeeps
  <2>3. ASSUME Clock PROVE ClaimInv'
    <3>1. recent' = 0 /\ timers' = OneLater(timers, left.persistent)
      BY <2>3 DEF Clock, Tick
    <3>2. Timing(timers')  BY <2>a, <3>1 DEF OneLater, Timing
    <3> QED  BY <3>1, <3>2 DEF ClaimInv
  <2>4. ASSUME Sends PROVE ClaimInv'
    <3>1. /\ recent' = recent
          /\ timers' = timers \/ timers' = Encrypted(TRUE) \/ timers' = Wanted
      BY <2>4 DEF Sends, Send, Unsent, Stage, Connect, handlerVars, worldVars
    <3>2. Unclaimed  BY <2>a, <2>b, <3>1, EncryptedKeeps DEF Unclaimed
    <3> QED  BY <3>2, UnclaimedKeeps
  <2>5. ASSUME AddPeer PROVE ClaimInv'
    <3>1. CASE Known
      <4>1. Unclaimed  BY <2>b, <2>5, <3>1 DEF AddPeer, Unclaimed
      <4> QED  BY <4>1, UnclaimedKeeps
    <3>2. CASE ~ Known
      BY <2>5, <3>2 DEF AddPeer, ClaimInv, Timing, Fresh
    <3> QED  BY <3>1, <3>2
  <2>6. ASSUME \/ Timer \/ Answer \/ Age \/ Lose \/ PeerActs \/ SetAllowedIps
               \/ Expire \/ RemovePeer \/ Close \/ Operates \/ UNCHANGED vars
        PROVE  ClaimInv'
    <3>1. UNCHANGED <<timers, recent>>
      BY <2>6 DEF Timer, RunTimers, Answer, PeerTakes, Age, Lose, PeerActs,
         SetAllowedIps, Expire, RemovePeer, Close, Operates, Sweep, HookServer,
         HookAdapter, Forget, TeardownPeer, Cleanup, Drain, CloseHandler, vars,
         serverVars, handlerVars, worldVars
    <3>2. Unclaimed  BY <2>b, <3>1 DEF Unclaimed
    <3> QED  BY <3>2, UnclaimedKeeps
  <2> QED  BY <2>1, <2>2, <2>3, <2>4, <2>5, <2>6 DEF Next
<1>3. ClaimInv => OneInitiation  BY DEF ClaimInv, OneInitiation
<1> QED  BY <1>1, <1>2, <1>3, PTL DEF Spec
=============================================================================
