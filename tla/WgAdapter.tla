------------------------------ MODULE WgAdapter -----------------------------
(***************************************************************************)
(* The WireGuard adapter (src/src/wg/adapter.rs) on its server: a device   *)
(* for the peer, wired by the connector when the peer connects, with the   *)
(* source addresses the owner allows it, and torn down when the peer goes. *)
(*                                                                         *)
(* The connector is caller code and runs without the adapter's lock, so a  *)
(* removal, another connect or the close may come between the device's     *)
(* making and its entry in the table.  Each step here is one lock's.  Only *)
(* single-handler mode is modelled.                                        *)
(***************************************************************************)
EXTENDS WgServer

VARIABLES
    dev,        \* the table's entry: allowed sources of the device, or None
    allowed,    \* allowed_ips
    closed,     \* the adapter's own flag
    open        \* external: devices the connector wired and did not clean up

adapterVars == <<dev, allowed, closed, open>>
vars == <<serverVars, adapterVars>>

None  == -1
Unset == 0

-----------------------------------------------------------------------------
(* on_peer_connected, on a reader's thread.                                *)

(* A device is made, with what is allowed now, and handed to the           *)
(* connector, which may refuse it.                                         *)
PeerConnected(r) ==
    /\ At(r, "callback")
    /\ \/ /\ dev = None
          /\ open' = open + 1
          /\ thread' = [thread EXCEPT ![r].at = "wiring", ![r].sees = <<allowed>>]
       \/ Goes(r, "flush") /\ UNCHANGED open
    /\ UNCHANGED <<handlerVars, heldVars, worldVars, dev, allowed, closed>>

(* Mutant of Keep: the check before the connector ran is relied on.        *)
KeepUnchecked == ~closed /\ Authorized

Keep == ~closed /\ Authorized /\ dev = None

(* Mutant of Entry: the device keeps what was allowed when it was made.    *)
EntryAsMade(made) == made

(* set_allowed_ips may have run since the device was made.                 *)
Entry(made) == allowed

(* Under the peers lock: the device gets its entry, or is to be cleaned.   *)
Wire(r) ==
    /\ At(r, "wiring")
    /\ dev' = IF Keep THEN Entry(thread[r].sees[1]) ELSE dev
    /\ thread' = [thread EXCEPT ![r].at = IF Keep THEN "flush" ELSE "unwired", ![r].sees = <<>>]
    /\ UNCHANGED <<handlerVars, heldVars, worldVars, allowed, closed, open>>

Unwired(r) ==
    /\ At(r, "unwired")
    /\ open' = open - 1
    /\ Goes(r, "flush")
    /\ UNCHANGED <<handlerVars, heldVars, worldVars, dev, allowed, closed>>

-----------------------------------------------------------------------------
(* The owner's calls.  Those of one lock are one step, of any thread.      *)

SetAllowedIps ==
    /\ Happens("allows")
    /\ allowed' = left.allows
    /\ dev' = IF dev = None THEN None ELSE left.allows
    /\ UNCHANGED <<handlerVars, heldVars, thread, net, remote, recent, closed, open>>

(* add_peer: a fresh entry, or the expiry of the old one cleared.          *)
AddPeer ==
    /\ ~Authorized /\ Happens("adds")
    /\ peer' = "known"
    /\ timers' = IF Known THEN timers ELSE Fresh
    /\ recent' = IF Known THEN recent ELSE 0
    /\ UNCHANGED <<session, pending, heldVars, thread, net, remote, adapterVars>>

(* set_peer_expiry, and the time passing.                                  *)
Expire ==
    /\ Authorized /\ Happens("expiries")
    /\ peer' = "expired"
    /\ UNCHANGED <<timers, session, pending, heldVars, thread, net, remote, recent, adapterVars>>

(* remove_peer: the entry first, so that whoever finishes a handshake or a *)
(* device either sees it gone or is seen.                                  *)
RemovePeer ==
    /\ At(Operator, "idle") /\ ~thread[Operator].own /\ Happens("removes")
    /\ peer' = "absent"
    /\ Goes(Operator, "sweep")
    /\ UNCHANGED <<timers, session, pending, heldVars, net, remote, recent, adapterVars>>

(* forget_peers: its handshakes and its session.                           *)
Sweep ==
    /\ At(Operator, "sweep")
    /\ pending' = FALSE /\ session' = NoSession
    /\ Goes(Operator, "hookServer")
    /\ UNCHANGED <<peer, timers, heldVars, worldVars, adapterVars>>

Forgets == staged' = <<>> /\ endpoint' = FALSE

(* Server::peers_removed: one known again keeps what is held for it.       *)
HookServer ==
    /\ At(Operator, "hookServer")
    /\ IF Known THEN UNCHANGED <<staged, endpoint>> ELSE Forgets
    /\ Goes(Operator, "hookAdapter")
    /\ UNCHANGED <<handlerVars, done, worldVars, adapterVars>>

(* A device taken out of the table is cleaned up next, its owner in own.   *)
Unwires(place) ==
    /\ allowed' = Unset /\ dev' = None
    /\ thread' = [thread EXCEPT ![Operator].at = place, ![Operator].own = dev # None]

HookAdapter ==
    /\ At(Operator, "hookAdapter")
    /\ IF Known THEN Goes(Operator, "forget") /\ UNCHANGED <<dev, allowed>>
       ELSE Unwires("forget")
    /\ UNCHANGED <<handlerVars, heldVars, worldVars, closed, open>>

Forget ==
    /\ At(Operator, "forget") /\ ~thread[Operator].own
    /\ Forgets
    /\ Goes(Operator, "teardown")
    /\ UNCHANGED <<handlerVars, done, worldVars, adapterVars>>

TeardownPeer ==
    /\ At(Operator, "teardown")
    /\ Unwires("idle")
    /\ UNCHANGED <<handlerVars, heldVars, worldVars, closed, open>>

Cleanup ==
    /\ thread[Operator].own
    /\ open' = open - 1
    /\ thread' = [thread EXCEPT ![Operator].own = FALSE]
    /\ UNCHANGED <<handlerVars, heldVars, worldVars, dev, allowed, closed>>

-----------------------------------------------------------------------------
(* close: the flag, the server, the devices, the handler.                  *)

Close ==
    /\ At(Operator, "idle") /\ ~thread[Operator].own /\ ~closed /\ Happens("closes")
    /\ closed' = TRUE
    /\ done' = TRUE
    /\ Goes(Operator, "join")
    /\ UNCHANGED <<handlerVars, staged, endpoint, net, remote, recent, dev, allowed, open>>

(* The maintenance thread is waited for, the readers are not.              *)
Drain ==
    /\ At(Operator, "join") /\ At(Maint, "idle")
    /\ dev' = None
    /\ thread' = [thread EXCEPT ![Operator].at = "clear", ![Operator].own = dev # None]
    /\ UNCHANGED <<handlerVars, heldVars, worldVars, allowed, closed, open>>

CloseHandler ==
    /\ At(Operator, "clear") /\ ~thread[Operator].own
    /\ pending' = FALSE /\ session' = NoSession
    /\ Goes(Operator, "idle")
    /\ UNCHANGED <<peer, timers, heldVars, worldVars, adapterVars>>

-----------------------------------------------------------------------------
Init ==
    /\ ServerInit
    /\ dev = None /\ allowed = Unset /\ closed = FALSE /\ open = 0

Runs(th)  == ThreadStep(th) /\ UNCHANGED adapterVars
Reads(r)  == (ReaderStep(r) /\ UNCHANGED adapterVars)
                \/ PeerConnected(r) \/ Wire(r) \/ Unwired(r)
Takes(r)  == Arrival(r) /\ UNCHANGED adapterVars
Timer     == RunTimers /\ UNCHANGED adapterVars
Clock     == Tick /\ UNCHANGED adapterVars
Answer    == PeerTakes /\ UNCHANGED adapterVars
Sends     == (Send \/ Unsent \/ Stage \/ Connect) /\ UNCHANGED adapterVars
Operates  == Sweep \/ HookServer \/ HookAdapter \/ Forget \/ TeardownPeer \/ Cleanup
                \/ Drain \/ CloseHandler

Next ==
    \/ \E th \in Timed : Runs(th)
    \/ \E r \in Readers : Reads(r) \/ Takes(r)
    \/ Timer \/ Clock \/ Answer \/ Sends
    \/ (Age \/ Lose \/ PeerActs) /\ UNCHANGED adapterVars
    \/ SetAllowedIps \/ AddPeer \/ Expire \/ RemovePeer \/ Close
    \/ Operates

Spec == Init /\ [][Next]_vars

(* Threads run, the maintenance thread polls, time passes, and the network *)
(* delivers what it has not lost.  Nobody has to send, remove or answer.   *)
Fairness ==
    /\ \A th \in Timed : WF_vars(Runs(th))
    /\ \A r \in Readers : WF_vars(Reads(r))
    /\ WF_vars(\E r \in Readers : Takes(r))
    /\ WF_vars(Timer) /\ WF_vars(Clock) /\ WF_vars(Answer)
    /\ WF_vars((Unsent \/ Stage) /\ UNCHANGED adapterVars)
    /\ WF_vars(Operates)

FairSpec == Spec /\ Fairness

-----------------------------------------------------------------------------
TypeOK ==
    /\ peer \in {"known", "expired", "absent"}
    /\ pending \in BOOLEAN /\ endpoint \in BOOLEAN /\ done \in BOOLEAN
    /\ closed \in BOOLEAN /\ open \in Nat
    /\ session.age \in Range(Ages) /\ session.next \in BOOLEAN
    /\ timers.attempts \in 0 .. MAX_TIMER_HANDSHAKES + 1

Busy == \E th \in Readers \cup {Operator} : thread[th].at \notin {"idle", "gone"}

(* No device is left wired with nobody to clean it up, and once calls and  *)
(* callbacks are done the one in the table is that of a peer the handler   *)
(* knows, of an adapter still open: whatever ran while the connector did   *)
(* (adapter.rs, on_peer_connected, peers_removed and close).               *)
DevicesFollow ==
    LET inHand == {th \in Threads : thread[th].at \in {"wiring", "unwired"}}
                    \cup {th \in {Operator} : thread[th].own}
    IN  /\ open = Cardinality(inHand) + (IF dev = None THEN 0 ELSE 1)
        /\ ~Busy /\ dev # None => Known /\ ~closed

(* A device in the table admits what the owner last allowed, whether that  *)
(* was said before the device was made, while it was wired, or after       *)
(* (adapter.rs, set_allowed_ips).                                          *)
AllowedAgree == dev # None => dev = allowed
=============================================================================
