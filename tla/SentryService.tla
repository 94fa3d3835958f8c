---------------------------- MODULE SentryService ----------------------------
(***************************************************************************)
(* The gRPC service (src/services/sentry.rs) against the capability        *)
(* server's tables (src/main.rs) while sessions come and go.  A call       *)
(* selects peers once, then runs one future per peer: look the sender up,  *)
(* wait for room in the peer's channel(1), report the peer if the channel  *)
(* took the message.  The call answers when all futures are done.          *)
(*                                                                         *)
(* A future keeps the sender of the session it found, also when that       *)
(* session ends and another one of the same peer starts.                   *)
(***************************************************************************)
EXTENDS BlockTracker, FiniteSets

CONSTANTS
    Calls,        \* concurrent gRPC calls
    MaxSessions   \* bound on the sessions of each peer

VARIABLES
    session,      \* session[p]: number of p's latest session, 0 before the first
    piped,        \* peer_pipes has an entry for that session
    alive,        \* that session's egress router holds the receiver
    chan,         \* what is queued in that session's channel: calls, or "reply"
    call,         \* "idle" or "running"
    fut,          \* fut[c][p]: the future of call c for peer p
    sender,       \* sender[c][p]: the session whose sender it holds
    delivered     \* delivered[c][p]: sessions that took c's message (history)

serviceVars == <<call, fut, sender>>
sessionVars == <<session, piped, alive, chan>>
vars == <<trackerVars, sessionVars, serviceVars, delivered>>

Init ==
    /\ TrackerInit
    /\ session = [p \in Peers |-> 0] /\ piped = {} /\ alive = {}
    /\ chan = [p \in Peers |-> {}]
    /\ call = [c \in Calls |-> "idle"]
    /\ fut = [c \in Calls |-> [p \in Peers |-> "none"]]
    /\ sender = [c \in Calls |-> [p \in Peers |-> 0]]
    /\ delivered = [c \in Calls |-> [p \in Peers |-> {}]]

-----------------------------------------------------------------------------
(* Sessions.                                                                *)

\* setup_peer: the new session's channel, and block 0.
SetupPeer(p) ==
    /\ p \notin alive /\ session[p] < MaxSessions
    /\ session' = [session EXCEPT ![p] = @ + 1]
    /\ piped' = piped \cup {p} /\ alive' = alive \cup {p}
    /\ chan' = [chan EXCEPT ![p] = {}]
    /\ SetBlockNumber(p, 0)
    /\ UNCHANGED <<serviceVars, delivered>>

\* The ingress router queues a reply in the same channel.  It may hold the
\* sender beyond the teardown.
Reply(p) ==
    /\ p \in alive /\ chan[p] = {}
    /\ chan' = [chan EXCEPT ![p] = {"reply"}]
    /\ UNCHANGED <<trackerVars, session, piped, alive, serviceVars, delivered>>

\* The egress router takes the queued message.
Take(p) ==
    /\ p \in alive /\ chan[p] # {}
    /\ chan' = [chan EXCEPT ![p] = {}]
    /\ UNCHANGED <<trackerVars, session, piped, alive, serviceVars, delivered>>

\* Defective variant of TeardownPeer: the block tracker keeps the peer.
TeardownPeerTracked(p) ==
    /\ p \in piped
    /\ piped' = piped \ {p}
    /\ UNCHANGED <<trackerVars, session, alive, chan, serviceVars, delivered>>

\* teardown_peer; the receiver lives on with the egress router's future.
TeardownPeer(p) ==
    /\ p \in piped
    /\ piped' = piped \ {p}
    /\ RemovePeer(p)
    /\ UNCHANGED <<session, alive, chan, serviceVars, delivered>>

\* The egress router is gone and the receiver with it.
SessionEnd(p) ==
    /\ p \in alive \ piped
    /\ alive' = alive \ {p}
    /\ chan' = [chan EXCEPT ![p] = {}]
    /\ UNCHANGED <<trackerVars, session, piped, serviceVars, delivered>>

-----------------------------------------------------------------------------
(* Calls.                                                                   *)

\* send_by_predicate: the predicate runs once, then one future per peer.
Start(c, peers) ==
    /\ call[c] = "idle"
    /\ call' = [call EXCEPT ![c] = "running"]
    /\ fut' = [fut EXCEPT ![c] = [p \in Peers |-> IF p \in peers THEN "lookup" ELSE "none"]]
    /\ UNCHANGED <<trackerVars, sessionVars, sender, delivered>>

SendMessageByMinBlock(c, min) == Start(c, PeersWithMinBlock(min))
SendMessageById(c, p)         == Start(c, {p})
SendMessageToAll(c)           == Start(c, piped)

\* penalize_peer queues its Disconnect event the same way, for one peer.
PenalizePeer(c, p) == Start(c, {p})

\* all_peers().take(max): any max of them.
SendMessageToRandomPeers(c, max) ==
    \E peers \in SUBSET piped :
        /\ Cardinality(peers) = IF Cardinality(piped) < max THEN Cardinality(piped) ELSE max
        /\ Start(c, peers)

\* The future's first poll: capability_server.sender(peer).
Lookup(c, p) ==
    /\ fut[c][p] = "lookup"
    /\ IF p \in piped
       THEN /\ fut' = [fut EXCEPT ![c][p] = "wait"]
            /\ sender' = [sender EXCEPT ![c][p] = session[p]]
       ELSE /\ fut' = [fut EXCEPT ![c][p] = "failed"]
            /\ UNCHANGED sender
    /\ UNCHANGED <<trackerVars, sessionVars, call, delivered>>

\* The session whose sender the future holds still has its receiver.
Reachable(c, p) == p \in alive /\ session[p] = sender[c][p]

\* Defective variant of Deliver: looks only at the peer, not at the session.
DeliverToPeer(c, p) ==
    /\ fut[c][p] = "wait" /\ p \in alive /\ chan[p] = {}
    /\ chan' = [chan EXCEPT ![p] = {c}]
    /\ fut' = [fut EXCEPT ![c][p] = "sent"]
    /\ delivered' = [delivered EXCEPT ![c][p] = @ \cup {session[p]}]
    /\ UNCHANGED <<trackerVars, session, piped, alive, call, sender>>

\* send() found room.
Deliver(c, p) ==
    /\ fut[c][p] = "wait" /\ Reachable(c, p) /\ chan[p] = {}
    /\ chan' = [chan EXCEPT ![p] = {c}]
    /\ fut' = [fut EXCEPT ![c][p] = "sent"]
    /\ delivered' = [delivered EXCEPT ![c][p] = @ \cup {session[p]}]
    /\ UNCHANGED <<trackerVars, session, piped, alive, call, sender>>

\* Defective variant of Closed: waits for the peer to come back.
ClosedNever(c, p) == fut[c][p] = "wait" /\ ~Reachable(c, p) /\ UNCHANGED vars

\* send() failed: the receiver is gone.
Closed(c, p) ==
    /\ fut[c][p] = "wait" /\ ~Reachable(c, p)
    /\ fut' = [fut EXCEPT ![c][p] = "failed"]
    /\ UNCHANGED <<trackerVars, sessionVars, call, sender, delivered>>

Done(c) == \A p \in Peers : fut[c][p] \in {"none", "sent", "failed"}

\* SentPeers: the peers whose future returned Some.
Sent(c) == {p \in Peers : fut[c][p] = "sent"}

\* All futures are done: the call answers.
Answer(c) ==
    /\ call[c] = "running" /\ Done(c)
    /\ call' = [call EXCEPT ![c] = "idle"]
    /\ fut' = [fut EXCEPT ![c] = [p \in Peers |-> "none"]]
    /\ sender' = [sender EXCEPT ![c] = [p \in Peers |-> 0]]
    /\ delivered' = [delivered EXCEPT ![c] = [p \in Peers |-> {}]]
    /\ UNCHANGED <<trackerVars, sessionVars>>

-----------------------------------------------------------------------------
CallNext(c) ==
    \/ \E min \in Blocks : SendMessageByMinBlock(c, min)
    \/ \E p \in Peers : SendMessageById(c, p) \/ PenalizePeer(c, p)
    \/ SendMessageToAll(c)
    \/ \E max \in 0 .. Cardinality(Peers) : SendMessageToRandomPeers(c, max)
    \/ \E p \in Peers : Lookup(c, p) \/ Deliver(c, p) \/ Closed(c, p)
    \/ Answer(c)

Next ==
    \/ \E p \in Peers : SetupPeer(p) \/ Reply(p) \/ Take(p) \/ TeardownPeer(p) \/ SessionEnd(p)
    \/ \E c \in Calls : CallNext(c)

Spec == Init /\ [][Next]_vars

(***************************************************************************)
(* Futures that are ready are polled, and a torn-down session's tasks end. *)
(* Whether a peer's egress router ever takes another message is up to the  *)
(* remote node.                                                            *)
(***************************************************************************)
Fairness ==
    /\ \A p \in Peers : WF_vars(SessionEnd(p))
    /\ \A c \in Calls :
         /\ WF_vars(Answer(c))
         /\ \A p \in Peers : WF_vars(Lookup(c, p)) /\ SF_vars(Deliver(c, p)) /\ WF_vars(Closed(c, p))

FairSpec == Spec /\ Fairness

-----------------------------------------------------------------------------
(* Properties.                                                              *)

(***************************************************************************)
(* The block tracker and the pipes name the same peers at every step       *)
(* (setup_peer and teardown_peer lock both), so SendMessageByMinBlock with *)
(* bound 0 selects what SendMessageToAll selects.                          *)
(***************************************************************************)
TrackerFollowsPipes == PeersWithMinBlock(0) = piped

(***************************************************************************)
(* A message goes to one session of a peer at most, the session the sender *)
(* was looked up in, even if the peer reconnects while the call waits, and *)
(* a peer is reported exactly when its session's channel took the message. *)
(***************************************************************************)
SentExactlyOnce ==
    \A c \in Calls, p \in Peers :
        delivered[c][p] = IF fut[c][p] = "sent" THEN {sender[c][p]} ELSE {}

(***************************************************************************)
(* A call answers unless some peer's egress router stops taking messages   *)
(* while its session lasts: sessions that end do not hold it up.           *)
(***************************************************************************)
CallsAnswer ==
    \A c \in Calls :
        (\A p \in Peers : []<>(p \notin alive \/ chan[p] = {}))
            => (call[c] = "running" ~> call[c] = "idle")

==============================================================================
