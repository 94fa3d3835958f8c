-------------------------------- MODULE Swarm --------------------------------
(***************************************************************************)
(* The peer table of the RLPx node (devp2p/src/rlpx.rs): outbound attempts *)
(* with their reapers, the dialer, inbound connections, the node filter    *)
(* and the removal of a peer whose session ended.  Every action is a code  *)
(* section that runs without an await; sections that hold the streams      *)
(* mutex are atomic by that mutex.                                         *)
(*                                                                         *)
(* A session is seen here only through the capability server's peer_pipes: *)
(* on_peer_connect adds the peer, the egress router's Disconnect event     *)
(* removes it.  Module PeerSession opens the session up.                   *)
(***************************************************************************)
EXTENDS Integers, FiniteSets

CONSTANTS
    Peers,         \* remote identities
    Dials,         \* connection ids of outbound attempts (one Uuid each); an id
                   \* is used again once nothing refers to it
    Inbound,       \* slots for inbound connections being set up
    ManualPeers,   \* identities the embedding program passes to add_peer
    Faulty,        \* identities from whose address a malformed handshake may come
    Banned,        \* MemoryNodeFilter::ban_list; nothing calls ban(), so {}
    MaxPeers,      \* peer_limiter
    CounterMod,    \* 2^(width of usize)
    Vacant,        \* no entry in the mapping
    Connected      \* PeerState::Connected

ASSUME EntryAssumption ==
    /\ Vacant # Connected
    /\ Vacant \notin Dials
    /\ Connected \notin Dials

ASSUME PeersAssumption ==
    /\ IsFiniteSet(Peers)
    /\ ManualPeers \subseteq Peers
    /\ Faulty \subseteq Peers
    /\ Banned \subseteq Peers

\* Connection ids are Uuids: many, but finitely many.
ASSUME DialsAssumption == IsFiniteSet(Dials)

ASSUME BoundsAssumption ==
    /\ MaxPeers \in Nat
    /\ CounterMod \in Nat \ {0}

VARIABLES
    mapping,              \* PeerStreams::mapping; a dial d stands for
                          \* PeerState::Connecting { connection_id: d }
    peer_pipes,           \* peers the capability server has state for
    pc,                   \* where the add_peer_inner future of each dial is
    target,               \* its remote_id
    check_peer,           \* its check_peer; TRUE for the dialer's own attempts
    rx,                   \* the oneshot its reaper waits on
    currently_connecting,
    current_peers,        \* identities the dialer has a task for
    dialer,               \* where the dialer loop is
    setup,                \* inbound connection setup tasks
    listening             \* the accept loop is running

vars == <<mapping, peer_pipes, pc, target, check_peer, rx, currently_connecting,
          current_peers, dialer, setup, listening>>

dialVars == <<pc, target, check_peer, rx, currently_connecting>>
poolVars == <<mapping, peer_pipes>>
loopVars == <<current_peers, dialer, setup, listening>>

(***************************************************************************)
(* The variables have their types; the counter has the range of usize      *)
(* (rlpx.rs:465-495).                                                      *)
(***************************************************************************)
TypeOK ==
    /\ mapping \in [Peers -> Dials \cup {Vacant, Connected}]
    /\ peer_pipes \subseteq Peers
    /\ pc \in [Dials -> {"idle", "created", "connecting", "returned"}]
    /\ target \in [Dials -> Peers]
    /\ check_peer \in [Dials -> BOOLEAN]
    /\ rx \in [Dials -> {"none", "open", "sent", "closed"}]
    /\ currently_connecting \in 0 .. CounterMod - 1
    /\ current_peers \subseteq Peers
    /\ dialer \in {"check", "discover", "quit"}
    /\ setup \in [Inbound -> {"idle", "handshake"}]
    /\ listening \in BOOLEAN

Init ==
    /\ mapping = [p \in Peers |-> Vacant]
    /\ peer_pipes = {}
    /\ pc = [d \in Dials |-> "idle"]
    /\ \E p \in Peers : target = [d \in Dials |-> p]     \* no attempt yet
    /\ check_peer = [d \in Dials |-> FALSE]
    /\ rx = [d \in Dials |-> "none"]
    /\ currently_connecting = 0
    /\ current_peers = {}
    /\ dialer = "check"
    /\ setup = [i \in Inbound |-> "idle"]
    /\ listening = TRUE

Pool == {p \in Peers : mapping[p] # Vacant}

\* The size test of the filter and of the dialer.
HasRoom(entries) == Cardinality(entries) < MaxPeers

\* Defective variant of Allow: admits one peer too many.
AllowOneMore(p) == Cardinality(Pool) <= MaxPeers /\ p \notin Banned

\* NodeFilter::allow
Allow(p) == HasRoom(Pool) /\ p \notin Banned

\* setup_peer_state as the table sees it: on_peer_connect, then the entry.
SetupPeerState(p) ==
    /\ mapping' = [mapping EXCEPT ![p] = Connected]
    /\ peer_pipes' = peer_pipes \cup {p}

-----------------------------------------------------------------------------
(* Outbound attempts: add_peer, add_peer_inner, the reaper.                 *)

\* Calling add_peer_inner: the oneshot, the reaper task, the unpolled future.
AddPeerInner(d, p, check) ==
    /\ pc[d] = "idle" /\ rx[d] = "none"
    /\ pc' = [pc EXCEPT ![d] = "created"]
    /\ target' = [target EXCEPT ![d] = p]
    /\ check_peer' = [check_peer EXCEPT ![d] = check]
    /\ rx' = [rx EXCEPT ![d] = "open"]
    /\ UNCHANGED <<poolVars, currently_connecting>>

\* add_peer, called by the embedding program.
AddPeer(d, p) ==
    /\ p \in ManualPeers
    /\ AddPeerInner(d, p, FALSE)
    /\ UNCHANGED loopVars

\* The future is gone (returned or dropped); tx was used or dropped with it.
\* The dialer's task still has to leave current_peers.
Finish(d, result) ==
    /\ pc' = [pc EXCEPT ![d] = IF check_peer[d] THEN "returned" ELSE "idle"]
    /\ rx' = [rx EXCEPT ![d] = result]

\* First poll, up to the connection's first await.
Poll(d) ==
    LET p == target[d] IN
    /\ pc[d] = "created"
    /\ currently_connecting' = (currently_connecting + 1) % CounterMod
    /\ IF mapping[p] = Vacant /\ (check_peer[d] => Allow(p))
       THEN /\ mapping' = [mapping EXCEPT ![p] = d]
            /\ pc' = [pc EXCEPT ![d] = "connecting"]
            /\ UNCHANGED rx
       ELSE Finish(d, "closed") /\ UNCHANGED mapping
    /\ UNCHANGED <<peer_pipes, target, check_peer, loopVars>>

\* The entry is still ours to decide: occupied and not connected.
Adoptable(p) == mapping[p] \notin {Vacant, Connected}

\* TCP connection and handshake succeeded: adopt the connection.
ConnectOk(d) ==
    LET p == target[d] IN
    /\ pc[d] = "connecting"
    /\ IF Adoptable(p) THEN SetupPeerState(p) /\ Finish(d, "sent")
                       ELSE UNCHANGED poolVars /\ Finish(d, "closed")
    /\ UNCHANGED <<target, check_peer, currently_connecting, loopVars>>

\* They failed: give the entry up.
ConnectErr(d) ==
    LET p == target[d] IN
    /\ pc[d] = "connecting"
    /\ mapping' = IF Adoptable(p) THEN [mapping EXCEPT ![p] = Vacant] ELSE mapping
    /\ Finish(d, "closed")
    /\ UNCHANGED <<peer_pipes, target, check_peer, currently_connecting, loopVars>>

\* The connection panics on a malformed handshake: an empty hello, or an Ack
\* shorter than its fixed parts.  The dialer's task unwinds: the future and tx are
\* dropped, but nobody takes the identity out of current_peers.
ConnectPanic(d) ==
    /\ pc[d] = "connecting" /\ check_peer[d] /\ target[d] \in Faulty
    /\ pc' = [pc EXCEPT ![d] = "idle"]
    /\ rx' = [rx EXCEPT ![d] = "closed"]
    /\ UNCHANGED <<poolVars, target, check_peer, currently_connecting, loopVars>>

\* The future is dropped: by the dialer's timeout, which polls it first, or by
\* the caller of add_peer at any time, which is also what a panic in it does.
Drop(d) ==
    /\ pc[d] = "connecting" \/ (pc[d] = "created" /\ ~check_peer[d])
    /\ Finish(d, "closed")
    /\ UNCHANGED <<poolVars, target, check_peer, currently_connecting, loopVars>>

\* fetch_sub wraps.
Decremented == (currently_connecting + CounterMod - 1) % CounterMod

\* The reaper's steps on variables other than mapping and the counter.
ReapRest(d) ==
    /\ rx[d] \in {"sent", "closed"}
    /\ rx' = [rx EXCEPT ![d] = "none"]
    /\ UNCHANGED <<peer_pipes, pc, target, check_peer, loopVars>>

\* Defective variant of Reap: removes whatever attempt holds the entry.
ReapAnyAttempt(d) ==
    LET p == target[d] IN
    /\ ReapRest(d)
    /\ mapping' = IF rx[d] = "closed" /\ mapping[p] \notin {Vacant, Connected}
                  THEN [mapping EXCEPT ![p] = Vacant] ELSE mapping
    /\ currently_connecting' = Decremented

\* Defective variant of Reap: removes the entry without looking at its state.
ReapAnyEntry(d) ==
    /\ ReapRest(d)
    /\ mapping' = IF rx[d] = "closed"
                  THEN [mapping EXCEPT ![target[d]] = Vacant] ELSE mapping
    /\ currently_connecting' = Decremented

\* Defective variant of Reap: only counts.
ReapNothing(d) ==
    /\ ReapRest(d)
    /\ currently_connecting' = Decremented
    /\ UNCHANGED mapping

\* Defective variant of Reap: counts failed attempts only.
ReapFailuresOnly(d) ==
    LET p == target[d] IN
    /\ ReapRest(d)
    /\ mapping' = IF rx[d] = "closed" /\ mapping[p] = d
                  THEN [mapping EXCEPT ![p] = Vacant] ELSE mapping
    /\ currently_connecting' =
         IF rx[d] = "closed" THEN Decremented ELSE currently_connecting

\* The reaper wakes up when tx was used or dropped.
Reap(d) ==
    LET p == target[d] IN
    /\ ReapRest(d)
    /\ mapping' = IF rx[d] = "closed" /\ mapping[p] = d
                  THEN [mapping EXCEPT ![p] = Vacant] ELSE mapping
    /\ currently_connecting' = Decremented

-----------------------------------------------------------------------------
(* The dialer.                                                              *)

\* Look for peers only while the table has room (otherwise sleep and retry).
DialerCheck ==
    /\ dialer = "check"
    /\ HasRoom(Pool)
    /\ dialer' = "discover"
    /\ UNCHANGED <<poolVars, dialVars, current_peers, setup, listening>>

\* Defective variant of DialerDiscovered: does not look at current_peers.
DialerDiscoveredAgain(d, p) ==
    /\ dialer = "discover"
    /\ current_peers' = current_peers \cup {p}
    /\ AddPeerInner(d, p, TRUE)
    /\ dialer' = "check"
    /\ UNCHANGED <<setup, listening>>

\* A new identity: spawn a task that runs add_peer_inner with a timeout.
DialerDiscovered(d, p) ==
    /\ dialer = "discover"
    /\ p \notin current_peers
    /\ current_peers' = current_peers \cup {p}
    /\ AddPeerInner(d, p, TRUE)
    /\ dialer' = "check"
    /\ UNCHANGED <<setup, listening>>

\* Discovery timed out, failed, or named an identity that has a task.
DialerSkip ==
    /\ dialer = "discover"
    /\ dialer' = "check"
    /\ UNCHANGED <<poolVars, dialVars, current_peers, setup, listening>>

\* The discovery stream ended.
DialerQuit ==
    /\ dialer = "discover"
    /\ dialer' = "quit"
    /\ UNCHANGED <<poolVars, dialVars, current_peers, setup, listening>>

\* Defective variant of DialTaskEnd: the identity stays in current_peers.
DialTaskEndKeeps(d) ==
    /\ pc[d] = "returned"
    /\ pc' = [pc EXCEPT ![d] = "idle"]
    /\ UNCHANGED <<poolVars, target, check_peer, rx, currently_connecting, loopVars>>

\* The dialer's task ends once its attempt returned or timed out.
DialTaskEnd(d) ==
    /\ pc[d] = "returned"
    /\ pc' = [pc EXCEPT ![d] = "idle"]
    /\ current_peers' = current_peers \ {target[d]}
    /\ UNCHANGED <<poolVars, target, check_peer, rx, currently_connecting,
                   dialer, setup, listening>>

-----------------------------------------------------------------------------
(* Inbound connections.                                                     *)

\* accept() returned a stream (inside the CIDR range): spawn its setup task.
Accept(i) ==
    /\ listening /\ setup[i] = "idle"
    /\ setup' = [setup EXCEPT ![i] = "handshake"]
    /\ UNCHANGED <<poolVars, dialVars, current_peers, dialer, listening>>

\* accept() failed: the accept loop ends for good.
AcceptErr ==
    /\ listening
    /\ listening' = FALSE
    /\ UNCHANGED <<poolVars, dialVars, current_peers, dialer, setup>>

\* Defective variant of IncomingOk: the filter is not asked.
IncomingOkUnfiltered(i, p) ==
    /\ setup[i] = "handshake"
    /\ setup' = [setup EXCEPT ![i] = "idle"]
    /\ IF mapping[p] = Vacant THEN SetupPeerState(p) ELSE UNCHANGED poolVars
    /\ UNCHANGED <<dialVars, current_peers, dialer, listening>>

\* The handshake revealed identity p.  An occupied entry wins over the newcomer.
IncomingOk(i, p) ==
    /\ setup[i] = "handshake"
    /\ setup' = [setup EXCEPT ![i] = "idle"]
    /\ IF mapping[p] = Vacant /\ Allow(p)
       THEN SetupPeerState(p)
       ELSE UNCHANGED poolVars
    /\ UNCHANGED <<dialVars, current_peers, dialer, listening>>

\* The handshake failed, timed out or panicked: the task holds nothing else.
IncomingErr(i) ==
    /\ setup[i] = "handshake"
    /\ setup' = [setup EXCEPT ![i] = "idle"]
    /\ UNCHANGED <<poolVars, dialVars, current_peers, dialer, listening>>

-----------------------------------------------------------------------------
(* The end of a session, by its egress router.                              *)

\* on_peer_event(Disconnect): the capability server forgets the peer.
Teardown(p) ==
    /\ p \in peer_pipes
    /\ peer_pipes' = peer_pipes \ {p}
    /\ UNCHANGED <<mapping, dialVars, loopVars>>

\* Defective variant of DisconnectPeer: the entry goes before the teardown.
DisconnectPeerEarly(p) ==
    /\ mapping[p] = Connected
    /\ mapping' = [mapping EXCEPT ![p] = Vacant]
    /\ UNCHANGED <<peer_pipes, dialVars, loopVars>>

\* disconnect_peer: the entry goes, and with it the session's tasks.
DisconnectPeer(p) ==
    /\ mapping[p] = Connected /\ p \notin peer_pipes
    /\ mapping' = [mapping EXCEPT ![p] = Vacant]
    /\ UNCHANGED <<peer_pipes, dialVars, loopVars>>

-----------------------------------------------------------------------------
Next ==
    \/ \E d \in Dials, p \in Peers : AddPeer(d, p) \/ DialerDiscovered(d, p)
    \/ \E d \in Dials :
         \/ Poll(d) \/ ConnectOk(d) \/ ConnectErr(d) \/ ConnectPanic(d)
         \/ Drop(d) \/ Reap(d) \/ DialTaskEnd(d)
    \/ DialerCheck \/ DialerSkip \/ DialerQuit
    \/ \E i \in Inbound : Accept(i) \/ IncomingErr(i)
    \/ \E i \in Inbound, p \in Peers : IncomingOk(i, p)
    \/ AcceptErr
    \/ \E p \in Peers : Teardown(p) \/ DisconnectPeer(p)

Spec == Init /\ [][Next]_vars

(***************************************************************************)
(* Tasks that are ready are polled (tokio); the dialer's attempts time out *)
(* (DISCOVERY_CONNECT_TIMEOUT_SECS).  Nothing is assumed of remote nodes,  *)
(* of the callers of add_peer, or of when a session ends.                  *)
(***************************************************************************)
Fairness ==
    \A d \in Dials :
        /\ WF_vars(Poll(d) /\ check_peer[d])
        /\ WF_vars(Drop(d) /\ check_peer[d])
        /\ WF_vars(Reap(d))
        /\ WF_vars(DialTaskEnd(d))

FairSpec == Spec /\ Fairness

-----------------------------------------------------------------------------
(* Properties.                                                              *)

(***************************************************************************)
(* The lock is released while an attempt connects.  When it is taken again *)
(* (rlpx.rs:806) the entry is the attempt's own: no reaper of an earlier   *)
(* attempt, no inbound connection and no ending session took it away, so   *)
(* adoption never overwrites another attempt's entry.                      *)
(***************************************************************************)
OwnEntry == \A d \in Dials : pc[d] = "connecting" => mapping[target[d]] = d

(***************************************************************************)
(* A Connecting entry always has somebody who will resolve it: the attempt *)
(* that is still running, or its reaper, which has been told.              *)
(***************************************************************************)
EntryOwned ==
    \A p \in Peers, d \in Dials :
        mapping[p] = d =>
            /\ target[d] = p
            /\ pc[d] = "connecting" \/ rx[d] = "closed"

(***************************************************************************)
(* The capability server has state only for peers that hold a Connected    *)
(* entry, so all_peers() never outlives the table (rlpx.rs:304, 320).      *)
(***************************************************************************)
PipesOwned == \A p \in peer_pipes : mapping[p] = Connected

(***************************************************************************)
(* The entries that had to pass the node filter never outnumber max_peers, *)
(* whatever mixture of dials and inbound connections is in flight between  *)
(* the check and the insertion, and whatever add_peer inserts unchecked.   *)
(***************************************************************************)
PoolLimit == Cardinality(Pool \ ManualPeers) <= MaxPeers

(***************************************************************************)
(* The dialer runs at most one attempt per identity at a time, each        *)
(* accounted for in current_peers (rlpx.rs:659, 670).                      *)
(***************************************************************************)
DialerExclusive ==
    \A d, e \in Dials :
        /\ check_peer[d] /\ pc[d] # "idle"
        /\ check_peer[e] /\ pc[e] # "idle"
        => target[d] \in current_peers /\ (d # e => target[d] # target[e])

(***************************************************************************)
(* dialing() follows the number of attempts that have begun and whose      *)
(* reaper has not run yet (rlpx.rs:745, 753, 842): the two drift apart     *)
(* only where a caller drops an add_peer future before its first poll, a   *)
(* future that never incremented the counter its reaper will decrement.    *)
(***************************************************************************)
Drift ==
    (currently_connecting
        - Cardinality({d \in Dials : rx[d] # "none" /\ pc[d] # "created"})) % CounterMod

DialingCount ==
    [][\/ Drift' = Drift
       \/ \E d \in Dials : ~check_peer[d] /\ pc[d] = "created" /\ pc'[d] = "idle"]_vars

(***************************************************************************)
(* main.rs:126 asserts, when a session is set up, that the capability      *)
(* server has no pipes for the peer: no session starts while the teardown  *)
(* of the previous one is outstanding.                                     *)
(***************************************************************************)
SetupPeerAssert ==
    [][\A p \in Peers :
         mapping[p] # Connected /\ mapping'[p] = Connected => p \notin peer_pipes]_vars

(***************************************************************************)
(* A Connected entry is only ever removed, never replaced, and only after  *)
(* the capability server was told: no reaper and no attempt cuts a live    *)
(* session off (removing the entry cancels its tasks, rlpx.rs:318-320).    *)
(***************************************************************************)
SessionsEndByTeardown ==
    [][\A p \in Peers :
         mapping[p] = Connected /\ mapping'[p] # Connected
            => mapping'[p] = Vacant /\ p \notin peer_pipes]_vars

(***************************************************************************)
(* An entry reserved for an outbound attempt of the dialer is eventually   *)
(* connected or free again, also when the remote node never answers: the   *)
(* attempt's timeout drops the future and the reaper cleans up.            *)
(***************************************************************************)
ReservationEnds ==
    \A p \in Peers \ ManualPeers : mapping[p] \in Dials ~> mapping[p] \notin Dials

(***************************************************************************)
(* The dialer may try an identity again, whether its attempt connected,    *)
(* failed, was refused or timed out, also after tasks of other identities  *)
(* panicked: it does not stay in current_peers for ever (rlpx.rs:661-671). *)
(* An identity whose own handshake is malformed may: the panic skips       *)
(* rlpx.rs:670.                                                            *)
(***************************************************************************)
RedialPossible ==
    \A p \in Peers \ Faulty : p \in current_peers ~> p \notin current_peers

-----------------------------------------------------------------------------
(* The table's promise: each step is a step of PeerTable or changes nothing *)
(* that PeerTable sees.                                                     *)

Phase(p) ==
    IF mapping[p] = Vacant THEN "absent"
    ELSE IF mapping[p] # Connected THEN "dialing"
    ELSE IF p \in peer_pipes THEN "live" ELSE "closing"

Table == INSTANCE PeerTable WITH phase <- [p \in Peers |-> Phase(p)]

(***************************************************************************)
(* The node implements the life cycle of PeerTable for every peer at once, *)
(* including its bound: reservation, adoption, inbound admission, teardown *)
(* and removal happen in that order and a full table admits nobody but     *)
(* manual peers.                                                           *)
(***************************************************************************)
ImplementsPeerTable == Table!Spec

==============================================================================
