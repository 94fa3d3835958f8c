-------------------------- MODULE SentryServiceProofs --------------------------
(***************************************************************************)
(* Proofs about SentryService for any peers, any number of concurrent      *)
(* calls, any block numbers and any number of sessions.                    *)
(***************************************************************************)
EXTENDS SentryService, TLAPS

-----------------------------------------------------------------------------
(* The block tracker by itself, for any peers and any block numbers.        *)

(***************************************************************************)
(* The inductive invariant: the agreement of the maps is inductive once    *)
(* they have their types.                                                  *)
(***************************************************************************)
TrackerInv == TrackerTypeOK /\ MapsAgree

(***************************************************************************)
(* An empty tracker satisfies it (main.rs:62-66).                          *)
(***************************************************************************)
LEMMA TrackerInitInv == TrackerInit => TrackerInv
  BY TrackerAssumption DEF TrackerInit, TrackerInv, TrackerTypeOK, MapsAgree

(***************************************************************************)
(* Taking a peer out of the set of its old block leaves it in no set and   *)
(* every other peer where it was (main.rs:70-78, 83-91).                   *)
(***************************************************************************)
LEMMA ForgottenEverywhere ==
    ASSUME TrackerInv, NEW p \in Peers
    PROVE  /\ Forgotten(p) \in [Blocks -> SUBSET Peers]
           /\ \A b \in Blocks : Forgotten(p)[b] = peers_by_block[b] \ {p}
  <1>1. \A b \in Blocks : block_by_peer[p] # b => p \notin peers_by_block[b]
    BY DEF TrackerInv, MapsAgree
  <1> QED
    BY <1>1 DEF TrackerInv, TrackerTypeOK, Forgotten

(***************************************************************************)
(* set_block_number preserves the agreement, for a peer that had the same  *)
(* block, another one or none (main.rs:69-80).                             *)
(***************************************************************************)
LEMMA SetBlockNumberInv ==
    ASSUME TrackerInv, NEW p \in Peers, NEW block \in Blocks, SetBlockNumber(p, block)
    PROVE  TrackerInv'
  <1>1. /\ Forgotten(p) \in [Blocks -> SUBSET Peers]
        /\ \A b \in Blocks : Forgotten(p)[b] = peers_by_block[b] \ {p}
    BY ForgottenEverywhere
  <1>2. /\ block_by_peer' = [block_by_peer EXCEPT ![p] = block]
        /\ peers_by_block' = [Forgotten(p) EXCEPT ![block] = @ \cup {p}]
    BY DEF SetBlockNumber
  <1>3. TrackerTypeOK'
    BY <1>1, <1>2 DEF TrackerInv, TrackerTypeOK
  <1>4. ASSUME NEW q \in Peers, NEW b \in Blocks
        PROVE  q \in peers_by_block'[b] <=> block_by_peer'[q] = b
    <2>1. q \in peers_by_block[b] <=> block_by_peer[q] = b
      BY DEF TrackerInv, MapsAgree
    <2>2. CASE q = p
      BY <1>1, <1>2, <2>2 DEF TrackerInv, TrackerTypeOK
    <2>3. CASE q # p
      BY <1>1, <1>2, <2>1, <2>3 DEF TrackerInv, TrackerTypeOK
    <2> QED
      BY <2>2, <2>3
  <1> QED
    BY <1>3, <1>4 DEF TrackerInv, MapsAgree

(***************************************************************************)
(* remove_peer preserves it, also for a peer that is not there             *)
(* (main.rs:82-92).                                                        *)
(***************************************************************************)
LEMMA RemovePeerInv ==
    ASSUME TrackerInv, NEW p \in Peers, RemovePeer(p)
    PROVE  TrackerInv'
  <1>1. /\ Forgotten(p) \in [Blocks -> SUBSET Peers]
        /\ \A b \in Blocks : Forgotten(p)[b] = peers_by_block[b] \ {p}
    BY ForgottenEverywhere
  <1>2. TrackerTypeOK'
    BY <1>1 DEF RemovePeer, TrackerInv, TrackerTypeOK
  <1>3. MapsAgree'
    BY <1>1, TrackerAssumption DEF RemovePeer, TrackerInv, TrackerTypeOK, MapsAgree
  <1> QED
    BY <1>2, <1>3 DEF TrackerInv

(***************************************************************************)
(* The invariant holds after any sequence of updates and removals.         *)
(***************************************************************************)
THEOREM TrackerInvHolds == TrackerSpec => []TrackerInv
  <1>1. TrackerInv /\ [TrackerNext]_trackerVars => TrackerInv'
    <2> SUFFICES ASSUME TrackerInv, [TrackerNext]_trackerVars
                 PROVE  TrackerInv'
      OBVIOUS
    <2>1. ASSUME NEW p \in Peers, RemovePeer(p)
          PROVE  TrackerInv'
      BY <2>1, RemovePeerInv
    <2>2. ASSUME NEW p \in Peers, NEW b \in Blocks, SetBlockNumber(p, b)
          PROVE  TrackerInv'
      BY <2>2, SetBlockNumberInv
    <2>3. CASE UNCHANGED trackerVars
      BY <2>3 DEF trackerVars, TrackerInv, TrackerTypeOK, MapsAgree
    <2> QED
      BY <2>1, <2>2, <2>3 DEF TrackerNext
  <1> QED
    BY TrackerInitInv, <1>1, PTL DEF TrackerSpec

(***************************************************************************)
(* The two maps agree for every set of peers and blocks, although they are *)
(* written one after the other (main.rs:69-92).                            *)
(***************************************************************************)
THEOREM MapsAlwaysAgree == TrackerSpec => []MapsAgree
  <1>1. TrackerInv => MapsAgree
    BY DEF TrackerInv
  <1> QED
    BY TrackerInvHolds, <1>1, PTL

(***************************************************************************)
(* The range query finds exactly the peers at or above the bound, for      *)
(* every bound (main.rs:94-101).                                           *)
(***************************************************************************)
THEOREM QueryAlwaysCorrect == TrackerSpec => []QueryCorrect
  <1>1. TrackerInv => QueryCorrect
    <2> SUFFICES ASSUME TrackerInv, NEW min \in Blocks
                 PROVE  PeersWithMinBlock(min) =
                          {p \in Peers : block_by_peer[p] # NoBlock
                                           /\ block_by_peer[p] >= min}
      BY DEF QueryCorrect
    <2>1. \A p \in Peers : block_by_peer[p] # NoBlock => block_by_peer[p] \in Blocks
      BY DEF TrackerInv, TrackerTypeOK
    <2>2. \A b \in Blocks : peers_by_block[b] = {p \in Peers : block_by_peer[p] = b}
      BY DEF TrackerInv, TrackerTypeOK, MapsAgree
    <2>3. \A b \in Blocks : b # NoBlock
      BY TrackerAssumption
    <2> QED
      BY <2>1, <2>2, <2>3 DEF PeersWithMinBlock
  <1> QED
    BY TrackerInvHolds, <1>1, PTL

-----------------------------------------------------------------------------
(* The service and its sessions.                                            *)

(***************************************************************************)
(* The sessions and the block tracker.  A session sets its peer up only    *)
(* after the previous egress router is gone, so a peer with pipes has a    *)
(* live router (main.rs:121-137, 139-147).                                 *)
(***************************************************************************)
PeersInv ==
    /\ TrackerInv
    /\ piped \subseteq alive /\ alive \subseteq Peers
    /\ piped = {p \in Peers : block_by_peer[p] # NoBlock}

(***************************************************************************)
(* The futures of the calls: an idle call has none, and each has delivered *)
(* exactly what it reports (sentry.rs:45-90).                              *)
(***************************************************************************)
FutureStates == {"none", "lookup", "wait", "sent", "failed"}

CallsTypeOK ==
    /\ call \in [Calls -> {"idle", "running"}]
    /\ fut \in [Calls -> [Peers -> FutureStates]]
    /\ sender \in [Calls -> [Peers -> Nat]]
    /\ delivered \in [Calls -> [Peers -> SUBSET Nat]]
    /\ session \in [Peers -> Nat]

IdleHasNoFutures ==
    \A c \in Calls, p \in Peers : call[c] = "idle" => fut[c][p] = "none"

CallsInv == CallsTypeOK /\ IdleHasNoFutures /\ SentExactlyOnce

(***************************************************************************)
(* What the calls and the channels do leaves the tables alone; a session   *)
(* that starts or ends updates pipes and tracker together.                 *)
(***************************************************************************)
LEMMA TableSteps ==
    ASSUME [Next]_vars
    PROVE  \/ UNCHANGED <<trackerVars, piped, alive>>
           \/ \E p \in Peers : SetupPeer(p) \/ TeardownPeer(p) \/ SessionEnd(p)
  <1>1. ASSUME NEW c \in Calls, CallNext(c) PROVE UNCHANGED <<trackerVars, piped, alive>>
    BY <1>1 DEF CallNext, SendMessageByMinBlock, SendMessageById, PenalizePeer,
                SendMessageToAll, SendMessageToRandomPeers, Start, Lookup, Deliver,
                Closed, Answer, sessionVars
  <1>2. ASSUME NEW p \in Peers, Reply(p) \/ Take(p)
        PROVE  UNCHANGED <<trackerVars, piped, alive>>
    BY <1>2 DEF Reply, Take
  <1> QED
    BY <1>1, <1>2 DEF Next, vars, sessionVars

(***************************************************************************)
(* Pipes, tracker and egress routers name the same peers at every step.    *)
(***************************************************************************)
THEOREM PeersInvHolds == Spec => []PeersInv
  <1>1. Init => PeersInv
    <2> SUFFICES ASSUME Init PROVE PeersInv
      OBVIOUS
    <2>1. TrackerInv
      BY TrackerInitInv DEF Init
    <2> QED
      BY <2>1 DEF Init, TrackerInit, PeersInv
  <1>2. ASSUME PeersInv, [Next]_vars PROVE PeersInv'
    <2> USE <1>2 DEF PeersInv
    <2>1. ASSUME NEW p \in Peers, SetupPeer(p) PROVE PeersInv'
      <3>1. TrackerInv'
        BY <2>1, SetBlockNumberInv, TrackerAssumption DEF SetupPeer
      <3>2. block_by_peer' = [block_by_peer EXCEPT ![p] = 0] /\ 0 # NoBlock
        BY <2>1, TrackerAssumption DEF SetupPeer, SetBlockNumber
      <3>3. piped' = {q \in Peers : block_by_peer'[q] # NoBlock}
        BY <2>1, <3>2 DEF SetupPeer, TrackerInv, TrackerTypeOK
      <3> QED
        BY <2>1, <3>1, <3>3 DEF SetupPeer
    <2>2. ASSUME NEW p \in Peers, TeardownPeer(p) PROVE PeersInv'
      <3>1. TrackerInv'
        BY <2>2, RemovePeerInv DEF TeardownPeer
      <3>2. block_by_peer' = [block_by_peer EXCEPT ![p] = NoBlock]
        BY <2>2 DEF TeardownPeer, RemovePeer
      <3>3. piped' = {q \in Peers : block_by_peer'[q] # NoBlock}
        BY <2>2, <3>2 DEF TeardownPeer, TrackerInv, TrackerTypeOK
      <3> QED
        BY <2>2, <3>1, <3>3 DEF TeardownPeer
    <2>3. ASSUME NEW p \in Peers, SessionEnd(p) PROVE PeersInv'
      BY <2>3 DEF SessionEnd, trackerVars, TrackerInv, TrackerTypeOK, MapsAgree
    <2>4. CASE UNCHANGED <<trackerVars, piped, alive>>
      BY <2>4 DEF trackerVars, TrackerInv, TrackerTypeOK, MapsAgree
    <2> QED
      BY <2>1, <2>2, <2>3, <2>4, TableSteps
  <1> QED
    BY <1>1, <1>2, PTL DEF Spec

(***************************************************************************)
(* The service uses the block tracker as TrackerSpec allows, so what is    *)
(* proved of the tracker alone holds inside the service.                   *)
(***************************************************************************)
THEOREM ServiceUsesTracker == Spec => TrackerSpec
  <1>1. Init => TrackerInit
    BY DEF Init
  <1>2. [Next]_vars => [TrackerNext]_trackerVars
    <2> SUFFICES ASSUME [Next]_vars PROVE [TrackerNext]_trackerVars
      OBVIOUS
    <2>1. ASSUME NEW p \in Peers, SetupPeer(p) PROVE TrackerNext
      BY <2>1, TrackerAssumption DEF SetupPeer, TrackerNext
    <2>2. ASSUME NEW p \in Peers, TeardownPeer(p) PROVE TrackerNext
      BY <2>2 DEF TeardownPeer, TrackerNext
    <2>3. ASSUME NEW p \in Peers, SessionEnd(p) PROVE UNCHANGED trackerVars
      BY <2>3 DEF SessionEnd
    <2> QED
      BY <2>1, <2>2, <2>3, TableSteps
  <1> QED
    BY <1>1, <1>2, PTL DEF Spec, TrackerSpec

(***************************************************************************)
(* SendMessageByMinBlock with bound 0 selects the peers SendMessageToAll   *)
(* selects: tracker and pipes never disagree on who is there.              *)
(***************************************************************************)
THEOREM TrackerAlwaysFollowsPipes == Spec => []TrackerFollowsPipes
  <1>1. PeersInv /\ QueryCorrect => TrackerFollowsPipes
    <2> SUFFICES ASSUME PeersInv, QueryCorrect PROVE TrackerFollowsPipes
      OBVIOUS
    <2>1. PeersWithMinBlock(0) =
            {p \in Peers : block_by_peer[p] # NoBlock /\ block_by_peer[p] >= 0}
      BY TrackerAssumption DEF QueryCorrect
    <2>2. \A p \in Peers : block_by_peer[p] # NoBlock => block_by_peer[p] \in Blocks
      BY DEF PeersInv, TrackerInv, TrackerTypeOK
    <2>3. \A b \in Blocks : b >= 0
      BY TrackerAssumption
    <2> QED
      BY <2>1, <2>2, <2>3 DEF PeersInv, TrackerFollowsPipes
  <1> QED
    BY <1>1, PeersInvHolds, ServiceUsesTracker, QueryAlwaysCorrect, PTL

(***************************************************************************)
(* An update of one future's cell changes that cell only; writing a cell's *)
(* own value changes nothing.                                              *)
(***************************************************************************)
LEMMA CellUpdate ==
    ASSUME NEW T, NEW f \in [Calls -> [Peers -> T]],
           NEW c \in Calls, NEW p \in Peers, NEW x \in T
    PROVE  /\ [f EXCEPT ![c][p] = x] \in [Calls -> [Peers -> T]]
           /\ \A d \in Calls, q \in Peers :
                [f EXCEPT ![c][p] = x][d][q] = IF d = c /\ q = p THEN x ELSE f[d][q]
           /\ f = [f EXCEPT ![c][p] = f[c][p]]
  OBVIOUS

(***************************************************************************)
(* The future of call c for peer p goes to state s with the session n in   *)
(* hand, and its deliveries are then those of x.                           *)
(***************************************************************************)
FutureMoves(c, p, s, n, x) ==
    /\ fut[c][p] \in {"lookup", "wait"} /\ s \in FutureStates /\ n \in Nat
    /\ x \in SUBSET Nat /\ x = IF s = "sent" THEN {n} ELSE {}
    /\ fut' = [fut EXCEPT ![c][p] = s]
    /\ sender' = [sender EXCEPT ![c][p] = n]
    /\ delivered' = [delivered EXCEPT ![c][p] = x]
    /\ UNCHANGED <<call, session>>

(***************************************************************************)
(* A future that takes its next step keeps the invariant if the message is *)
(* delivered to the session it holds exactly when it counts as sent.       *)
(***************************************************************************)
LEMMA FutureStep ==
    ASSUME CallsInv, NEW c \in Calls, NEW p \in Peers, NEW s, NEW n, NEW x,
           FutureMoves(c, p, s, n, x)
    PROVE  CallsInv'
  <1>0. /\ fut[c][p] \in {"lookup", "wait"} /\ s \in FutureStates /\ n \in Nat
        /\ x \in SUBSET Nat /\ x = IF s = "sent" THEN {n} ELSE {}
        /\ fut' = [fut EXCEPT ![c][p] = s]
        /\ sender' = [sender EXCEPT ![c][p] = n]
        /\ delivered' = [delivered EXCEPT ![c][p] = x]
        /\ UNCHANGED <<call, session>>
    BY DEF FutureMoves
  <1>1. /\ fut' \in [Calls -> [Peers -> FutureStates]]
        /\ \A d \in Calls, q \in Peers :
             fut'[d][q] = IF d = c /\ q = p THEN s ELSE fut[d][q]
    BY <1>0, CellUpdate DEF CallsInv, CallsTypeOK
  <1>2. /\ sender' \in [Calls -> [Peers -> Nat]]
        /\ \A d \in Calls, q \in Peers :
             sender'[d][q] = IF d = c /\ q = p THEN n ELSE sender[d][q]
    BY <1>0, CellUpdate DEF CallsInv, CallsTypeOK
  <1>3. delivered \in [Calls -> [Peers -> SUBSET Nat]]
    BY DEF CallsInv, CallsTypeOK
  <1>4. /\ delivered' \in [Calls -> [Peers -> SUBSET Nat]]
        /\ \A d \in Calls, q \in Peers :
             delivered'[d][q] = IF d = c /\ q = p THEN x ELSE delivered[d][q]
    BY <1>0, <1>3
  <1>5. CallsTypeOK'
    BY <1>0, <1>1, <1>2, <1>4 DEF CallsInv, CallsTypeOK
  <1>6. IdleHasNoFutures'
    BY <1>0, <1>1 DEF CallsInv, IdleHasNoFutures
  <1>7. ASSUME NEW d \in Calls, NEW q \in Peers
        PROVE  delivered'[d][q] = IF fut'[d][q] = "sent" THEN {sender'[d][q]} ELSE {}
    <2>1. CASE d = c /\ q = p
      BY <1>0, <1>1, <1>2, <1>4, <2>1
    <2>2. CASE d # c \/ q # p
      <3>1. delivered[d][q] = IF fut[d][q] = "sent" THEN {sender[d][q]} ELSE {}
        BY DEF CallsInv, SentExactlyOnce
      <3>2. /\ delivered'[d][q] = delivered[d][q] /\ fut'[d][q] = fut[d][q]
            /\ sender'[d][q] = sender[d][q]
        BY <1>1, <1>2, <1>4, <2>2
      <3> QED
        BY <3>1, <3>2
    <2> QED
      BY <2>1, <2>2
  <1> QED
    BY <1>5, <1>6, <1>7 DEF CallsInv, SentExactlyOnce

(***************************************************************************)
(* However many calls run at once, and however often a peer reconnects     *)
(* meanwhile, a message goes to the session it was looked up in or to none *)
(* and is reported accordingly (sentry.rs:45-90).                          *)
(***************************************************************************)
THEOREM MessagesSentExactlyOnce == Spec => []SentExactlyOnce
  <1>1. Init => CallsInv
    BY DEF Init, CallsInv, CallsTypeOK, IdleHasNoFutures, SentExactlyOnce, FutureStates
  <1>2. ASSUME CallsInv, [Next]_vars PROVE CallsInv'
    <2>0. CallsTypeOK /\ IdleHasNoFutures /\ SentExactlyOnce
      BY <1>2 DEF CallsInv
    <2>1. ASSUME NEW c \in Calls, NEW peers, Start(c, peers) PROVE CallsInv'
      <3>1. CallsTypeOK'
        BY <2>0, <2>1 DEF Start, CallsTypeOK, sessionVars, FutureStates
      <3>2. IdleHasNoFutures'
        BY <2>0, <2>1 DEF Start, CallsTypeOK, IdleHasNoFutures
      <3>3. SentExactlyOnce'
        BY <2>0, <2>1 DEF Start, CallsTypeOK, IdleHasNoFutures, SentExactlyOnce
      <3> QED
        BY <3>1, <3>2, <3>3 DEF CallsInv
    <2>2. ASSUME NEW c \in Calls, NEW p \in Peers,
                 fut[c][p] \in {"lookup", "wait"}, delivered' = delivered
          PROVE  delivered' = [delivered EXCEPT ![c][p] = {}]
      <3>1. delivered[c][p] = {}
        BY <2>0, <2>2 DEF SentExactlyOnce
      <3>2. delivered = [delivered EXCEPT ![c][p] = delivered[c][p]]
        BY <2>0, CellUpdate DEF CallsTypeOK
      <3> QED
        BY <2>2, <3>1, <3>2
    <2>3. ASSUME NEW c \in Calls, NEW p \in Peers, sender' = sender
          PROVE  sender[c][p] \in Nat /\ sender' = [sender EXCEPT ![c][p] = sender[c][p]]
      <3>1. sender \in [Calls -> [Peers -> Nat]] /\ sender[c][p] \in Nat
        BY <2>0 DEF CallsTypeOK
      <3> QED
        BY <2>3, <3>1, CellUpdate
    <2>4. ASSUME NEW c \in Calls, NEW p \in Peers, Lookup(c, p) PROVE CallsInv'
      <3>1. fut[c][p] = "lookup" /\ UNCHANGED <<call, session, delivered>>
        BY <2>4 DEF Lookup, sessionVars
      <3>2. CASE p \in piped
        <4>1. /\ fut' = [fut EXCEPT ![c][p] = "wait"]
              /\ sender' = [sender EXCEPT ![c][p] = session[p]]
          BY <2>4, <3>2 DEF Lookup
        <4>2. session[p] \in Nat
          BY <2>0 DEF CallsTypeOK
        <4>3. FutureMoves(c, p, "wait", session[p], {})
          BY <2>2, <3>1, <4>1, <4>2 DEF FutureMoves, FutureStates
        <4> QED
          BY <1>2, <4>3, FutureStep
      <3>3. CASE p \notin piped
        <4>1. fut' = [fut EXCEPT ![c][p] = "failed"] /\ sender' = sender
          BY <2>4, <3>3 DEF Lookup
        <4>2. sender[c][p] \in Nat /\ sender' = [sender EXCEPT ![c][p] = sender[c][p]]
          BY <2>3, <4>1
        <4>3. delivered' = [delivered EXCEPT ![c][p] = {}]
          BY <2>2, <3>1
        <4>4. FutureMoves(c, p, "failed", sender[c][p], {})
          BY <3>1, <4>1, <4>2, <4>3 DEF FutureMoves, FutureStates
        <4> QED
          BY <1>2, <4>4, FutureStep
      <3> QED
        BY <3>2, <3>3
    <2>5. ASSUME NEW c \in Calls, NEW p \in Peers, Deliver(c, p) PROVE CallsInv'
      <3>1. /\ fut[c][p] = "wait" /\ session[p] = sender[c][p]
            /\ fut' = [fut EXCEPT ![c][p] = "sent"]
            /\ delivered' = [delivered EXCEPT ![c][p] = delivered[c][p] \cup {session[p]}]
            /\ UNCHANGED <<call, session, sender>>
        BY <2>0, <2>5 DEF Deliver, Reachable, CallsTypeOK
      <3>2. delivered[c][p] \cup {session[p]} = {sender[c][p]}
        BY <2>0, <3>1 DEF SentExactlyOnce
      <3>3. delivered' = [delivered EXCEPT ![c][p] = {sender[c][p]}]
        BY <3>1, <3>2
      <3>4. sender[c][p] \in Nat /\ sender' = [sender EXCEPT ![c][p] = sender[c][p]]
        BY <2>3, <3>1
      <3>5. FutureMoves(c, p, "sent", sender[c][p], {sender[c][p]})
        BY <3>1, <3>3, <3>4 DEF FutureMoves, FutureStates
      <3> QED
        BY <1>2, <3>5, FutureStep
    <2>6. ASSUME NEW c \in Calls, NEW p \in Peers, Closed(c, p) PROVE CallsInv'
      <3>1. /\ fut[c][p] = "wait" /\ fut' = [fut EXCEPT ![c][p] = "failed"]
            /\ UNCHANGED <<call, session, sender, delivered>>
        BY <2>6 DEF Closed, sessionVars
      <3>2. sender[c][p] \in Nat /\ sender' = [sender EXCEPT ![c][p] = sender[c][p]]
        BY <2>3, <3>1
      <3>3. delivered' = [delivered EXCEPT ![c][p] = {}]
        BY <2>2, <3>1
      <3>4. FutureMoves(c, p, "failed", sender[c][p], {})
        BY <3>1, <3>2, <3>3 DEF FutureMoves, FutureStates
      <3> QED
        BY <1>2, <3>4, FutureStep
    <2>7. ASSUME NEW c \in Calls, Answer(c) PROVE CallsInv'
      <3>1. CallsTypeOK'
        BY <2>0, <2>7 DEF Answer, CallsTypeOK, sessionVars, FutureStates
      <3>2. IdleHasNoFutures'
        BY <2>0, <2>7 DEF Answer, CallsTypeOK, IdleHasNoFutures
      <3>3. SentExactlyOnce'
        BY <2>0, <2>7 DEF Answer, CallsTypeOK, SentExactlyOnce
      <3> QED
        BY <3>1, <3>2, <3>3 DEF CallsInv
    <2>8. ASSUME NEW p \in Peers, SetupPeer(p) PROVE CallsInv'
      <3>1. session' \in [Peers -> Nat] /\ UNCHANGED <<call, fut, sender, delivered>>
        BY <2>0, <2>8 DEF SetupPeer, CallsTypeOK, serviceVars
      <3> QED
        BY <2>0, <3>1 DEF CallsInv, CallsTypeOK, IdleHasNoFutures, SentExactlyOnce
    <2>9. CASE UNCHANGED <<call, fut, sender, session, delivered>>
      BY <2>0, <2>9 DEF CallsInv, CallsTypeOK, IdleHasNoFutures, SentExactlyOnce
    <2>10. ASSUME NEW p \in Peers, Reply(p) \/ Take(p) \/ TeardownPeer(p) \/ SessionEnd(p)
           PROVE  UNCHANGED <<call, fut, sender, session, delivered>>
      BY <2>10 DEF Reply, Take, TeardownPeer, SessionEnd, serviceVars
    <2>11. ASSUME NEW c \in Calls, CallNext(c) PROVE CallsInv'
      BY <2>1, <2>4, <2>5, <2>6, <2>7, <2>11
      DEF CallNext, SendMessageByMinBlock, SendMessageById, PenalizePeer,
          SendMessageToAll, SendMessageToRandomPeers
    <2> QED
      BY <1>2, <2>8, <2>9, <2>10, <2>11 DEF Next, vars, serviceVars, sessionVars
  <1>3. CallsInv => SentExactlyOnce
    BY DEF CallsInv
  <1> QED
    BY <1>1, <1>2, <1>3, PTL DEF Spec

==============================================================================
