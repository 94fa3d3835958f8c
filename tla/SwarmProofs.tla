----------------------------- MODULE SwarmProofs -----------------------------
(***************************************************************************)
(* Proofs about Swarm for any number of peers, dials and inbound slots,    *)
(* any max_peers, any set of manual peers and any counter width.           *)
(***************************************************************************)
EXTENDS Swarm, FiniteSetTheorems, TLAPS

(***************************************************************************)
(* The oneshot is open exactly while the future is alive.  Needed because  *)
(* a reaper acts on the oneshot, not on the future's own state.            *)
(***************************************************************************)
OneshotFollowsFuture ==
    \A d \in Dials : rx[d] = "open" <=> pc[d] \in {"created", "connecting"}

(***************************************************************************)
(* Only add_peer starts attempts that skip the node filter.                *)
(***************************************************************************)
UncheckedAreManual ==
    \A d \in Dials : pc[d] # "idle" /\ ~check_peer[d] => target[d] \in ManualPeers

(***************************************************************************)
(* The inductive invariant.  OwnEntry is not inductive alone: without      *)
(* EntryOwned a fresh attempt could share its id with a left-over entry,   *)
(* and without OneshotFollowsFuture a reaper could act on a live attempt.  *)
(***************************************************************************)
IInv ==
    /\ TypeOK
    /\ OneshotFollowsFuture
    /\ UncheckedAreManual
    /\ OwnEntry
    /\ EntryOwned
    /\ PipesOwned

(***************************************************************************)
(* A new node satisfies the invariant (rlpx.rs:619-630).                   *)
(***************************************************************************)
LEMMA InitIInv == Init => IInv
  <1> SUFFICES ASSUME Init PROVE IInv
    OBVIOUS
  <1> USE DEF Init
  <1>1. TypeOK
    BY BoundsAssumption DEF TypeOK
  <1>2. /\ OneshotFollowsFuture /\ UncheckedAreManual
        /\ OwnEntry /\ EntryOwned /\ PipesOwned
    BY EntryAssumption DEF OneshotFollowsFuture, UncheckedAreManual, OwnEntry,
                           EntryOwned, PipesOwned
  <1> QED
    BY <1>1, <1>2 DEF IInv

(***************************************************************************)
(* Arithmetic of currently_connecting: both updates stay in the range of   *)
(* the wrapping counter (rlpx.rs:745, 753).                                *)
(***************************************************************************)
LEMMA CounterRange ==
    ASSUME NEW n \in 0 .. CounterMod - 1
    PROVE  /\ (n + 1) % CounterMod \in 0 .. CounterMod - 1
           /\ (n + CounterMod - 1) % CounterMod \in 0 .. CounterMod - 1
  BY BoundsAssumption

(***************************************************************************)
(* Every step of the node preserves the invariant, action by action.       *)
(***************************************************************************)
LEMMA NextIInv == IInv /\ [Next]_vars => IInv'
  <1> SUFFICES ASSUME IInv, [Next]_vars PROVE IInv'
    OBVIOUS
  <1> USE EntryAssumption DEF IInv, TypeOK, OneshotFollowsFuture,
                              UncheckedAreManual, OwnEntry, EntryOwned, PipesOwned, poolVars, loopVars, dialVars
  <1>1. ASSUME NEW d \in Dials, NEW p \in Peers, AddPeer(d, p)
        PROVE  IInv'
    BY <1>1 DEF AddPeer, AddPeerInner
  <1>2. ASSUME NEW d \in Dials, NEW p \in Peers, DialerDiscovered(d, p)
        PROVE  IInv'
    BY <1>2 DEF DialerDiscovered, AddPeerInner
  <1>3. ASSUME NEW d \in Dials, Poll(d)
        PROVE  IInv'
    <2>1. currently_connecting' \in 0 .. CounterMod - 1
      BY <1>3, CounterRange DEF Poll
    <2>2. CASE mapping' = [mapping EXCEPT ![target[d]] = d]
      BY <1>3, <2>1, <2>2 DEF Poll, Finish
    <2>3. CASE mapping' = mapping
      BY <1>3, <2>1, <2>3 DEF Poll, Finish
    <2> QED
      BY <1>3, <2>2, <2>3 DEF Poll
  <1>4. ASSUME NEW d \in Dials, ConnectOk(d)
        PROVE  IInv'
    BY <1>4 DEF ConnectOk, Adoptable, SetupPeerState, Finish
  <1>5. ASSUME NEW d \in Dials, ConnectErr(d)
        PROVE  IInv'
    BY <1>5 DEF ConnectErr, Adoptable, Finish
  <1>6. ASSUME NEW d \in Dials, Drop(d)
        PROVE  IInv'
    BY <1>6 DEF Drop, Finish
  <1>7. ASSUME NEW d \in Dials, ConnectPanic(d)
         PROVE  IInv'
    BY <1>7 DEF ConnectPanic
  <1>8. ASSUME NEW d \in Dials, Reap(d)
        PROVE  IInv'
    <2>1. currently_connecting' \in 0 .. CounterMod - 1
      BY <1>8, CounterRange DEF Reap, Decremented
    <2> QED
      BY <1>8, <2>1 DEF Reap, ReapRest
  <1>9. ASSUME NEW d \in Dials, DialTaskEnd(d)
        PROVE  IInv'
    BY <1>9 DEF DialTaskEnd
  <1>10. CASE DialerCheck \/ DialerSkip \/ DialerQuit \/ AcceptErr
    <2>1. UNCHANGED <<poolVars, dialVars, current_peers, setup>>
      BY <1>10 DEF DialerCheck, DialerSkip, DialerQuit, AcceptErr
    <2>2. dialer' \in {"check", "discover", "quit"} /\ listening' \in BOOLEAN
      BY <1>10 DEF DialerCheck, DialerSkip, DialerQuit, AcceptErr
    <2> QED
      BY <2>1, <2>2
  <1>11. ASSUME NEW i \in Inbound, Accept(i) \/ IncomingErr(i)
         PROVE  IInv'
    BY <1>11 DEF Accept, IncomingErr
  <1>12. ASSUME NEW i \in Inbound, NEW p \in Peers, IncomingOk(i, p)
         PROVE  IInv'
    BY <1>12 DEF IncomingOk, SetupPeerState
  <1>13. ASSUME NEW p \in Peers, Teardown(p)
         PROVE  IInv'
    BY <1>13 DEF Teardown
  <1>14. ASSUME NEW p \in Peers, DisconnectPeer(p)
         PROVE  IInv'
    BY <1>14 DEF DisconnectPeer
  <1>15. CASE UNCHANGED vars
    BY <1>15 DEF vars
  <1> QED
    BY <1>1, <1>2, <1>3, <1>4, <1>5, <1>6, <1>7, <1>8, <1>9, <1>10, <1>11, <1>12,
       <1>13, <1>14, <1>15 DEF Next

(***************************************************************************)
(* Hence the invariant holds in every behaviour of the node.               *)
(***************************************************************************)
THEOREM IInvHolds == Spec => []IInv
  <1> QED
    BY InitIInv, NextIInv, PTL DEF Spec

(***************************************************************************)
(* Type correctness of the peer table and its counter.                     *)
(***************************************************************************)
THEOREM TypeCorrect == Spec => []TypeOK
  <1>1. IInv => TypeOK
    BY DEF IInv
  <1> QED
    BY IInvHolds, <1>1, PTL

(***************************************************************************)
(* When an attempt takes the lock again, the entry is its own              *)
(* (rlpx.rs:806-811): the final Ok(false) of add_peer_inner is dead code.  *)
(***************************************************************************)
THEOREM AdoptionFindsOwnEntry == Spec => []OwnEntry
  <1>1. IInv => OwnEntry
    BY DEF IInv
  <1> QED
    BY IInvHolds, <1>1, PTL

(***************************************************************************)
(* No Connecting entry is orphaned (rlpx.rs:726-747).                      *)
(***************************************************************************)
THEOREM NoOrphanedEntry == Spec => []EntryOwned
  <1>1. IInv => EntryOwned
    BY DEF IInv
  <1> QED
    BY IInvHolds, <1>1, PTL

(***************************************************************************)
(* The capability server has state only for connected peers.               *)
(***************************************************************************)
THEOREM PipesOnlyWhenConnected == Spec => []PipesOwned
  <1>1. IInv => PipesOwned
    BY DEF IInv
  <1> QED
    BY IInvHolds, <1>1, PTL

(***************************************************************************)
(* The assertion of setup_peer (main.rs:126) never fails: a session starts *)
(* only on an entry that is not Connected, and such a peer has no pipes.   *)
(***************************************************************************)
THEOREM SetupPeerAssertHolds == Spec => SetupPeerAssert
  <1>1. IInv => \A p \in Peers : mapping[p] # Connected => p \notin peer_pipes
    BY DEF IInv, PipesOwned
  <1>2. IInv /\ [Next]_vars =>
          [\A p \in Peers :
             mapping[p] # Connected /\ mapping'[p] = Connected => p \notin peer_pipes]_vars
    BY <1>1
  <1> QED
    BY IInvHolds, <1>2, PTL DEF Spec, SetupPeerAssert

(***************************************************************************)
(* Only disconnect_peer removes a Connected entry, after the teardown.     *)
(***************************************************************************)
THEOREM SessionsEndByTeardownHolds == Spec => SessionsEndByTeardown
  <1> DEFINE Ends(p) == mapping[p] = Connected /\ mapping'[p] # Connected
                          => mapping'[p] = Vacant /\ p \notin peer_pipes
  <1>1. ASSUME IInv, Next, NEW p \in Peers
        PROVE  Ends(p)
    <2> USE EntryAssumption DEF IInv, TypeOK, OwnEntry
    <2>1. CASE UNCHANGED mapping
      BY <2>1
    <2>2. ASSUME NEW d \in Dials, Poll(d) PROVE Ends(p)
      BY <1>1, <2>2 DEF Poll
    <2>3. ASSUME NEW d \in Dials, ConnectOk(d) PROVE Ends(p)
      BY <1>1, <2>3 DEF ConnectOk, SetupPeerState, poolVars
    <2>4. ASSUME NEW d \in Dials, ConnectErr(d) PROVE Ends(p)
      BY <1>1, <2>4 DEF ConnectErr
    <2>5. ASSUME NEW d \in Dials, Reap(d) PROVE Ends(p)
      BY <1>1, <2>5 DEF Reap
    <2>6. ASSUME NEW i \in Inbound, NEW q \in Peers, IncomingOk(i, q) PROVE Ends(p)
      BY <1>1, <2>6 DEF IncomingOk, SetupPeerState, poolVars
    <2>7. ASSUME NEW q \in Peers, DisconnectPeer(q) PROVE Ends(p)
      BY <1>1, <2>7 DEF DisconnectPeer
    <2> QED
      BY <1>1, <2>1, <2>2, <2>3, <2>4, <2>5, <2>6, <2>7
      DEF Next, AddPeer, AddPeerInner, DialerDiscovered, Drop, ConnectPanic, DialTaskEnd, DialerCheck,
          DialerSkip, DialerQuit, AcceptErr, Accept, IncomingErr, Teardown, poolVars
  <1>2. IInv /\ [Next]_vars => [\A p \in Peers : Ends(p)]_vars
    BY <1>1
  <1> QED
    BY IInvHolds, <1>2, PTL DEF Spec, SessionsEndByTeardown

-----------------------------------------------------------------------------
(* The bound on the table.                                                  *)

(***************************************************************************)
(* One step adds at most one entry; a step that adds one is either a       *)
(* manual attempt or saw a table with room under the same lock             *)
(* (rlpx.rs:391-401, 756-774).                                             *)
(***************************************************************************)
LEMMA PoolStep ==
    ASSUME IInv, [Next]_vars
    PROVE  \/ Pool' \subseteq Pool
           \/ \E p \in Peers : /\ Pool' = Pool \cup {p}
                               /\ p \in ManualPeers \/ Cardinality(Pool) < MaxPeers
  <1> DEFINE Grows == \E p \in Peers : /\ Pool' = Pool \cup {p}
                                       /\ p \in ManualPeers \/ Cardinality(Pool) < MaxPeers
  <1> USE EntryAssumption DEF IInv, TypeOK, OwnEntry
  <1>1. CASE UNCHANGED mapping
    BY <1>1 DEF Pool
  <1>2. ASSUME NEW d \in Dials, Poll(d) PROVE Pool' \subseteq Pool \/ Grows
    <2>1. CASE UNCHANGED mapping
      BY <2>1 DEF Pool
    <2>2. CASE /\ mapping[target[d]] = Vacant
               /\ check_peer[d] => Allow(target[d])
               /\ mapping' = [mapping EXCEPT ![target[d]] = d]
      <3>1. Pool' = Pool \cup {target[d]}
        BY <2>2 DEF Pool
      <3>2. target[d] \in ManualPeers \/ Cardinality(Pool) < MaxPeers
        BY <1>2, <2>2 DEF Poll, Allow, HasRoom, UncheckedAreManual
      <3> QED
        BY <3>1, <3>2
    <2> QED
      BY <1>2, <2>1, <2>2 DEF Poll
  <1>3. ASSUME NEW d \in Dials, ConnectOk(d) PROVE Pool' \subseteq Pool
    BY <1>3 DEF ConnectOk, Adoptable, SetupPeerState, Pool, poolVars
  <1>4. ASSUME NEW d \in Dials, ConnectErr(d) PROVE Pool' \subseteq Pool
    BY <1>4 DEF ConnectErr, Adoptable, Pool
  <1>5. ASSUME NEW d \in Dials, Reap(d) PROVE Pool' \subseteq Pool
    BY <1>5 DEF Reap, Pool
  <1>6. ASSUME NEW i \in Inbound, NEW p \in Peers, IncomingOk(i, p)
        PROVE  Pool' \subseteq Pool \/ Grows
    <2>1. CASE UNCHANGED mapping
      BY <2>1 DEF Pool
    <2>2. CASE Allow(p) /\ mapping' = [mapping EXCEPT ![p] = Connected]
      <3>1. Pool' = Pool \cup {p}
        BY <2>2 DEF Pool
      <3> QED
        BY <2>2, <3>1 DEF Allow, HasRoom
    <2> QED
      BY <1>6, <2>1, <2>2 DEF IncomingOk, SetupPeerState, poolVars
  <1>7. ASSUME NEW p \in Peers, DisconnectPeer(p) PROVE Pool' \subseteq Pool
    BY <1>7 DEF DisconnectPeer, Pool
  <1> QED
    BY <1>1, <1>2, <1>3, <1>4, <1>5, <1>6, <1>7
    DEF Next, vars, AddPeer, AddPeerInner, DialerDiscovered, Drop, ConnectPanic, DialTaskEnd, DialerCheck,
        DialerSkip, DialerQuit, AcceptErr, Accept, IncomingErr, Teardown, poolVars

(***************************************************************************)
(* The filtered part of the table never exceeds max_peers, for any number  *)
(* of concurrent dials and inbound connections (rlpx.rs:391-401, 756-774,  *)
(* node_filter.rs:14-17).                                                  *)
(***************************************************************************)
THEOREM PoolLimitHolds == Spec => []PoolLimit
  <1> USE PeersAssumption, BoundsAssumption
  <1>1. ASSUME Init PROVE PoolLimit
    <2>1. Pool \ ManualPeers = {}
      BY <1>1 DEF Init, Pool
    <2> QED
      BY <2>1, FS_EmptySet DEF PoolLimit
  <1>2. ASSUME IInv, PoolLimit, [Next]_vars PROVE PoolLimit'
    <2>1. Pool \subseteq Peers /\ IsFiniteSet(Pool)
      BY FS_Subset DEF Pool
    <2>2. IsFiniteSet(Pool \ ManualPeers) /\ Cardinality(Pool \ ManualPeers) \in Nat
      BY <2>1, FS_Subset, FS_CardinalityType
    <2>3. CASE Pool' \subseteq Pool
      <3>1. Pool' \ ManualPeers \subseteq Pool \ ManualPeers
        BY <2>3
      <3>2. Cardinality(Pool' \ ManualPeers) <= Cardinality(Pool \ ManualPeers)
        BY <2>2, <3>1, FS_Subset
      <3>3. Cardinality(Pool' \ ManualPeers) \in Nat
        BY <2>2, <3>1, FS_Subset, FS_CardinalityType
      <3> QED
        BY <1>2, <2>2, <3>2, <3>3 DEF PoolLimit
    <2>4. CASE ~(Pool' \subseteq Pool)
      <3>1. PICK p \in Peers : /\ Pool' = Pool \cup {p}
                               /\ p \in ManualPeers \/ Cardinality(Pool) < MaxPeers
        BY <1>2, <2>4, PoolStep
      <3>2. CASE p \in ManualPeers
        <4>1. Pool' \ ManualPeers = Pool \ ManualPeers
          BY <3>1, <3>2
        <4> QED
          BY <1>2, <4>1 DEF PoolLimit
      <3>3. CASE Cardinality(Pool) < MaxPeers
        <4>1. Cardinality(Pool) \in Nat
          BY <2>1, FS_CardinalityType
        <4>2. /\ IsFiniteSet(Pool \cup {p})
              /\ Cardinality(Pool \cup {p}) =
                   IF p \in Pool THEN Cardinality(Pool) ELSE Cardinality(Pool) + 1
          BY <2>1, FS_AddElement
        <4>3. Cardinality(Pool \cup {p}) \in Nat /\ Cardinality(Pool \cup {p}) <= MaxPeers
          BY <3>3, <4>1, <4>2
        <4>4. Pool' \ ManualPeers \subseteq Pool \cup {p}
          BY <3>1
        <4>5. /\ IsFiniteSet(Pool' \ ManualPeers)
              /\ Cardinality(Pool' \ ManualPeers) <= Cardinality(Pool \cup {p})
          BY <4>2, <4>4, FS_Subset
        <4>6. Cardinality(Pool' \ ManualPeers) \in Nat
          BY <4>5, FS_CardinalityType
        <4> QED
          BY <4>3, <4>5, <4>6 DEF PoolLimit
      <3> QED
        BY <3>1, <3>2, <3>3
    <2> QED
      BY <2>3, <2>4
  <1> QED
    BY IInvHolds, <1>1, <1>2, PTL DEF Spec

-----------------------------------------------------------------------------
(* The node implements PeerTable.                                           *)

(***************************************************************************)
(* PeerTable's occupied identities are the entries of the mapping, so its  *)
(* HasRoom is the filter's size test (node_filter.rs:15).                  *)
(***************************************************************************)
LEMMA OccupiedIsPool == Table!Occupied = Pool
  BY DEF Table!Occupied, Pool, Phase

(***************************************************************************)
(* An initial table is an initial PeerTable.                               *)
(***************************************************************************)
LEMMA InitRefines == Init => Table!Init
  BY DEF Init, Table!Init, Phase

(***************************************************************************)
(* Every step of the node is a step of PeerTable or leaves the phases.     *)
(***************************************************************************)
LEMMA StepRefines ==
    ASSUME IInv, [Next]_vars
    PROVE  [Table!Next]_([p \in Peers |-> Phase(p)])
  <1> DEFINE ph == [p \in Peers |-> Phase(p)]
  <1>0. CASE UNCHANGED poolVars
    BY <1>0 DEF poolVars, Phase
  <1> USE EntryAssumption, OccupiedIsPool
      DEF IInv, TypeOK, OwnEntry, PipesOwned, Phase, Table!Move
  <1>1. ASSUME NEW d \in Dials, Poll(d), mapping' # mapping
        PROVE  Table!Next
    <2>1. PICK p \in Peers : p = target[d]
      OBVIOUS
    <2>2. /\ mapping[p] = Vacant
          /\ check_peer[d] => Allow(p)
          /\ mapping' = [mapping EXCEPT ![p] = d]
          /\ peer_pipes' = peer_pipes
      BY <1>1, <2>1 DEF Poll
    <2>3. p \in ManualPeers \/ HasRoom(Table!Occupied)
      BY <1>1, <2>1, <2>2 DEF Poll, UncheckedAreManual, Allow
    <2>4. ph[p] = "absent" /\ ph' = [ph EXCEPT ![p] = "dialing"]
      BY <2>2
    <2>5. Table!Dial(p)
      BY <2>3, <2>4 DEF Table!Dial
    <2> QED
      BY <2>5 DEF Table!Next
  <1>2. ASSUME NEW d \in Dials, ConnectOk(d)
        PROVE  Table!Next
    <2>1. PICK p \in Peers : p = target[d]
      OBVIOUS
    <2>2. /\ mapping[p] = d
          /\ mapping' = [mapping EXCEPT ![p] = Connected]
          /\ peer_pipes' = peer_pipes \cup {p}
      BY <1>2, <2>1 DEF ConnectOk, Adoptable, SetupPeerState
    <2>3. Table!Establish(p)
      BY <2>2 DEF Table!Establish
    <2> QED
      BY <2>3 DEF Table!Next
  <1>3. ASSUME NEW d \in Dials, ConnectErr(d)
        PROVE  Table!Next
    <2>1. PICK p \in Peers : p = target[d]
      OBVIOUS
    <2>2. /\ mapping[p] = d
          /\ mapping' = [mapping EXCEPT ![p] = Vacant]
          /\ peer_pipes' = peer_pipes
      BY <1>3, <2>1 DEF ConnectErr, Adoptable
    <2>3. Table!Abandon(p)
      BY <2>2 DEF Table!Abandon
    <2> QED
      BY <2>3 DEF Table!Next
  <1>4. ASSUME NEW d \in Dials, Reap(d), mapping' # mapping
        PROVE  Table!Next
    <2>1. PICK p \in Peers : p = target[d]
      OBVIOUS
    <2>2. /\ mapping[p] = d
          /\ mapping' = [mapping EXCEPT ![p] = Vacant]
          /\ peer_pipes' = peer_pipes
      BY <1>4, <2>1 DEF Reap, ReapRest
    <2>3. Table!Abandon(p)
      BY <2>2 DEF Table!Abandon
    <2> QED
      BY <2>3 DEF Table!Next
  <1>5. ASSUME NEW i \in Inbound, NEW p \in Peers, IncomingOk(i, p), ~UNCHANGED poolVars
        PROVE  Table!Next
    <2>1. /\ mapping[p] = Vacant
          /\ HasRoom(Table!Occupied)
          /\ mapping' = [mapping EXCEPT ![p] = Connected]
          /\ peer_pipes' = peer_pipes \cup {p}
      BY <1>5 DEF IncomingOk, SetupPeerState, Allow
    <2>2. ph[p] = "absent" /\ ph' = [ph EXCEPT ![p] = "live"]
      BY <2>1
    <2>3. Table!Admit(p)
      BY <2>1, <2>2 DEF Table!Admit
    <2> QED
      BY <2>3 DEF Table!Next
  <1>6. ASSUME NEW p \in Peers, Teardown(p)
        PROVE  Table!Next
    <2>1. mapping' = mapping /\ mapping[p] = Connected
      BY <1>6 DEF Teardown
    <2>2. p \in peer_pipes /\ peer_pipes' = peer_pipes \ {p}
      BY <1>6 DEF Teardown
    <2>3. ph[p] = "live" /\ ph' = [ph EXCEPT ![p] = "closing"]
      <3>1. Phase(p) = "live" /\ Phase(p)' = "closing"
        BY <2>1, <2>2
      <3>2. ASSUME NEW q \in Peers, q # p
            PROVE  Phase(q)' = Phase(q)
        BY <2>1, <2>2, <3>2
      <3> HIDE DEF Phase
      <3> QED
        BY <3>1, <3>2
    <2>4. Table!Teardown(p)
      BY <2>3 DEF Table!Teardown
    <2> QED
      BY <2>4 DEF Table!Next
  <1>7. ASSUME NEW p \in Peers, DisconnectPeer(p)
        PROVE  Table!Next
    <2>1. Table!Forget(p)
      BY <1>7 DEF DisconnectPeer, Table!Forget
    <2> QED
      BY <2>1 DEF Table!Next
  <1>8. CASE Next
    <2>1. \/ UNCHANGED poolVars
          \/ \E d \in Dials : \/ Poll(d) /\ mapping' # mapping
                              \/ ConnectOk(d) \/ ConnectErr(d)
                              \/ Reap(d) /\ mapping' # mapping
          \/ \E i \in Inbound, p \in Peers : IncomingOk(i, p) /\ ~UNCHANGED poolVars
          \/ \E p \in Peers : Teardown(p) \/ DisconnectPeer(p)
      BY <1>8 DEF Next, AddPeer, AddPeerInner, DialerDiscovered, Drop, ConnectPanic, DialTaskEnd,
                  DialerCheck, DialerSkip, DialerQuit, AcceptErr, Accept, IncomingErr,
                  Poll, Reap, ReapRest, IncomingOk, poolVars
    <2> QED
      BY <1>0, <1>1, <1>2, <1>3, <1>4, <1>5, <1>6, <1>7, <2>1
  <1>9. CASE UNCHANGED vars
    BY <1>0, <1>9 DEF vars, poolVars
  <1> QED
    BY <1>8, <1>9

(***************************************************************************)
(* The concurrent connection management implements the sequential life     *)
(* cycle of PeerTable, for any number of peers and attempts.               *)
(***************************************************************************)
THEOREM SwarmImplementsPeerTable == Spec => ImplementsPeerTable
  <1>1. IInv /\ [Next]_vars => [Table!Next]_([p \in Peers |-> Phase(p)])
    BY StepRefines
  <1> QED
    BY IInvHolds, InitRefines, <1>1, PTL DEF Spec, ImplementsPeerTable, Table!Spec

-----------------------------------------------------------------------------
(* The dialer's bookkeeping and the dialing counter.                        *)

(***************************************************************************)
(* Only attempts of the dialer have a task to end after they returned.     *)
(* DialerExclusive is not inductive without it: the end of a task takes    *)
(* its identity out of current_peers.                                      *)
(***************************************************************************)
ReturnedAreChecked == \A d \in Dials : pc[d] = "returned" => check_peer[d]

(***************************************************************************)
(* The dialer has at most one task per identity, and current_peers knows   *)
(* it, however attempts, timeouts and add_peer interleave (rlpx.rs:659,    *)
(* 670): an identity is taken out only by the task that put it in.         *)
(***************************************************************************)
THEOREM DialerIsExclusive == Spec => []DialerExclusive
  <1> DEFINE DInv == DialerExclusive /\ ReturnedAreChecked
  <1>1. Init => DInv
    BY DEF Init, DialerExclusive, ReturnedAreChecked
  <1>2. ASSUME IInv, DInv, [Next]_vars PROVE DInv'
    <2> USE <1>2 DEF IInv, TypeOK, DialerExclusive, ReturnedAreChecked, loopVars, dialVars
    <2>1. ASSUME NEW d \in Dials, NEW p \in Peers, AddPeer(d, p) PROVE DInv'
      BY <2>1 DEF AddPeer, AddPeerInner
    <2>2. ASSUME NEW d \in Dials, NEW p \in Peers, DialerDiscovered(d, p) PROVE DInv'
      BY <2>2 DEF DialerDiscovered, AddPeerInner
    <2>3. ASSUME NEW d \in Dials, Poll(d) \/ ConnectOk(d) \/ ConnectErr(d) \/ Drop(d)
          PROVE  DInv'
      BY <2>3 DEF Poll, ConnectOk, ConnectErr, Drop, Finish
    <2>4. ASSUME NEW d \in Dials, ConnectPanic(d) PROVE DInv'
      BY <2>4 DEF ConnectPanic
    <2>5. ASSUME NEW d \in Dials, Reap(d) PROVE DInv'
      BY <2>5 DEF Reap, ReapRest
    <2>6. ASSUME NEW d \in Dials, DialTaskEnd(d) PROVE DInv'
      BY <2>6 DEF DialTaskEnd
    <2>7. CASE UNCHANGED <<pc, target, check_peer, current_peers>>
      BY <2>7
    <2> QED
      BY <2>1, <2>2, <2>3, <2>5, <2>6, <2>7, <2>4
      DEF Next, vars, DialerCheck, DialerSkip, DialerQuit, AcceptErr, Accept, IncomingErr,
          IncomingOk, Teardown, DisconnectPeer
  <1> QED
    BY <1>1, <1>2, IInvHolds, PTL DEF Spec

(***************************************************************************)
(* Arithmetic modulo the range of the counter: a remainder is determined   *)
(* by any quotient that leaves it.                                         *)
(***************************************************************************)
LEMMA ModUnique ==
    ASSUME NEW x \in Int, NEW q \in Int, NEW r \in 0 .. CounterMod - 1,
           x = CounterMod * q + r
    PROVE  x % CounterMod = r
  <1> USE BoundsAssumption
  <1> DEFINE k == x \div CounterMod - q
  <1>1. /\ x = CounterMod * (x \div CounterMod) + (x % CounterMod)
        /\ x % CounterMod \in 0 .. CounterMod - 1 /\ x \div CounterMod \in Int
    OBVIOUS
  <1>2. CounterMod * k = r - (x % CounterMod) /\ k \in Int
    BY <1>1
  <1>3. CounterMod * k > - CounterMod /\ CounterMod * k < CounterMod
    BY <1>1, <1>2
  <1> HIDE DEF k
  <1>4. k = 0
    BY <1>2, <1>3
  <1> QED
    BY <1>1, <1>2, <1>4 DEF k

LEMMA ModShift ==
    ASSUME NEW x \in Int
    PROVE  /\ (x + CounterMod) % CounterMod = x % CounterMod
           /\ (x - CounterMod) % CounterMod = x % CounterMod
  <1> USE BoundsAssumption
  <1> DEFINE q == x \div CounterMod
             r == x % CounterMod
  <1>1. x = CounterMod * q + r /\ r \in 0 .. CounterMod - 1 /\ q \in Int
    OBVIOUS
  <1> HIDE DEF q, r
  <1>2. x + CounterMod = CounterMod * (q + 1) + r /\ x - CounterMod = CounterMod * (q - 1) + r
    BY <1>1
  <1>3. (x + CounterMod) % CounterMod = r
    BY <1>1, <1>2, ModUnique
  <1>4. (x - CounterMod) % CounterMod = r
    BY <1>1, <1>2, ModUnique
  <1> QED
    BY <1>3, <1>4 DEF r

(***************************************************************************)
(* The wrapping updates of the counter against a count that moves along.   *)
(***************************************************************************)
LEMMA DriftSteps ==
    ASSUME NEW n \in 0 .. CounterMod - 1, NEW c \in Nat
    PROVE  /\ (((n + 1) % CounterMod) - (c + 1)) % CounterMod = (n - c) % CounterMod
           /\ (((n + CounterMod - 1) % CounterMod) - (c - 1)) % CounterMod
                 = (n - c) % CounterMod
  <1> USE BoundsAssumption
  <1>1. (n + 1) % CounterMod = n + 1 \/ (n + 1) % CounterMod = n + 1 - CounterMod
    BY ModUnique
  <1>2. \/ (n + CounterMod - 1) % CounterMod = n + CounterMod - 1
        \/ (n + CounterMod - 1) % CounterMod = n - 1
    BY ModUnique
  <1>3. \A x \in Int : /\ (x + CounterMod) % CounterMod = x % CounterMod
                       /\ (x - CounterMod) % CounterMod = x % CounterMod
    BY ModShift
  <1>4. (((n + 1) % CounterMod) - (c + 1)) \in {n - c, n - c - CounterMod}
    BY <1>1
  <1>5. (((n + CounterMod - 1) % CounterMod) - (c - 1)) \in {n - c, n - c + CounterMod}
    BY <1>2
  <1>6. n - c \in Int
    OBVIOUS
  <1> QED
    BY <1>3, <1>4, <1>5, <1>6

\* The attempts that dialing() is to count.
Begun == {d \in Dials : rx[d] # "none" /\ pc[d] # "created"}

(***************************************************************************)
(* dialing() drifts from the number of attempts under way only where an    *)
(* add_peer future is dropped before its first poll, for any counter width *)
(* and any number of attempts (rlpx.rs:745, 753, 842).                     *)
(***************************************************************************)
THEOREM DialingCountHolds == Spec => DialingCount
  <1> DEFINE Unpolled(d) == ~check_peer[d] /\ pc[d] = "created" /\ pc'[d] = "idle"
  <1>1. ASSUME IInv, [Next]_vars
        PROVE  Drift' = Drift \/ \E d \in Dials : Unpolled(d)
    <2> USE <1>1, DialsAssumption
            DEF IInv, TypeOK, OneshotFollowsFuture, loopVars, dialVars
    <2>1. Drift = (currently_connecting - Cardinality(Begun)) % CounterMod
      BY DEF Drift, Begun
    <2>2. Drift' = (currently_connecting' - Cardinality(Begun')) % CounterMod
      BY DEF Drift, Begun
    <2>3. IsFiniteSet(Begun) /\ Cardinality(Begun) \in Nat
      BY FS_Subset, FS_CardinalityType DEF Begun
    <2>4. CASE currently_connecting' = currently_connecting /\ Begun' = Begun
      BY <2>1, <2>2, <2>4
    <2>5. ASSUME NEW d \in Dials, NEW p \in Peers, AddPeer(d, p) \/ DialerDiscovered(d, p)
          PROVE  currently_connecting' = currently_connecting /\ Begun' = Begun
      BY <2>5 DEF AddPeer, DialerDiscovered, AddPeerInner, Begun
    <2>6. ASSUME NEW d \in Dials, Poll(d) PROVE Drift' = Drift
      <3>1. currently_connecting' = (currently_connecting + 1) % CounterMod
        BY <2>6 DEF Poll
      <3>2. Begun' = Begun \cup {d} /\ d \notin Begun
        BY <2>6 DEF Poll, Finish, Begun
      <3>3. Cardinality(Begun') = Cardinality(Begun) + 1
        BY <2>3, <3>2, FS_AddElement
      <3> QED
        BY <2>1, <2>2, <2>3, <3>1, <3>3, DriftSteps
    <2>7. ASSUME NEW d \in Dials, ConnectOk(d) \/ ConnectErr(d)
          PROVE  currently_connecting' = currently_connecting /\ Begun' = Begun
      BY <2>7 DEF ConnectOk, ConnectErr, Finish, Begun
    <2>8. ASSUME NEW d \in Dials, Drop(d), ~Unpolled(d)
          PROVE  currently_connecting' = currently_connecting /\ Begun' = Begun
      BY <2>8 DEF Drop, Finish, Begun
    <2>9. ASSUME NEW d \in Dials, ConnectPanic(d)
           PROVE  currently_connecting' = currently_connecting /\ Begun' = Begun
      BY <2>9 DEF ConnectPanic, Begun
    <2>10. ASSUME NEW d \in Dials, Reap(d) PROVE Drift' = Drift
      <3>1. currently_connecting' = (currently_connecting + CounterMod - 1) % CounterMod
        BY <2>10 DEF Reap, Decremented
      <3>2. Begun' = Begun \ {d} /\ d \in Begun
        BY <2>10 DEF Reap, ReapRest, Begun
      <3>3. Cardinality(Begun') = Cardinality(Begun) - 1
        BY <2>3, <3>2, FS_RemoveElement
      <3> QED
        BY <2>1, <2>2, <2>3, <3>1, <3>3, DriftSteps
    <2>11. ASSUME NEW d \in Dials, DialTaskEnd(d)
           PROVE  currently_connecting' = currently_connecting /\ Begun' = Begun
      BY <2>11 DEF DialTaskEnd, Begun
    <2>12. CASE UNCHANGED dialVars
      BY <2>12, <2>4 DEF Begun
    <2> QED
      BY <2>4, <2>5, <2>6, <2>7, <2>8, <2>10, <2>11, <2>12, <2>9
      DEF Next, vars, DialerCheck, DialerSkip, DialerQuit, AcceptErr, Accept, IncomingErr,
          IncomingOk, Teardown, DisconnectPeer
  <1>2. IInv /\ [Next]_vars => [Drift' = Drift \/ \E d \in Dials : Unpolled(d)]_vars
    BY <1>1
  <1> QED
    BY IInvHolds, <1>2, PTL DEF Spec, DialingCount

==============================================================================
