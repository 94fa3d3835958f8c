---------------------------- MODULE BlockTracker ----------------------------
(***************************************************************************)
(* BlockTracker (src/main.rs): the best known block of every peer, in two  *)
(* maps that must agree, one by peer and one by block.  Peers without a    *)
(* block and blocks without a peer have no key.                            *)
(***************************************************************************)
EXTENDS Integers

CONSTANTS Peers, Blocks, NoBlock

ASSUME TrackerAssumption ==
    /\ 0 \in Blocks
    /\ Blocks \subseteq Nat
    /\ NoBlock \notin Blocks

VARIABLES
    block_by_peer,     \* [Peers -> Blocks \cup {NoBlock}]; NoBlock: no key
    peers_by_block     \* [Blocks -> SUBSET Peers]; {}: no key, as the code removes
                       \* the key with its last peer

trackerVars == <<block_by_peer, peers_by_block>>

(***************************************************************************)
(* The variables have their types (main.rs:62-66).                         *)
(***************************************************************************)
TrackerTypeOK ==
    /\ block_by_peer \in [Peers -> Blocks \cup {NoBlock}]
    /\ peers_by_block \in [Blocks -> SUBSET Peers]

TrackerInit ==
    /\ block_by_peer = [p \in Peers |-> NoBlock]
    /\ peers_by_block = [b \in Blocks |-> {}]

\* Defective variant of Forgotten: the block's set keeps the peer.
ForgottenNot(p) == peers_by_block

\* peers_by_block without p under its old block, if it had one.
Forgotten(p) ==
    [b \in Blocks |-> IF block_by_peer[p] = b THEN peers_by_block[b] \ {p}
                                              ELSE peers_by_block[b]]

SetBlockNumber(p, block) ==
    /\ block_by_peer' = [block_by_peer EXCEPT ![p] = block]
    /\ peers_by_block' = [Forgotten(p) EXCEPT ![block] = @ \cup {p}]

RemovePeer(p) ==
    /\ block_by_peer' = [block_by_peer EXCEPT ![p] = NoBlock]
    /\ peers_by_block' = Forgotten(p)

\* Defective variant of PeersWithMinBlock: excludes the bound itself.
PeersAboveBlock(block) == UNION {peers_by_block[b] : b \in {c \in Blocks : c > block}}

\* range(block..), flattened
PeersWithMinBlock(block) == UNION {peers_by_block[b] : b \in {c \in Blocks : c >= block}}

TrackerNext ==
    \E p \in Peers : RemovePeer(p) \/ \E b \in Blocks : SetBlockNumber(p, b)

TrackerSpec == TrackerInit /\ [][TrackerNext]_trackerVars

(***************************************************************************)
(* The two maps agree: whatever sequence of updates and removals (which    *)
(* touch the maps one after the other), a peer is filed under its current  *)
(* block and under no other (main.rs:69-92).                               *)
(***************************************************************************)
MapsAgree ==
    \A p \in Peers, b \in Blocks : p \in peers_by_block[b] <=> block_by_peer[p] = b

(***************************************************************************)
(* The range query over the block map returns exactly the tracked peers    *)
(* whose block is at least the bound (main.rs:94-101).                     *)
(***************************************************************************)
QueryCorrect ==
    \A min \in Blocks :
        PeersWithMinBlock(min) =
            {p \in Peers : block_by_peer[p] # NoBlock /\ block_by_peer[p] >= min}

==============================================================================
