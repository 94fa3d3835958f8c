------------------------------ MODULE PeerTable ------------------------------
(***************************************************************************)
(* What the RLPx node promises about its table of peers, without dials,    *)
(* reapers or tasks: the life cycle of every remote identity, and the      *)
(* bound on the table.  Module Swarm (all peers, connection management)    *)
(* and module PeerSession (one peer, session tasks) both implement it.     *)
(***************************************************************************)
CONSTANTS
    Peers,         \* remote identities
    ManualPeers,   \* identities the embedding program may pass to add_peer
    HasRoom(_)     \* may a table that holds these identities take another one

VARIABLE phase     \* [Peers -> Phases]

Phases == {"absent", "dialing", "live", "closing"}

Occupied == {p \in Peers : phase[p] # "absent"}

Init == phase = [p \in Peers |-> "absent"]

Move(p, from, to) ==
    /\ phase[p] = from
    /\ phase' = [phase EXCEPT ![p] = to]

\* An outbound attempt reserves the identity; only the manual ones may do so
\* in a full table.
Dial(p) == Move(p, "absent", "dialing") /\ (p \in ManualPeers \/ HasRoom(Occupied))

\* The attempt failed, timed out or was dropped.
Abandon(p) == Move(p, "dialing", "absent")

\* The attempt succeeded: the session starts.
Establish(p) == Move(p, "dialing", "live")

\* An inbound connection starts a session.
Admit(p) == Move(p, "absent", "live") /\ HasRoom(Occupied)

\* The capability server forgets the peer, then the table does.
Teardown(p) == Move(p, "live", "closing")
Forget(p)   == Move(p, "closing", "absent")

Next == \E p \in Peers :
    \/ Dial(p) \/ Abandon(p) \/ Establish(p)
    \/ Admit(p) \/ Teardown(p) \/ Forget(p)

Spec == Init /\ [][Next]_phase

==============================================================================
