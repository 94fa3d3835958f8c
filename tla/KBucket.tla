------------------------------- MODULE KBucket -------------------------------
(***************************************************************************)
(* A bucket of the Kademlia table of discv4/src/kad.rs.  The 256 buckets   *)
(* of a Table share nothing and an operation touches only the bucket of    *)
(* its argument's log-distance, so one bucket is modelled, with the nodes  *)
(* that fall into it.  Records are abstracted to node ids: IPv6 records    *)
(* and our own id, which the table ignores, are not among Nodes.           *)
(* Module Discv4 applies the operations and checks the properties.         *)
(***************************************************************************)
EXTENDS Integers, SequencesExt

CONSTANTS
    Nodes,              \* ids of one log-distance
    BucketSize,         \* BUCKET_SIZE
    ReplacementsSize    \* REPLACEMENTS_SIZE

ASSUME SizesAssumption == BucketSize \in Nat \ {0} /\ ReplacementsSize \in Nat

VARIABLE connected      \* the bucket, front first, and its replacements

EmptyBucket == [bucket |-> <<>>, replacements |-> <<>>]

-----------------------------------------------------------------------------
(* The operations, on a bucket k.                                           *)

InBucket(k, node) == node \in ToSet(k.bucket)

\* Defective variant of PushReplacement: the bound is not checked.
PushReplacementUnbounded(k, node) ==
    [k EXCEPT !.replacements = Append(@, node)]

PushReplacement(k, node) ==
    IF Len(k.replacements) < ReplacementsSize
    THEN [k EXCEPT !.replacements = Append(@, node)]
    ELSE k

\* Defective variant of AddVerified: the room is judged before a known node
\* was taken out.
AddVerifiedStaleSize(k, node) ==
    LET rest == [k EXCEPT !.bucket = RemoveFirst(@, node)] IN
    IF Len(k.bucket) < BucketSize
    THEN [rest EXCEPT !.bucket = <<node>> \o @]
    ELSE PushReplacement(rest, node)

\* A known node moves to the front; a new one goes there if there is room.
AddVerified(k, node) ==
    LET rest == [k EXCEPT !.bucket = RemoveFirst(@, node)] IN
    IF Len(rest.bucket) < BucketSize
    THEN [rest EXCEPT !.bucket = <<node>> \o @]
    ELSE PushReplacement(rest, node)

\* A known node stays where it is; a new one goes to the back.
AddSeen(k, node) ==
    IF InBucket(k, node) THEN k
    ELSE IF Len(k.bucket) < BucketSize
    THEN [k EXCEPT !.bucket = Append(@, node)]
    ELSE PushReplacement(k, node)

\* Defective variant of RemoveNode: removes without a replacement too.
RemoveNodeAlways(k, node) ==
    IF ~InBucket(k, node) THEN k
    ELSE IF k.replacements = <<>> THEN [k EXCEPT !.bucket = RemoveFirst(@, node)]
    ELSE [bucket |-> Append(RemoveFirst(k.bucket, node), Head(k.replacements)),
          replacements |-> Tail(k.replacements)]

\* remove: only in exchange for the first replacement, which goes to the back.
RemoveNode(k, node) ==
    IF k.replacements # <<>> /\ InBucket(k, node)
    THEN [bucket |-> Append(RemoveFirst(k.bucket, node), Head(k.replacements)),
          replacements |-> Tail(k.replacements)]
    ELSE k

\* What a FindNode is answered with.  The result is collected into an ArrayVec
\* of BUCKET_SIZE elements, which panics when there are more.
Neighbours(k, node) == Remove(k.bucket, node)

Filled(k) == Len(k.bucket) >= BucketSize

Oldest(k) == Last(k.bucket)

-----------------------------------------------------------------------------
(* Properties.                                                              *)

(***************************************************************************)
(* Neither queue outgrows its size: neighbours() collects the bucket into  *)
(* an ArrayVec of BUCKET_SIZE elements and would panic (kad.rs:199-213).   *)
(***************************************************************************)
QueuesBounded ==
    /\ connected \in [bucket : Seq(Nodes), replacements : Seq(Nodes)]
    /\ Len(connected.bucket) <= BucketSize
    /\ Len(connected.replacements) <= ReplacementsSize

(***************************************************************************)
(* Replacements wait only behind a full bucket: nothing that takes a node  *)
(* out leaves a gap while others wait, although add_verified takes a node  *)
(* out before it looks for room (kad.rs:134-147, 178-193).                 *)
(***************************************************************************)
ReplacementsWaitForRoom ==
    connected.replacements # <<>> => Len(connected.bucket) = BucketSize

(***************************************************************************)
(* A bucket never shrinks, and a step puts at most one node out of it: the *)
(* table can lose nodes to others but not run dry (kad.rs:126-197).        *)
(***************************************************************************)
NeverRunsDry ==
    [][ /\ Len(connected'.bucket) >= Len(connected.bucket)
        /\ \A m, n \in ToSet(connected.bucket) \ ToSet(connected'.bucket) : m = n
      ]_connected

==============================================================================
