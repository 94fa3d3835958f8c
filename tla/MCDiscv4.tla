------------------------------- MODULE MCDiscv4 -------------------------------
(***************************************************************************)
(* Discv4 with up to three nodes, which all lookups have at the same       *)
(* distances; we are the nearest to the target, as in lookup_self.         *)
(***************************************************************************)
EXTENDS Discv4

CONSTANTS n1, n2, n3

MCDistance ==
    [l \in Lookups |-> (Self :> 0) @@ (n1 :> 1) @@ (n2 :> 2) @@ (n3 :> 3)]

\* Any set of nodes, in some order.
MCBootstraps == {SetToSeq(nodes) : nodes \in SUBSET Nodes}

\* What nodes answer a FindNode with: one node, or one and ourselves.
MCAnswers == {<<n2>>, <<n3, Self>>}
MCOneAnswer == {<<n1, Self>>}

==============================================================================
