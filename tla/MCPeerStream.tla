---------------------------- MODULE MCPeerStream ----------------------------
(***************************************************************************)
(* PeerStream with two names, one of them in two versions, and lengths     *)
(* around the ids that are sent; 17 is eth/65's.                           *)
(***************************************************************************)
EXTENDS PeerStream

MCCapabilities == {<<1, 1>>, <<1, 2>>, <<2, 1>>}

MCLengths == [c \in MCCapabilities |->
                IF c = <<1, 1>> THEN 2 ELSE IF c = <<1, 2>> THEN 17 ELSE 3]

==============================================================================
