---------------------------- MODULE FrameChannel ----------------------------
(***************************************************************************)
(* What ECIESStream promises to the PeerStream above it: two ends that     *)
(* open, the connecting one last, and between them, in each direction,     *)
(* frames that arrive unchanged, once and in order, until an end leaves.   *)
(* Frames may be lost only behind the last one that arrived.               *)
(***************************************************************************)
EXTENDS Naturals, Sequences

CONSTANTS Client, Server, Frames

Ends == {Client, Server}
Other(e) == IF e = Client THEN Server ELSE Client

VARIABLES
    status,             \* "new", "up", "left" after that, "failed" before
    sent, received      \* of each end: frames handed in, frames handed out

ChannelInit ==
    /\ status = [e \in Ends |-> "new"]
    /\ sent = [e \in Ends |-> <<>>] /\ received = [e \in Ends |-> <<>>]

\* The Ack shows the client that the server has its keys.
Open(e) ==
    /\ status[e] = "new"
    /\ e = Client => status[Server] \in {"up", "left"}
    /\ status' = [status EXCEPT ![e] = "up"]
    /\ UNCHANGED <<sent, received>>

Leave(e) ==
    /\ status[e] \in {"new", "up"}
    /\ status' = [status EXCEPT ![e] = IF @ = "up" THEN "left" ELSE "failed"]
    /\ UNCHANGED <<sent, received>>

Send(e, frame) ==
    /\ status[e] = "up"
    /\ sent' = [sent EXCEPT ![e] = Append(@, frame)]
    /\ UNCHANGED <<status, received>>

Receive(e) ==
    LET n == Len(received[e]) + 1 IN
    /\ status[e] = "up"
    /\ n <= Len(sent[Other(e)])
    /\ received' = [received EXCEPT ![e] = Append(@, sent[Other(e)][n])]
    /\ UNCHANGED <<status, sent>>

ChannelNext ==
    \E e \in Ends : \/ Open(e) \/ Leave(e) \/ Receive(e)
                    \/ \E frame \in Frames : Send(e, frame)

ChannelSpec == ChannelInit /\ [][ChannelNext]_<<status, sent, received>>

==============================================================================
