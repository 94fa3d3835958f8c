------------------------------ MODULE PeerStream ------------------------------
(***************************************************************************)
(* Two ends of an RLPx connection above the encrypted transport            *)
(* (devp2p/src/peer.rs): the hello exchange with the negotiation of shared *)
(* capabilities, and the multiplexing of their messages over one space of  *)
(* message ids.  The transport delivers frames in order (external).        *)
(*                                                                         *)
(* A capability is a pair <<name, version>>; names are ordered, so they    *)
(* are numbers here.  A capability has the same length on both ends.       *)
(***************************************************************************)
EXTENDS Integers, SequencesExt, FiniteSets

CONSTANTS
    Capabilities,   \* pairs <<name, version>> of numbers
    Lengths,        \* [Capabilities -> Nat]: message ids of each
    MessageIds,     \* ids the capability servers send
    WireBound       \* frames in flight in each direction

ASSUME CapabilitiesAssumption ==
    /\ IsFiniteSet(Capabilities) /\ Capabilities \subseteq Nat \X Nat
    /\ Lengths \in [Capabilities -> Nat]

ASSUME IdsAssumption == MessageIds \subseteq Nat

Ends == {"a", "b"}
Other(e) == IF e = "a" THEN "b" ELSE "a"

Reserved == 16      \* 0x10, first id after the base protocol's
OneByte  == 128     \* first id whose RLP encoding does not fit one byte

VARIABLES
    caps,           \* the capabilities each end registered, ordered
    state,          \* "start", "hello" (sent), "open", "failed" or "panicked"
    shared,         \* shared_capabilities
    disconnected,
    wire,           \* frames from each end
    sent, received  \* of the last frame each end took: what the sender meant
                    \* and what poll_next made of it

vars == <<caps, state, shared, disconnected, wire, sent, received>>

None == <<"none">>
Error == <<"error">>
Disconnect(reason) == <<"disconnect", reason>>
Subprotocol(name, id) == <<"subprotocol", name, id>>

-----------------------------------------------------------------------------
(* Negotiation.                                                             *)

Name(cap) == cap[1]
Version(cap) == cap[2]

\* The order of BTreeMap<CapabilityId, _>.
Before(c, d) == Name(c) < Name(d) \/ (Name(c) = Name(d) /\ Version(c) < Version(d))

\* What a BTreeMap of capabilities yields.
Ascending(list) == \A i, j \in DOMAIN list : i < j => Before(list[i], list[j])

\* The elements of a list that are among some, in its order.
Keep(list, those) ==
    LET kept[i \in 0 .. Len(list)] ==
          IF i = 0 THEN <<>>
          ELSE IF list[i] \in those THEN Append(kept[i - 1], list[i]) ELSE kept[i - 1]
    IN kept[Len(list)]

\* Defective variant of Retain: keeps the lowest version of a name.
RetainLowest(list, cap) ==
    Keep(list, {v \in ToSet(list) : Name(v) # Name(cap) \/ Version(v) <= Version(cap)})

Retain(list, cap) ==
    Keep(list, {v \in ToSet(list) : Name(v) # Name(cap) \/ Version(v) >= Version(cap)})

\* Drop all but the highest version of a name.
Highest(matching) ==
    LET left[i \in 0 .. Len(matching)] ==
          IF i = 0 THEN matching ELSE Retain(left[i - 1], matching[i])
    IN left[Len(matching)]

SortByName(list) ==
    LET order == CHOOSE p \in Bijection(DOMAIN list, DOMAIN list) :
                   \A i, j \in DOMAIN list : i < j => Name(list[p[i]]) <= Name(list[p[j]])
    IN [i \in DOMAIN list |-> list[order[i]]]

\* Match by name and version, keep the highest versions, sort.
SharedCapabilities(local, remote) == SortByName(Highest(Keep(local, ToSet(remote))))

-----------------------------------------------------------------------------
(* Message ids.                                                             *)

Index(list, name) == SelectInSeq(list, LAMBDA c : Name(c) = name)

\* start_send drops a message whose capability is not shared or has no such id.
Sendable(list, name, id) ==
    /\ Index(list, name) # 0
    /\ id < Lengths[list[Index(list, name)]]

\* start_send: the id on the wire lies behind those of the earlier capabilities.
WireId(list, name, id) ==
    LET first[i \in 0 .. Len(list)] ==
          IF i = 0 THEN Reserved ELSE first[i - 1] + Lengths[list[i]]
    IN first[Index(list, name) - 1] + id

\* Subtract the length of every capability the id lies behind.
Subtract(list, id) ==
    LET m[i \in 0 .. Len(list)] ==
          IF i = 0 THEN [id |-> id, index |-> 0]
          ELSE IF m[i - 1].id > Lengths[list[i]]
          THEN [id |-> m[i - 1].id - Lengths[list[i]], index |-> m[i - 1].index + 1]
          ELSE m[i - 1]
    IN m[Len(list)]

\* Defective variant of Unmux: off by one at the first id.
UnmuxOffByOne(list, wireId) == Subtract(list, wireId - Reserved - 1)

\* poll_next: the id within the capability and the capability's index.
Unmux(list, wireId) == Subtract(list, wireId - Reserved)

\* What poll_next makes of a subprotocol frame.  The id is parsed from the
\* first byte alone.
Delivered(list, wireId) ==
    LET m == Unmux(list, wireId) IN
    IF wireId >= OneByte \/ m.index >= Len(list) THEN Error
    ELSE Subprotocol(Name(list[m.index + 1]), m.id)

\* The payload of a Disconnect is written as an RLP value and read as the first
\* item of an RLP list.
DisconnectPayload(reason) == [rlp |-> "value", reason |-> reason]
ParseDisconnect(payload) ==
    IF payload.rlp = "list" THEN Disconnect(payload.reason) ELSE Error

-----------------------------------------------------------------------------
Init ==
    /\ caps \in [Ends -> {list \in BoundedSeq(Capabilities, Cardinality(Capabilities)) :
                            Ascending(list)}]
    /\ state = [e \in Ends |-> "start"]
    /\ shared = [e \in Ends |-> <<>>]
    /\ disconnected = [e \in Ends |-> FALSE]
    /\ wire = [e \in Ends |-> <<>>]
    /\ sent = [e \in Ends |-> None] /\ received = [e \in Ends |-> None]

Frame(kind, body, meant) == [kind |-> kind, body |-> body, meant |-> meant]

Put(e, frame) == wire' = [wire EXCEPT ![e] = Append(@, frame)]

\* PeerStream::new, first half: our hello goes out.
SendHello(e) ==
    /\ state[e] = "start"
    /\ state' = [state EXCEPT ![e] = "hello"]
    /\ Put(e, Frame("hello", caps[e], None))
    /\ UNCHANGED <<caps, shared, disconnected, sent, received>>

\* Another implementation refuses us in place of a hello (external): with a
\* Disconnect, which is an RLP list, or with a frame that has no message at all.
Refusals == {Frame("base", [rlp |-> "list", reason |-> 4], Disconnect(4)),
             Frame("empty", None, None)}

Refuse(e) ==
    /\ state[e] = "start"
    /\ state' = [state EXCEPT ![e] = "failed"]
    /\ \E frame \in Refusals : Put(e, frame)
    /\ UNCHANGED <<caps, shared, disconnected, sent, received>>

\* Without a shared capability the peer is told so and the connection given up.
Negotiated(e, list) ==
    IF list # <<>>
    THEN /\ state' = [state EXCEPT ![e] = "open"]
         /\ shared' = [shared EXCEPT ![e] = list]
         /\ wire' = [wire EXCEPT ![Other(e)] = Tail(@)]
         /\ UNCHANGED disconnected
    ELSE /\ state' = [state EXCEPT ![e] = "failed"]
         /\ disconnected' = [disconnected EXCEPT ![e] = TRUE]
         /\ wire' = [wire EXCEPT ![Other(e)] = Tail(@),
                                 ![e] = Append(@, Frame("base", DisconnectPayload(3), Disconnect(3)))]
         /\ UNCHANGED shared

\* PeerStream::new, second half: their hello comes in, or a refusal.  The slice of
\* the message id panics if there is none.
RecvHello(e) ==
    LET in == wire[Other(e)] IN
    /\ state[e] = "hello" /\ in # <<>>
    /\ IF Head(in).kind = "hello"
       THEN Negotiated(e, SharedCapabilities(caps[e], Head(in).body))
       ELSE /\ state' = [state EXCEPT ![e] = IF Head(in).kind = "empty" THEN "panicked"
                                             ELSE "failed"]
            /\ wire' = [wire EXCEPT ![Other(e)] = Tail(in)]
            /\ UNCHANGED <<shared, disconnected>>
    /\ UNCHANGED <<caps, sent, received>>

CanSend(e) == state[e] = "open" /\ ~disconnected[e] /\ Len(wire[e]) < WireBound

\* start_send of a subprotocol message.
SendSubprotocol(e, name, id) ==
    /\ CanSend(e)
    /\ Sendable(shared[e], name, id)   \* otherwise Ok(()), nothing sent
    /\ Put(e, Frame("subprotocol", WireId(shared[e], name, id), Subprotocol(name, id)))
    /\ UNCHANGED <<caps, state, shared, disconnected, sent, received>>

\* start_send of a Disconnect: this end neither sends nor receives any more.
SendDisconnect(e, reason) ==
    /\ CanSend(e)
    /\ disconnected' = [disconnected EXCEPT ![e] = TRUE]
    /\ Put(e, Frame("base", DisconnectPayload(reason), Disconnect(reason)))
    /\ UNCHANGED <<caps, state, shared, sent, received>>

\* poll_next.
Receive(e) ==
    LET in == wire[Other(e)] IN
    /\ state[e] = "open" /\ ~disconnected[e] /\ in # <<>>
    /\ wire' = [wire EXCEPT ![Other(e)] = Tail(in)]
    /\ sent' = [sent EXCEPT ![e] = Head(in).meant]
    /\ received' = [received EXCEPT ![e] =
         IF Head(in).kind = "base" THEN ParseDisconnect(Head(in).body)
                                   ELSE Delivered(shared[e], Head(in).body)]
    /\ disconnected' = [disconnected EXCEPT ![e] = Head(in).kind = "base"]
    /\ UNCHANGED <<caps, state, shared>>

Next ==
    \E e \in Ends :
        \/ SendHello(e) \/ RecvHello(e) \/ Refuse(e) \/ Receive(e)
        \/ \E c \in Capabilities, id \in MessageIds : SendSubprotocol(e, Name(c), id)
        \/ SendDisconnect(e, 0)

Spec == Init /\ [][Next]_vars

-----------------------------------------------------------------------------
(* Properties.                                                              *)

(***************************************************************************)
(* Reference definition of the negotiation: for every name that both ends  *)
(* have in a common version, the highest common one, in the order of names *)
(* and each once (peer.rs:303-323). It does not depend on the end: the two *)
(* compute their lists from opposite arguments and never compare them, and *)
(* agree all the same, which is what message ids depend on. A stream that  *)
(* was opened has at least one, as on_peer_connect expects                 *)
(* (main.rs:330-332: "peer without this cap would have been                *)
(* disconnected").                                                         *)
(***************************************************************************)
SharedBest ==
    \A e \in Ends : state[e] = "open" =>
        LET common == ToSet(caps[e]) \cap ToSet(caps[Other(e)])
            best == {c \in common : \A d \in common :
                                      Name(c) = Name(d) => Version(c) >= Version(d)}
        IN best # {} /\ ToSet(shared[e]) = best /\ Ascending(shared[e])

(***************************************************************************)
(* With a single shared capability, as the sentry registers (main.rs:625), *)
(* every message arrives with the name and the id it was sent with.        *)
(***************************************************************************)
RoundTripOneCapability ==
    \A e \in Ends :
        Len(shared[e]) = 1 /\ sent[e] # None /\ sent[e][1] = "subprotocol"
            => received[e] = sent[e]

(***************************************************************************)
(* The same for any number of capabilities: devp2p/README.md:8 has the     *)
(* node "register sub-protocols", and poll_next rejects only ids "out of   *)
(* cap range" (peer.rs:465).                                               *)
(***************************************************************************)
RoundTrip ==
    \A e \in Ends :
        sent[e] # None /\ sent[e][1] = "subprotocol" => received[e] = sent[e]

==============================================================================
