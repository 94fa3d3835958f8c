-------------------------------- MODULE Discv4 --------------------------------
(***************************************************************************)
(* The discovery node of discv4/src/node.rs: the egress and the ingress    *)
(* router with the channel between them, the ping timers, the pinger of    *)
(* oldest nodes, and lookups, which query the nodes nearest to a target.   *)
(*                                                                         *)
(* The peers and UDP are external: any datagram may arrive at any time, in *)
(* any order and any number of times, except that a Pong echoes a Ping     *)
(* that was sent.  Node records are ids; a node has one address.           *)
(***************************************************************************)
EXTENDS KBucket, FiniteSets

CONSTANTS
    Self,           \* our own id, which peers may name as a neighbour
    Lookups,        \* lookup_inner calls
    Distance,       \* [Lookups -> [Ids -> Nat]]: distances to each target
    Alpha,          \* ALPHA
    Bootstraps,     \* lists of bootstrap nodes
    Answers,        \* node lists of Neighbours messages
    MaxClock        \* seconds during which pings are sent

Ids == Nodes \cup {Self}

ASSUME DistanceAssumption == \A l \in Lookups : IsInjective(Distance[l])

ASSUME ListsAssumption ==
    /\ \A nodes \in Bootstraps : nodes \in Seq(Nodes)
    /\ \A nodes \in Answers : nodes \in Seq(Ids)

ASSUME ClockAssumption == MaxClock \in Nat

Queries == Lookups \X Ids
Pinger == <<"pinger", "pinger">>    \* the pinger's oneshot, among callbacks

\* The hash of a ping: its bytes hold the node and the second of its expiry.
Hashes == Nodes \X (0 .. MaxClock)

VARIABLES
    clock,          \* seconds
    egress,         \* egress_requests, a channel of one
    inflight,       \* inflight_ping_requests: hash -> callbacks
    timers,         \* hashes of spawned ping timers; one stands for all of its
                    \* bytes, as it may end at any time after its second
    ingress,        \* where the ingress router is
    expected,       \* expected_pings, as the queries that registered
    requests,       \* inflight_find_node_requests, as the queries
    channels,       \* the channel of one of each request, as a sequence
    at, found,      \* of each query: where it is, the nodes received
    lookup,         \* of each lookup: where it is, nearest, queried, responded
    pinger,         \* the oldest node pinger: where it is, which node
    sent, answered  \* history: hashes that went out; hashes whose Pong was taken
                    \* and of which no new ping was built since

vars == <<connected, clock, egress, inflight, timers, ingress, expected, requests,
          channels, at, found, lookup, pinger, sent, answered>>

router == <<connected, clock, inflight, timers, pinger, sent, answered>>

Idle == [at |-> "idle"]

\* Bootstrap nodes count as verified.
AddBootstrap(nodes) ==
    LET table[i \in 0 .. Len(nodes)] ==
          IF i = 0 THEN EmptyBucket ELSE AddVerified(table[i - 1], nodes[i])
    IN table[Len(nodes)]

Init ==
    /\ \E nodes \in Bootstraps : connected = AddBootstrap(nodes)
    /\ clock = 0 /\ egress = <<>> /\ inflight = <<>> /\ timers = {}
    /\ ingress = Idle /\ expected = {} /\ requests = {}
    /\ channels = [q \in Queries |-> <<>>]
    /\ at = [q \in Queries |-> "idle"] /\ found = [q \in Queries |-> {}]
    /\ lookup = [l \in Lookups |->
         [at |-> "idle", nearest |-> {}, queried |-> {}, responded |-> {}]]
    /\ pinger = Idle
    /\ sent = {} /\ answered = {}

\* Seconds pass; no ping is built in the last one, so that all timers can end.
Tick ==
    /\ clock < MaxClock
    /\ clock' = clock + 1
    /\ UNCHANGED <<connected, egress, inflight, timers, ingress, expected, requests,
                   channels, at, found, lookup, pinger, sent, answered>>

-----------------------------------------------------------------------------
(* Egress router.                                                           *)

Send(message) == egress = <<>> /\ egress' = <<message>>

\* A ping may wait for the channel after it was built, so that its second is
\* that of the clock or an earlier one.
SendPing(peer, node, cb) == \E second \in 0 .. clock :
    Send([type |-> "ping", peer |-> peer, node |-> node, cb |-> cb, second |-> second])
Reply(node) == [type |-> "reply", peer |-> node]

\* A callback that is sent to, or dropped unsent: the ends of its oneshot.
Resolve(cbs, outcome) ==
    /\ at' = [q \in Queries |-> IF q \in cbs /\ at[q] = "pong" THEN outcome ELSE at[q]]
    /\ pinger' = IF Pinger \in cbs /\ pinger.at = "pong"
                 THEN [pinger EXCEPT !.at = "resolved"] ELSE pinger

\* Messages to ourselves are dropped, with their callbacks.
EgressSelf ==
    /\ egress # <<>> /\ Head(egress).peer = Self
    /\ egress' = <<>>
    /\ Resolve({Head(egress).cb}, "pongless")
    /\ UNCHANGED <<connected, clock, inflight, timers, ingress, expected, requests,
                   channels, found, lookup, sent, answered>>

\* A ping with the bytes of one in flight joins it; otherwise it goes out, and
\* unless the socket fails a timer is started.  In flight it is either way.
EgressPing ==
    LET hash == <<Head(egress).node, Head(egress).second>>
        cb   == Head(egress).cb
    IN
    /\ egress # <<>> /\ Head(egress).peer # Self /\ Head(egress).type = "ping"
    /\ egress' = <<>>
    /\ IF hash \in DOMAIN inflight
       THEN /\ inflight' = [inflight EXCEPT ![hash] = @ \cup {cb}]
            /\ UNCHANGED <<timers, sent, answered>>
       ELSE /\ inflight' = [h \in DOMAIN inflight \cup {hash} |->
                              IF h = hash THEN {cb} ELSE inflight[h]]
            /\ answered' = answered \ {hash}
            /\ \/ timers' = timers \cup {hash} /\ sent' = sent \cup {hash}
               \/ UNCHANGED <<timers, sent>>
    /\ UNCHANGED <<connected, clock, ingress, expected, requests, channels, at, found,
                   lookup, pinger>>

\* Pong, FindNode and Neighbours just go out.
EgressReply ==
    /\ egress # <<>> /\ Head(egress).peer # Self /\ Head(egress).type = "reply"
    /\ egress' = <<>>
    /\ UNCHANGED <<connected, clock, inflight, timers, ingress, expected, requests,
                   channels, at, found, lookup, pinger, sent, answered>>

\* Defective variant of PingTimeout: evicts whether or not the Pong came.
PingTimeoutBlind(hash) ==
    /\ hash \in timers /\ clock > hash[2]
    /\ timers' = timers \ {hash}
    /\ inflight' = Restrict(inflight, DOMAIN inflight \ {hash})
    /\ connected' = RemoveNode(connected, hash[1])
    /\ Resolve(IF hash \in DOMAIN inflight THEN inflight[hash] ELSE {}, "pongless")
    /\ UNCHANGED <<clock, egress, ingress, expected, requests, channels, found,
                   lookup, sent, answered>>

\* PING_TIMEOUT after a ping: no Pong took it out, so the node may be replaced.
PingTimeout(hash) ==
    /\ hash \in timers /\ clock > hash[2]
    /\ timers' = timers \ {hash}
    /\ IF hash \in DOMAIN inflight
       THEN /\ inflight' = Restrict(inflight, DOMAIN inflight \ {hash})
            /\ connected' = RemoveNode(connected, hash[1])
            /\ Resolve(inflight[hash], "pongless")
       ELSE UNCHANGED <<inflight, connected, at, pinger>>
    /\ UNCHANGED <<clock, egress, ingress, expected, requests, channels, found,
                   lookup, sent, answered>>

-----------------------------------------------------------------------------
(* Ingress router: one datagram after the other.                            *)

RecvPing(node) ==
    /\ ingress = Idle
    /\ connected' = AddVerified(connected, node)
    /\ ingress' = [at |-> "pong", node |-> node]
    /\ UNCHANGED <<clock, egress, inflight, timers, expected, requests, channels, at,
                   found, lookup, pinger, sent, answered>>

\* Once the Pong is accepted, the queries that expect a ping from there are told.
IngressPong ==
    /\ ingress.at = "pong"
    /\ Send(Reply(ingress.node))
    /\ expected' = {q \in expected : q[2] # ingress.node}
    /\ ingress' = Idle
    /\ UNCHANGED <<router, requests, channels, at, found, lookup>>

\* "Did we actually ask for this? Ignore message if not."
RecvPong(hash) ==
    /\ ingress = Idle
    /\ hash \in sent /\ hash \in DOMAIN inflight
    /\ inflight' = Restrict(inflight, DOMAIN inflight \ {hash})
    /\ answered' = answered \cup {hash}
    /\ Resolve(inflight[hash], "ponged")
    /\ UNCHANGED <<connected, clock, egress, timers, ingress, expected, requests,
                   channels, found, lookup, sent>>

\* Nodes outside the table are ignored.
RecvFindNode(node) ==
    /\ ingress = Idle
    /\ InBucket(connected, node)
    /\ ingress' = [at |-> "neighbours", node |-> node]
    /\ UNCHANGED <<router, egress, expected, requests, channels, at, found, lookup>>

IngressNeighbours ==
    /\ ingress.at = "neighbours"
    /\ Send(Reply(ingress.node))
    /\ ingress' = Idle
    /\ UNCHANGED <<router, expected, requests, channels, at, found, lookup>>

\* add_seen of each node of a list; our own id has no bucket.
AddAllSeen(k, nodes) ==
    LET table[i \in 0 .. Len(nodes)] ==
          IF i = 0 THEN k
          ELSE IF nodes[i] = Self THEN table[i - 1]
          ELSE AddSeen(table[i - 1], nodes[i])
    IN table[Len(nodes)]

RecvNeighbours(node, nodes) ==
    LET cbs == {q \in requests : q[2] = node} IN
    /\ ingress = Idle /\ cbs # {}
    /\ connected' = AddAllSeen(connected, nodes)
    /\ ingress' = [at |-> "deliver", cbs |-> cbs, nodes |-> ToSet(nodes)]
    /\ UNCHANGED <<clock, egress, inflight, timers, expected, requests, channels, at,
                   found, lookup, pinger, sent, answered>>

Listening(q) == at[q] \in {"find", "waiting", "collecting"}

\* Defective variant of IngressDeliver: a receiver that went away is waited for.
IngressDeliverBlocks(q) ==
    /\ ingress.at = "deliver" /\ q \in ingress.cbs
    /\ Listening(q) /\ channels[q] = <<>>
    /\ channels' = [channels EXCEPT ![q] = <<ingress.nodes>>]
    /\ ingress' = IF ingress.cbs = {q} THEN Idle
                  ELSE [ingress EXCEPT !.cbs = @ \ {q}]
    /\ UNCHANGED <<router, egress, expected, requests, at, found, lookup>>

\* cb.send(..).await: waits for room, fails when the receiver is gone.
IngressDeliver(q) ==
    /\ ingress.at = "deliver" /\ q \in ingress.cbs
    /\ \/ /\ Listening(q) /\ channels[q] = <<>>
          /\ channels' = [channels EXCEPT ![q] = <<ingress.nodes>>]
       \/ ~Listening(q) /\ UNCHANGED channels
    /\ ingress' = IF ingress.cbs = {q} THEN Idle
                  ELSE [ingress EXCEPT !.cbs = @ \ {q}]
    /\ UNCHANGED <<router, egress, expected, requests, at, found, lookup>>

-----------------------------------------------------------------------------
(* A query: ping, await Pong, give the node time to ping us, FindNode,      *)
(* collect Neighbours; all within FIND_NODE_TIMEOUT.                        *)

Local == <<connected, clock, inflight, timers, ingress, lookup, pinger, sent,
           answered>>

QueryPing(q) ==
    /\ at[q] = "ping" /\ clock < MaxClock
    /\ SendPing(q[2], q[2], q)
    /\ at' = [at EXCEPT ![q] = "pong"]
    /\ UNCHANGED <<Local, expected, requests, channels, found>>

QueryPonged(q) ==
    /\ at[q] = "ponged"
    /\ at' = [at EXCEPT ![q] = "await"]
    /\ UNCHANGED <<Local, egress, expected, requests, channels, found>>

\* The expected ping came, or QUERY_AWAIT_PING_TIME passed.
QueryAdd(q) ==
    /\ at[q] = "await"
    /\ requests' = requests \cup {q}
    /\ at' = [at EXCEPT ![q] = "find"]
    /\ UNCHANGED <<Local, egress, expected, channels, found>>

QueryFindNode(q) ==
    /\ at[q] = "find"
    /\ Send(Reply(q[2]))
    /\ at' = [at EXCEPT ![q] = "waiting"]
    /\ UNCHANGED <<Local, expected, requests, channels, found>>

QueryRecv(q) ==
    /\ at[q] \in {"waiting", "collecting"} /\ channels[q] # <<>>
    /\ found' = [found EXCEPT ![q] = @ \cup Head(channels[q])]
    /\ channels' = [channels EXCEPT ![q] = <<>>]
    /\ at' = [at EXCEPT ![q] = "collecting"]
    /\ UNCHANGED <<Local, egress, expected, requests>>

\* Defective variant of QueryEnd: the whole entry of the node is dropped.
QueryEndNode(q, outcome) ==
    /\ requests' = {r \in requests : r[2] # q[2]}
    /\ expected' = expected \ {q}
    /\ channels' = [channels EXCEPT ![q] = <<>>]
    /\ at' = [at EXCEPT ![q] = outcome]
    /\ found' = [found EXCEPT ![q] = IF outcome = "some" THEN @ ELSE {}]
    /\ UNCHANGED <<Local, egress>>

\* Defective variant of QueryEnd: the expected ping stays registered.
QueryEndExpecting(q, outcome) ==
    /\ requests' = requests \ {q}
    /\ channels' = [channels EXCEPT ![q] = <<>>]
    /\ at' = [at EXCEPT ![q] = outcome]
    /\ found' = [found EXCEPT ![q] = IF outcome = "some" THEN @ ELSE {}]
    /\ UNCHANGED <<Local, egress, expected>>

\* The guard, the receiver and the expected ping go.
QueryEnd(q, outcome) ==
    /\ requests' = requests \ {q}
    /\ expected' = expected \ {q}
    /\ channels' = [channels EXCEPT ![q] = <<>>]
    /\ at' = [at EXCEPT ![q] = outcome]
    /\ found' = [found EXCEPT ![q] = IF outcome = "some" THEN @ ELSE {}]
    /\ UNCHANGED <<Local, egress>>

\* No more Neighbours within NEIGHBOURS_WAIT_TIMEOUT.
QuerySome(q) == at[q] = "collecting" /\ channels[q] = <<>> /\ QueryEnd(q, "some")

\* "Pong timeout", or "No neigbours received".
QueryNone(q) ==
    /\ at[q] = "pongless" \/ (at[q] = "waiting" /\ channels[q] = <<>>)
    /\ QueryEnd(q, "none")

\* FIND_NODE_TIMEOUT: what was collected is lost.
QueryTimeout(q) ==
    /\ at[q] \in {"ping", "pong", "await", "find", "waiting", "collecting"}
    /\ QueryEnd(q, "none")

-----------------------------------------------------------------------------
(* lookup_inner.                                                            *)

Nearest(l, ids) ==
    {n \in ids : Cardinality({m \in ids : Distance[l][m] < Distance[l][n]}) < Alpha}

LookupStart(l) ==
    /\ lookup[l].at = "idle"
    /\ lookup' = [lookup EXCEPT ![l].at = "pick",
                                ![l].nearest = Nearest(l, ToSet(connected.bucket))]
    /\ UNCHANGED <<router, egress, ingress, expected, requests, channels, at, found>>

\* Defective variant of LookupPick: picked nodes are not marked as queried.
LookupPickAgain(l) ==
    LET picked == Nearest(l, lookup[l].nearest) \ lookup[l].queried IN
    /\ lookup[l].at = "pick"
    /\ IF picked = {}
       THEN lookup' = [lookup EXCEPT ![l].at = "ended"] /\ UNCHANGED <<expected, at>>
       ELSE /\ lookup' = [lookup EXCEPT ![l].at = "round"]
            /\ expected' = expected \cup ({l} \X picked)
            /\ at' = [q \in Queries |-> IF q \in {l} \X picked THEN "ping" ELSE at[q]]
    /\ UNCHANGED <<router, egress, ingress, requests, channels, found>>

\* A round queries those of the ALPHA nearest that were not queried yet.
LookupPick(l) ==
    LET picked == Nearest(l, lookup[l].nearest) \ lookup[l].queried IN
    /\ lookup[l].at = "pick"
    /\ IF picked = {}
       THEN lookup' = [lookup EXCEPT ![l].at = "ended"] /\ UNCHANGED <<expected, at>>
       ELSE /\ lookup' = [lookup EXCEPT ![l].at = "round", ![l].queried = @ \cup picked]
            /\ expected' = expected \cup ({l} \X picked)
            /\ at' = [q \in Queries |-> IF q \in {l} \X picked THEN "ping" ELSE at[q]]
    /\ UNCHANGED <<router, egress, ingress, requests, channels, found>>

\* join_all: every query of the round has ended.
LookupJoin(l) ==
    LET ok == {n \in Ids : at[<<l, n>>] = "some"} IN
    /\ lookup[l].at = "round"
    /\ \A n \in Ids : at[<<l, n>>] \in {"idle", "some", "none"}
    /\ lookup' = [lookup EXCEPT
         ![l].at = "pick", ![l].responded = @ \cup ok,
         ![l].nearest = @ \cup UNION {found[<<l, n>>] : n \in ok}]
    /\ at' = [q \in Queries |-> IF q[1] = l THEN "idle" ELSE at[q]]
    /\ found' = [q \in Queries |-> IF q[1] = l THEN {} ELSE found[q]]
    /\ UNCHANGED <<router, egress, ingress, expected, requests, channels>>

-----------------------------------------------------------------------------
(* The oldest node pinger names us, not the node, as the ping's peer.       *)

Rest == <<connected, clock, inflight, timers, ingress, expected, requests, channels,
          at, found, lookup, sent, answered>>

PingerPick ==
    /\ pinger = Idle /\ Filled(connected)
    /\ pinger' = [at |-> "ping", node |-> Oldest(connected)]
    /\ UNCHANGED <<Rest, egress>>

PingerPing ==
    /\ pinger.at = "ping" /\ clock < MaxClock
    /\ SendPing(Self, pinger.node, Pinger)
    /\ pinger' = [pinger EXCEPT !.at = "pong"]
    /\ UNCHANGED Rest

PingerSleep ==
    /\ pinger.at = "resolved"
    /\ pinger' = Idle
    /\ UNCHANGED <<Rest, egress>>

-----------------------------------------------------------------------------
Egress == EgressSelf \/ EgressPing \/ EgressReply \/ \E hash \in Hashes : PingTimeout(hash)

Ingress ==
    \/ \E node \in Nodes : \/ RecvPing(node) \/ RecvFindNode(node)
                           \/ \E nodes \in Answers : RecvNeighbours(node, nodes)
    \/ \E hash \in Hashes : RecvPong(hash)
    \/ IngressPong \/ IngressNeighbours
    \/ \E q \in Queries : IngressDeliver(q)

Query(q) ==
    \/ QueryPing(q) \/ QueryPonged(q) \/ QueryAdd(q) \/ QueryFindNode(q)
    \/ QueryRecv(q) \/ QuerySome(q) \/ QueryNone(q) \/ QueryTimeout(q)

Lookup(l) == LookupStart(l) \/ LookupPick(l) \/ LookupJoin(l)

Next ==
    \/ Tick \/ Egress \/ Ingress
    \/ \E q \in Queries : Query(q)
    \/ \E l \in Lookups : Lookup(l)
    \/ PingerPick \/ PingerPing \/ PingerSleep

Spec == Init /\ [][Next]_vars

\* Tasks are polled and timeouts expire; tokio's channels serve the waiting
\* senders in order, so the ingress router gets its turn at the egress channel.
Fairness ==
    /\ WF_vars(EgressSelf \/ EgressPing \/ EgressReply)
    /\ SF_vars(IngressPong) /\ SF_vars(IngressNeighbours)
    /\ \A q \in Queries :
          /\ WF_vars(IngressDeliver(q)) /\ WF_vars(QueryPonged(q))
          /\ WF_vars(QueryNone(q)) /\ WF_vars(QueryTimeout(q))
    /\ \A l \in Lookups : WF_vars(LookupPick(l)) /\ WF_vars(LookupJoin(l))

FairSpec == Spec /\ Fairness

-----------------------------------------------------------------------------
(* Properties.                                                              *)

Busy(q) == at[q] \notin {"idle", "some", "none"}

(***************************************************************************)
(* A FindNode request is registered exactly as long as its query listens,  *)
(* whatever other queries of the same node do: its guard finds it (the     *)
(* assertion of node.rs:181), and its channel has a sender ("we drop the   *)
(* sending channel, not the ingress router", node.rs:798).                 *)
(***************************************************************************)
RequestsOwned == requests = {q \in Queries : Listening(q)}

(***************************************************************************)
(* An expected ping is registered only for a query that still runs, so     *)
(* neither an answer nor a timeout leaves one behind (node.rs:811-817).    *)
(***************************************************************************)
ExpectedOwned == \A q \in expected : Busy(q)

(***************************************************************************)
(* A node loses its place in the table only to a ping that went out, whose *)
(* time is over and to which no Pong was taken since a ping of the same    *)
(* bytes was last built, however late the timer (node.rs:383-391, 499-510).*)
(* It does not say that the later ping went out: if the socket refuses a   *)
(* repetition of an answered ping, that ping's timer finds an entry and    *)
(* evicts a node that answered all it was sent (node.rs:376-377).          *)
(***************************************************************************)
EvictedUnanswered ==
    [][ \A n \in ToSet(connected.bucket) \ ToSet(connected'.bucket) :
          \E s \in 0 .. MaxClock : /\ s < clock /\ <<n, s>> \in sent
                                   /\ <<n, s>> \notin answered
      ]_vars

(***************************************************************************)
(* A lookup ends, whatever its peers answer or do not answer: a query has  *)
(* a deadline and no node is queried twice (node.rs:711-868).              *)
(***************************************************************************)
LookupEnds == \A l \in Lookups : lookup[l].at = "pick" ~> lookup[l].at = "ended"

(***************************************************************************)
(* The ingress router waits for room in the channels of the queries and of *)
(* the egress router, but never for good: it returns to the socket         *)
(* (node.rs:477-487, 535-546, 568-570).                                    *)
(***************************************************************************)
IngressServes == ingress # Idle ~> ingress = Idle

(***************************************************************************)
(* node.rs:620 names the task "discv4 oldest node pinger": once it has its *)
(* answer, or the sender was dropped, the ping has gone out.               *)
(***************************************************************************)
OldestPinged ==
    pinger.at = "resolved" => \E s \in 0 .. MaxClock : <<pinger.node, s>> \in sent

==============================================================================
