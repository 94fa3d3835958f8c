# Ethereum Sentry: a TLA+ model of its peers, sessions and discovery

The sentry listens to Ethereum's P2P network, answers other nodes and gives its
clients a gRPC interface to the network. This directory models the parts of it
that carry state: the RLPx peer table, the tasks of a session, the protocol
handler's tables, the gRPC service, the encrypted stream below a connection and
the negotiation and multiplexing on top of it, the discv4 discovery node and DNS
discovery. TLC checks the models on small instances; TLAPS proves almost all of
the safety properties, and the refinements, for every instance.

## The system

| Part | Source | State | Operations | Talks to |
|---|---|---|---|---|
| RLPx swarm | `devp2p/src/rlpx.rs` | `PeerStreams::mapping` (identity -> Connecting or Connected), `currently_connecting`, `current_peers` | `add_peer`, `add_peer_inner`, reaper, dialer loop, `handle_incoming`, `disconnect_peer` | node filter, discovery, session, capability server |
| Node filter | `devp2p/src/node_filter.rs` | peer limit, ban list | `allow` | swarm |
| Session | `rlpx.rs`, `setup_peer_state` | channels of pings, pongs and disconnect signals, the `pinged` flag | ingress router, egress router & disconnector, pinger | `PeerStream`, capability server |
| Capability server | `src/main.rs` | `peer_pipes`, `valid_peers`, `status_message`, block tracker | `on_peer_connect`, `on_peer_event`, `next`, `handle_event`, `teardown_peer` | session, gRPC service, data provider, control |
| gRPC service | `src/services/sentry.rs` | none of its own | five calls, each a set of concurrent sends | capability server |
| PeerStream | `devp2p/src/peer.rs` | shared capabilities, `disconnected` | hello exchange, `poll_next`, `start_send` | ECIES stream |
| Kademlia table | `discv4/src/kad.rs` | 256 buckets, each with replacements | `add_verified`, `add_seen`, `remove`, `oldest`, `neighbours` | discv4 node |
| discv4 node | `discv4/src/node.rs` | in-flight pings and FindNodes, expected pings | egress and ingress router, ping timers, oldest node pinger, lookups | UDP, table |
| ECIES stream | `devp2p/src/ecies/`, `mac.rs` | state of the codec, keys, key streams and MACs of both directions | `connect`, `incoming`, `decode`, `encode` | TCP |
| DNS discovery | `dnsdisc/src/lib.rs`, `devp2p/src/disc/dns.rs` | a task for each record of the tree, a channel of one at each branch, the pump's channel | `query`, `resolve_tree`, `resolve_branch`, the pump's loop | DNS, dialer |
| Other adapters | `devp2p/src/disc.rs`, `disc/v4.rs`, `disc/v5.rs` | channel of node records | `next` | dialer |

What is hard about it:

- **Concurrency.** The lock on the peer table is released while a dial connects;
  four kinds of tasks (dials, reapers, inbound set-ups, egress routers) then meet
  on one entry. A session's three tasks run on different threads and share the
  capability server's tables with gRPC calls.
- **Cancellation.** Timeouts drop futures, and dropping a task group cancels a
  task only at its next await that is not ready. Clean-up is done by somebody else (the reaper, the
  egress router), who may come late.
- **Bounded channels.** Everything is a channel of one: the outbound events of a
  peer, pings, pongs, the discv4 egress queue, the answers to a query.
- **An unreliable other side.** Remote nodes answer late, twice, wrongly or
  never; datagrams get lost and repeated; a stream arrives in arbitrary portions,
  breaks off or is altered; DNS lookups fail and records are wrong.
- **State that both ends derive on their own.** Keys, MACs, the position in a key
  stream, shared capabilities: nothing but the next message shows a disagreement.

`PROJECT.json` lists these as hazards, each at its line, with the property that
covers it or the reason why none does.

## Modules

An action is a section of code that runs without an await, or under one lock.
Names follow the source. Definitions marked "Defective variant" are plausible
bugs of the definition below them; each property is known to fail under one.

**PeerTable** is the abstract specification: a remote identity is absent,
dialing, live or closing, moves in that order, and a full table takes nobody in
but manual peers. `Swarm` implements it for all peers at once, `PeerSession`
(which opens one session up) for one peer. This ties the two together: `Swarm`
sees a session only as `Teardown` followed by `DisconnectPeer`, and `PeerSession`
shows that sessions do keep to that.

**Swarm** models the peer table. `mapping[p]` is `Vacant`, `Connected` or the id
of the dial that reserved the entry. A dial is the future of `add_peer_inner`
(`pc`), with its oneshot (`rx`) to the reaper. `Poll` is the first poll up to the
TCP connect, `ConnectOk` and `ConnectErr` what happens when the lock is taken
again, `Drop` the dialer's timeout or a caller that gives up, `Reap` the reaper.
`ConnectPanic` is a handshake that panics, which the addresses of some identities
(`Faulty`) may provoke: the dialer's task is gone, its identity stays in
`current_peers`.
`DialerCheck`, `DialerDiscovered`, `DialerSkip`, `DialerQuit` and `DialTaskEnd`
are the dialer; `Accept`, `AcceptErr`, `IncomingOk` and `IncomingErr` the
listener. The counter wraps like `usize`, at `CounterMod`. Which identity
discovery yields, and which one an inbound handshake reveals, is free.

**PeerSession** models successive sessions of one identity. The ingress router
is either reading, handling a message, awaiting a service, or blocked on a
channel; the egress router is in its select, writing, in the grace period after
a Disconnect, tearing down or removing the entry; the pinger pings, waits for
its ping to be written, and sleeps. Contents of messages are reduced to what the
control flow tells apart. `CancelTasks` moves an ingress router that is in the
middle of a poll to the actor `Stale`, which runs to the first await that is not
ready, past messages, answers and room in channels that are there already, while
the next session may start. Panics are states (`panicked`): of the ingress router in
`poll_next` and in the unwrap of `on_peer_event`, of the egress router in the
frame encoder.

**BlockTracker** models the two maps of `BlockTracker` and its range query;
**SentryService** extends it with sessions that come and go and with gRPC calls.
A call chooses its peers once; each future looks its sender up, waits for room
and reports. Replies of the ingress router compete for the same channel.

**PeerStream** models both ends of a connection: the hello exchange, the
negotiation (its loops as recursive functions over the list), the mapping of
message ids to the wire and back, and Disconnect with its payload. In place of its
hello another implementation may send a Disconnect or an empty frame, which makes
`PeerStream::new` panic. `sent` and `received` remember what the sender of the last
frame meant and what `poll_next` made of it.

**KBucket** models one bucket of the table as a pair of sequences; buckets share
nothing. **Discv4** extends it with the node's tasks. A ping's hash is the node
and the second of its expiry, because the code hashes the encoded message and
equal bytes share an in-flight entry. A query `<<lookup, node>>` goes through
ping, pong, await, find, waiting, collecting, and ends with some neighbours or
none. Datagrams arrive at any time and in any number; a Pong only for a ping
that was sent. A timer may fire at any time after its second, so one stands for all timers of
the same bytes. A ping that waited for the egress channel carries the second in
which it was built: any up to the present one. `Bootstraps` are
the lists of nodes that the program may be started with.

**FrameChannel** is the abstract specification of an encrypted connection: two
ends open, the dialing one last, and frames arrive unchanged, once and in order,
until an end leaves. **ECIES** implements it, with both ends in one model.
Cryptography is symbolic: a shared secret is the unordered pair of keys, a hash
the tuple of what went into it, a ciphertext opens with its key at its position
of the key stream. Bytes are counted: a stream is a sequence of pieces (Auth, Ack,
header, body) with their sizes, and the reader's buffer holds some number of
their bytes. `Transfer` adds to it in any portions, and if the codec takes a
number of bytes that is not the next piece, it gets garbage (`Taken`). The size in
front of an Auth or Ack is what the codec believes (`total_size`), and it may be
altered (`resized`): then the tag is wrong, or, if the message is shorter than its
fixed parts (`Fixed`, 115 bytes), splitting it panics (`DecryptFails`). `SendAuth`
and `SendAck` are the steps of `connect` and `incoming`, the `Decode` actions the
arms of `decode`, `Encode` the writing of a frame. The network (`Transfer`,
`Alter`, `Cut`) is external; `Close` is an owner that drops the stream, which is
also how the swarm's timeouts appear here. `Keys` is the set of everything an end
can have as keys of one direction; `None` stands for their absence.

**DnsDisc** models a query as a tree of pollers, each named by the path of names
it went through, with a channel of one towards the poller above. `Lookup` and
`LookupRoot` are what a task does with its record, `Receive`, `BranchEnds` and
`Send` how results move up, `LookupFails` a failing DNS server. A task that
stops at an error no longer hears its tasks, which go on; the pump's own stream
hears until the pump has passed the error on. The `Pump` actions are
the loop of `disc/dns.rs`: nodes without a TCP socket, errors, the time limit and
the restart, during which tasks of the old query still run. A text is a record,
but what `get_record` and `from_str` do to it is kept: only the first
character-string is read, a branch is a set, other prefixes are errors. Which
names are `Below` a record and which trees are `Reached` is defined apart from the
tasks, as the smallest sets closed under children and allowed links.

**MCPeerStream, MCECIES, MCDiscv4, MCDnsDisc** define the small instances; the
other runs use their module directly.
**SwarmProofs, PeerSessionProofs, SentryServiceProofs** (which includes the block
tracker's), **PeerStreamProofs, Discv4Proofs** (which includes the bucket's),
**DnsDiscProofs, ECIESProofs** hold the theorems, **Induction** what `PeerStreamProofs`,
`Discv4Proofs` and `ECIESProofs` need of induction over naturals.

## Runs

| Run | Checks | Shows |
|---|---|---|
| `swarm` | `OwnEntry`, `EntryOwned`, `PipesOwned`, `PoolLimit`, `DialerExclusive`, `DialingCount`, `SessionsEndByTeardown`, `ImplementsPeerTable`, `ReservationEnds`, `RedialPossible` | Whatever the interleaving, a dial finds its own entry, no entry is orphaned, no session is cut off, the limit holds for peers that had to pass the filter, the dialing counter follows the attempts, no reservation stays for good, and no identity in `current_peers` whose dial did not panic. |
| `session` | `TypeOK`, `PipesFollowSession`, `NextNotAfterDisconnect`, `ImplementsPeerTable`, `DisconnectHonoured`, `SilentPeerDropped`, `PingerNotStranded` | The capability server's pipes follow the session through every error path; disconnections that were asked for happen and silent peers go, even if the ingress router is stuck or dead; if the egress router dies, the pinger ends. |
| `session_departed_not_valid` | `DepartedPeerNotValid` | Violated; see below. |
| `sentry_service` | `MapsAgree`, `QueryCorrect`, `TrackerFollowsPipes`, `SentExactlyOnce`, `CallsAnswer` | A message goes to one session at most and is reported exactly then; calls answer. |
| `peer_stream` | `SharedBest`, `RoundTripOneCapability` | Independent negotiations agree with each other and with a reference definition; with one capability ids survive the wire. |
| `peer_stream_round_trip` | `RoundTrip` | Violated; see below. |
| `ecies` | `FailsForAReason`, `KeysAgree`, `ImplementsChannel`, `HandshakeSettles`, `FramesArrive` | Both ends derive the same keys and find the same boundaries however the bytes are portioned; nothing fails without a broken connection, an alteration, a wrong id or an end that left, and only a handshake message of an altered size panics; altered frames are never handed out. |
| `discv4` | `QueuesBounded`, `ReplacementsWaitForRoom`, `NeverRunsDry`, `ExpectedOwned`, `EvictedUnanswered` | The bounds that `neighbours()` relies on, a bucket that does not shrink while it has replacements, a node is replaced only over a ping of which no Pong was taken, no registration leaks. |
| `discv4_lookups` | `RequestsOwned`, `LookupEnds`, `IngressServes` | Concurrent lookups of one node do not disturb each other, end, and do not block the ingress router for good. |
| `discv4_oldest_pinged` | `OldestPinged` | Violated; see below. |
| `dns` | `OnlyTreeNodes`, `CompleteQuery`, `QueriesEnd` | Nodes come only from trees that are allowed and signed; a query without an error has found them all; queries and all their tasks end. |
| `dns_long_branch` | `CompleteQuery` | Violated; see below. |

### Bounds

- `swarm`: three peers, one of them manual, two dials, one inbound slot, limit
  one. Two dials are enough for a dial, its late reaper and a second dial of the
  same identity; the limit is reached and contended by checked and unchecked
  peers. The handshake of one identity may panic. `CounterMod = 2`, so that the
  counter wraps. No symmetry, because the
  run checks liveness. The theorems cover all other sizes.
- `session`: one session up to the end of its last task, oversized frames
  included. A left-over task meeting the next session is not reached here: the
  theorems cover it for all safety properties and the refinement. The three liveness
  properties are checked for one session only.
- `sentry_service`: two peers with three sessions each and one call. Calls affect
  each other only through the channel, where replies stand for any competitor.
- `peer_stream`: all pairs of subsets of three capabilities over two names, with
  lengths 2, 17 (eth's) and 3, ids at both ends of the ranges, two frames in
  flight each way.
- `ecies`: blocks of two bytes, an Auth and an Ack of four bytes, the first two
  their size and the first three the fixed parts, messages of no bytes and of three (so that padding
  happens and does not), two frames one way and one the other, one altered piece.
  Every portioning at byte granularity happens. A size is altered to one below the
  fixed parts, one that just holds them and one that is longer than the message.
- `discv4`: three nodes for a bucket of two with one replacement, so that buckets
  are full and evictions happen; two seconds (`MaxClock`), so that two pings of
  one node have different bytes; one lookup, one query at a time (`Alpha = 1`).
  `discv4_lookups` has the concurrent queries: one node, two lookups. That lookups
  share pings while replacements wait needs more than either run has; there the
  theorem about `EvictedUnanswered` is what counts.
- `dns`: two queries, so that tasks of the first meet the second, one failing
  lookup, and eight zones: a plain one with a link to a second tree and a name
  that is missing, and one for each thing that can be wrong (signer, whitelist, a
  link among the nodes, a node in place of the links, no root, no record, a
  sequence number already seen). `TxtHashes` is 8, as in
  the DNS; `dns_long_branch` lowers it to 2 for a branch of three, the same cut.
- `CHECK_DEADLOCK FALSE` appears where sessions, seconds, frames or queries run
  out, or where everybody may be waiting for remote nodes.

### Fairness

- *Swarm*: tasks that are ready are polled, and the dialer's timeout expires.
  Nothing is assumed of remote nodes, of callers of `add_peer`, or of when
  sessions end.
- *PeerSession*: timers fire and ready tasks are polled (weak fairness).
  `tokio::select!` starts at a random branch, so a branch that is ready again and
  again is taken (strong fairness of the select's branches). Reads, writes and
  service calls may never return; the properties that need writes to return say
  so themselves (`[]<>~Writing`).
- *SentryService*: futures are polled; the semaphore of a tokio channel is fair, so
  a waiting sender gets its turn if the channel is emptied again and again
  (strong fairness of `Deliver`). `CallsAnswer` itself assumes that sessions drain
  their channels or end.
- *Discv4*: tasks are polled, every query has a deadline (`FIND_NODE_TIMEOUT`),
  senders waiting for the egress channel are served in order (strong fairness of
  the ingress router's sends). Nothing is assumed of the network.
- *ECIES*: bytes that were written arrive unless the connection breaks, and tasks
  whose bytes are there are polled. Nobody has to send a frame or to leave. An end
  that was told a size beyond what was written waits until its owner's timeout
  (`rlpx.rs:36`, `rlpx.rs:39`), which is a `Close` that nothing forces here;
  `HandshakeSettles` exempts it (`Misled`).
- *DnsDisc*: lookups return, with a record or an error, tasks are polled, and the
  dialer asks for the next node.

## Where the code and its documentation disagree

Checked by a run:

- `src/main.rs:201`: a Status being handled when the session ends is still
  recorded, because cancellation waits for an await. The departed peer stays in
  `valid_peers`, against the comment at `rlpx.rs:319`, and its next session is
  valid before any Status.
- `devp2p/src/peer.rs:457`: the loop that finds the capability of a message id
  compares with `>` and does not stop. With two shared capabilities the first
  message of the second goes to the first. The sentry registers a single one, for
  which `RoundTripOneCapability` holds.
- `discv4/src/node.rs:640`: the oldest node pinger addresses its ping to our own
  id; the egress router drops it (`node.rs:293`).

- `dnsdisc/src/backend/trust_dns.rs:26`: only the first character-string of a TXT
  record is read. A branch of more than eight hashes loses children, and the
  query still ends as "complete" (`lib.rs:390`).

Met while modelling, part of the models, without a run of their own:

- `rlpx.rs:700`: `add_peer` never asks the node filter, though `rlpx.rs:695` says
  so. The pool outgrows `max_peers`; `PoolLimit` is stated for checked peers.
- `rlpx.rs:745`: the reaper decrements the dialing counter even for a future that
  was dropped before its first poll, which is where it is incremented. The
  counter wraps; `DialingCount` says that it drifts in this case only.
- `main.rs:376`: the sender of a peer is unwrapped after awaits during which the
  peer may have been torn down (`Reply` in `PeerSession` panics).
- `ecies/algorithm.rs:471`: a frame of 2^24 bytes or more panics the egress
  router, so the line that `rlpx.rs:318` calls guaranteed is not executed and the
  entry stays (`SendPanic`). `DisconnectHonoured` and `SilentPeerDropped` exempt this
  case; `PingerNotStranded` says that the pinger at least ends.
- `rlpx.rs:670`: the dialer's task removes its identity from `current_peers` after
  the attempt, but not if the attempt panics, and it can: at `peer.rs:271` on an
  empty hello frame, at `ecies/algorithm.rs:210-214` on an Ack below 115 bytes. The
  identity is then never dialed again. `RedialPossible` leaves out the `Faulty`
  identities and says that nothing else keeps one; the entry in the peer table is
  given back in any case (`ReservationEnds`).
- `ecies/algorithm.rs:210`: an Auth or Ack is split at fixed offsets before it is
  authenticated. `FailsForAReason` says that the codec panics in this case only.
- `peer.rs:519`: our Disconnect is a bare RLP value, `peer.rs:415` expects a list
  (`DisconnectPayload`, `ParseDisconnect`).
- `kad.rs:42`: a node can be queued twice as a replacement and then be promoted
  twice into the bucket.
- `node.rs:376`: if two lookups ping a node within one second, and the socket
  refuses the second ping after the first was answered, the second has already
  reopened the in-flight entry of the same bytes, and the timer of the first
  evicts a node that answered everything it was sent. A proof of
  `EvictedUnanswered` in a stronger form failed here; the property now says
  "since a ping of the same bytes was last built".
- `node.rs:523`: "Only send to nodes that have been proofed", but the table also
  holds nodes that were only named by others (`AddSeen`).
- `dnsdisc/src/lib.rs:286`: trees that link to each other are resolved for ever;
  nothing remembers which were visited. `QueriesEnd` is checked for zones without
  cycles.
- `disc/dns.rs:46`: a query that ended, even with an error, is repeated without a
  pause (`PumpRestarts`).

Outside the models:

- `devp2p/src/disc.rs:43`: the stream of reserved peers (`src/main.rs:513`, "Enabling
  reserved peers") yields its first entry on every call, so the others are not
  dialed.
- `dnsdisc/src/lib.rs:87`: a root's signature is printed in padded BASE64 but parsed
  (`lib.rs:156`) as BASE64URL without padding.

## Proofs

Every theorem holds for all values of the constants that meet the named
assumptions. TLC evaluates these on every run, and each asks only for what the
program guarantees: sizes are naturals, model values that stand for different
things differ, lists hold nodes. The parts of the larger inductive invariants
(those of `ECIES`, `DnsDisc` and `PeerStream`) were checked by TLC on the run's instance before they were proved.

**`SwarmProofs`**, for any finite set of peers, finitely many dials, any inbound
slots, manual and banned peers, any `MaxPeers` and any counter width
(`EntryAssumption`, `PeersAssumption`, `DialsAssumption`, `BoundsAssumption`):

- `TypeCorrect`, `AdoptionFindsOwnEntry`, `NoOrphanedEntry`,
  `PipesOnlyWhenConnected`, `PoolLimitHolds`, `DialerIsExclusive`: the invariants;
- `SetupPeerAssertHolds`, `SessionsEndByTeardownHolds`, `DialingCountHolds`: the
  action properties;
- `SwarmImplementsPeerTable`: the refinement.

The inductive invariant `IInv` joins `TypeOK`, `OwnEntry`, `EntryOwned` and
`PipesOwned` with two facts that no run needs to name. `OneshotFollowsFuture`: a
reaper acts on its oneshot and not on the future, so that it leaves a running
dial alone follows only if the oneshot is open exactly while the future lives.
`UncheckedAreManual`: only manual peers skip the filter. `OwnEntry` alone is not
inductive: without `EntryOwned`, a fresh dial could share its id with a left-over
entry. `NextIInv` has one step per action. `PoolLimit` rests on cardinality: a step
adds at most one checked entry, and only if there was room (`PoolStep`), and taking
entries away never increases the count. `DialingCount` compares the counter, modulo
its width, with the number of attempts before and after a step. The refinement
shows for every action which `PeerTable` action it is, or that no phase changes.

**`PeerSessionProofs`**, for any number of successive sessions and with or without
oversized messages (`SessionAssumption`): `PipesFollowEverySession`,
`NextNeverAfterDisconnect`, `SessionTypeOK` and the
refinement `SessionImplementsPeerTable`. The inductive invariant `SInv` adds to the
first two that the entry exists exactly while the egress router's control state
is not "off": without it, the connection of a next session could meet a router of
the previous one. `OthersAreQuiet` shows that the ingress router (a left-over one
included), the pinger and the service touch nothing the properties look at;
`QuietSInv` that the rest of the state does not matter. What remains are the few
actions of the egress router, one step each.

**`SentryServiceProofs`**, for any peers, calls, sessions and block numbers with 0
among them (`TrackerAssumption`):

- `MapsAlwaysAgree` and `QueryAlwaysCorrect` of the block tracker by itself, for
  updates to any block (the program only ever sets 0). The lemma that matters is
  `ForgottenEverywhere`: since the maps agree, clearing the set of the old block
  clears the peer from all sets.
- `ServiceUsesTracker`: whatever the service does to the two maps is a step of
  `BlockTracker` on its own, so these two hold in it.
- `TrackerAlwaysFollowsPipes`, which needs that a peer with pipes has a live egress
  router (`PeersInv`), and `MessagesSentExactlyOnce`, which needs that a call that is
  idle has no futures (`CallsInv`).

**`PeerStreamProofs`**, for any finite set of capabilities with any lengths, any ids
and any number of frames in flight (`CapabilitiesAssumption`, `IdsAssumption`):

- `NegotiationIsBest`: for any two capability lists, matching, the retain loop and
  the sort leave exactly the highest common version of every common name, in
  ascending order. Each loop is a recursive function; `Induction` carries along it
  what the first elements of the list have contributed (`KeepFacts`,
  `HighestFacts`). The list has each name once before it is sorted, so the order
  of equal names, which a sort by name leaves open, does not arise (`SortFacts`).
- `BestShared`, `Agreement`: an open stream has that list, it is not empty, and both
  open ends have the same one. An ascending list is determined by its elements
  (`AscendingEqual`), and those do not depend on which end is local.
- `RoundTripOne`: messages of a single shared capability arrive as they were sent,
  under `OneByteIds`, that its ids are below 128 on the wire; eth has 17 messages from
  16 on. Without it the property is false, as `poll_next` reads one byte.

The inductive invariant `StreamInv` says which frames an end may have on the wire
(`Frames`): its own capabilities as a hello, a refusal in its place, disconnects, and messages numbered
along the list it negotiated. The receiver of a message thus knows that the sender
is open, and by `Agreement` counts along the same list.

**`Discv4Proofs`**, for any nodes, bucket and replacement sizes, bootstrap lists,
answers, lookups, distances and time (`SizesAssumption`, `ListsAssumption`,
`ClockAssumption`):

- `QueuesAlwaysBounded`, `ReplacementsAlwaysWaitForRoom`, `TableNeverRunsDry`: the
  bucket. Its operations are recursive functions over lists of nodes; `Induction`
  carries the invariant `GoodBucket` along a list, and `Keeps` says what one
  operation does not lose.
- `OnlyUnansweredEvicted`, from `PingInv`: a timer belongs to a ping that went out,
  and what is in flight has not been answered. Nothing relates timers to entries,
  because each may outlive the other.
- `RequestsAlwaysOwned`, `ExpectedAlwaysOwned`, from `QueriesInv`: a lookup has queries
  only during a round, which ends after all of them, so that a round never meets a
  registration of an earlier one; and from `NodesInv`: whatever nodes others name,
  what is kept are ids.

**`DnsDiscProofs`**, for any zones (cyclic ones included), whitelists, bounds on
queries and failures (`ZonesAssumption`, `TxtAssumption`):

- `OnlyNodesOfTheTrees`. The invariant `PollersInv` follows a name from the root
  down: every task's name is below a root that was verified, so what its record
  says, and every item in any channel, belongs to a tree that allowed links reach.
  Tasks of old queries are included, which is why the invariant is about all
  pollers and not the current one.
- `CompleteQueries`, under `BranchesFit`, that no branch is cut when its text is read
  (what happens otherwise is the run `dns_long_branch`). The invariant `CompleteInv`
  adds debts. A poller owes what is below its name if it has not looked it up, what
  it holds to send, and what its channel holds if it still hears; only pollers
  count whose superiors all hear and were told of no error (`Live`). `NothingLost`: every node
  of the trees is reported or owed by such a poller, unless an error is owed too or
  has ended the query. A step pays a debt, passes it up or splits it among the tasks
  it spawns; a poller that stops listening does so for an error that it then owes
  itself. At the end nobody owes anything, so all is reported. `SpawnedOnce` keeps a
  spawned task from overwriting another of the same name, `OneItem` bounds a channel.
  Links may be cyclic: what a tree owes is defined as the smallest closed set, not
  by recursion.

**`ECIESProofs`**, for any block size, sizes of the handshake messages, messages,
portions and number of alterations (`EciesAssumption`, and `NoneAssumption`: keys
that are absent are not keys):

- `KeysAlwaysAgree`, from `KeysInv`: a connection is `Greeting`, `Greeted`,
  `Answered` or `Connected`, and each of the four says exactly what both ends know,
  what is on the wire and, from the third on, that what an end has read into its
  MAC begins what the other wrote. The agreement cannot be shown without the wire:
  a client gets its keys from an Ack that a server wrote long before.
- `FailuresHaveReasons`, from `FlowInv`, which adds `Flow` (each MAC is the history of
  the headers and bodies of the messages, with the positions in the key stream) and
  `Intact` (read and on the way are together all that was written, and without an
  alteration every piece is where its place in the MAC says). An unaltered piece then
  passes its check, has the size that the codec waits for, and no unwrap panics. A
  panic thus means a handshake message below its fixed parts, and as what is written
  is longer (`EciesAssumption`), its size was altered (`Resized`) and no keys exist
  yet.
- `StreamImplementsChannel`: with the same invariant, every step is a step of
  `FrameChannel` under the mapping `Standings` or changes nothing there. A body that
  passes the check is the next message: its tag is a prefix of what was written.

**Induction.** The library's induction theorems take a predicate as parameter, which
the provers cannot instantiate. `Induction` states the principle for sets
(`NatSetInduction`, from the least element of a non-empty set), which serves for
recursive functions over lists and for the byte counts of `ECIES`, and that a
function defined step by step exists (`RecursiveFunction`), without which nothing is
known of its values.

**Only model-checked:**

- all liveness (`ReservationEnds`, `RedialPossible`, `DisconnectHonoured`,
  `SilentPeerDropped`, `PingerNotStranded`, `CallsAnswer`, `HandshakeSettles`, `FramesArrive`,
  `LookupEnds`, `IngressServes`, `QueriesEnd`): fairness is beyond the prover.

Every safety property of the passing runs, invariant, action property or
refinement, is stated by a theorem.

## Not modelled

- Cryptographic strength: `ECIES` is symbolic. The panic on a frame that does not
  fit its 24-bit size is in `PeerSession`, not in `ECIES`.
- The discv4, discv5 and static adapters: they forward what they are given, and the
  dialer of `Swarm` sees an arbitrary sequence of identities. What happens when
  `DnsDiscovery` itself is dropped, which only the end of the program does.
- Data provider and control service: remote calls that may never return
  (`Awaited`, `UpdateStatus` in `PeerSession`).
- Contents of eth messages, snappy, UPnP, configuration, examples.

## Plan

Done, in this order: `PeerTable`, `Swarm`, its proofs, `PeerSession`,
`BlockTracker` and its proofs, `SentryService`, `PeerStream`, `KBucket`, `Discv4`,
`FrameChannel`, `ECIES`, `DnsDisc`, the proofs about `PeerSession`, the rest of
`SwarmProofs`, the proofs about `SentryService`, `KBucket` and `Discv4`, `DnsDisc`,
`ECIES` and `PeerStream`.

Next modules:

1. *Two sessions back to back* with bounded buffers: writes that wait for the
   other end's reader, which waits for its own writer (`rlpx.rs:288`).
2. The block selection of `GetBlockHeaders` as an operator on words of bounded
   width, against a reference definition (`src/main.rs:231`).
3. The adapters of discv4 and discv5.

Next theorems: what the modules above will need; and for `PeerStream`, which ids of
several capabilities do arrive as sent (the part of `RoundTrip` that the code keeps).
