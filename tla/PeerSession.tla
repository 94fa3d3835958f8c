----------------------------- MODULE PeerSession -----------------------------
(***************************************************************************)
(* One remote identity through its successive sessions: the ingress        *)
(* router, the egress router & disconnector and the pinger that            *)
(* setup_peer_state (devp2p/src/rlpx.rs) starts, together with what the    *)
(* capability server (src/main.rs) keeps for the peer.                     *)
(*                                                                         *)
(* The three tasks run on different threads.  An action is a section of    *)
(* one task between awaits, or up to a lock of state another task uses.    *)
(* The remote node sends anything at any time; writes to the socket may    *)
(* succeed, fail or never return.                                          *)
(*                                                                         *)
(* Removing the entry drops the session's task group.  That cancels a      *)
(* task at its next await that is not ready: an ingress router in the      *)
(* middle of a poll runs on, as actor Stale, while the next session may    *)
(* already start.  The last one that was left over is followed.            *)
(***************************************************************************)
EXTENDS Integers, Sequences

CONSTANTS
    MaxSessions,   \* bound on the sessions of one behaviour
    Oversize       \* may a message exceed the frame header's 24-bit size

ASSUME SessionAssumption == MaxSessions \in Nat /\ Oversize \in BOOLEAN

Live  == "live"
Stale == "stale"
Actors == {Live, Stale}

Inbound  == {"status", "request", "forward"}
Outbound == {"message", "disconnect"} \cup (IF Oversize THEN {"oversize"} ELSE {})
Initiators == {"local", "local_forceful", "remote"}

VARIABLES
    sessions,       \* sessions set up so far
    entry,          \* the mapping has a Connected entry for the peer
    status,         \* CapabilityServerImpl::status_message is Some
    pipes,          \* peer_pipes has the peer
    valid,          \* valid_peers has the peer
    first,          \* first event of the outbound stream, until it is yielded
    chan,           \* the outbound channel(1) behind it
    ingress,        \* control state of the ingress router, per actor
    msg,            \* what it is handling
    egress,         \* control state of the egress router
    out,            \* the message it is writing
    disconnecting,  \* its pending disconnection
    pinger,         \* control state of the pinger
    pinged,         \* the flag shared by pinger and ingress router
    pings, pongs,   \* length of the two channel(1)s
    signals,        \* the peer_disconnect channel
    disconnected    \* PeerStream::disconnected, of the stream each actor reads

server   == <<status, pipes, valid>>
outgoing == <<first, chan>>
reader   == <<ingress, msg>>
writer   == <<egress, out, disconnecting>>
pinging  == <<pinger, pinged, pings>>
vars == <<sessions, entry, server, outgoing, reader, writer, pinging, pongs,
          signals, disconnected>>

IngressStates == {"off", "recv", "handle", "await", "reply", "push", "pong",
                  "panicked", "ended"}
EgressStates  == {"off", "select", "send", "flush", "grace", "teardown", "remove",
                  "panicked"}
PingerStates  == {"off", "ping", "wait", "sleep", "ended"}

(***************************************************************************)
(* The variables have their types.  The peer_disconnect channel is         *)
(* unbounded, but nobody signals twice: ingress router and pinger stop     *)
(* after their signal (rlpx.rs:230, 340-345).                              *)
(***************************************************************************)
TypeOK ==
    /\ sessions \in 0 .. MaxSessions
    /\ entry \in BOOLEAN /\ status \in BOOLEAN /\ pipes \in BOOLEAN
    /\ valid \in BOOLEAN /\ pinged \in BOOLEAN /\ disconnected \in [Actors -> BOOLEAN]
    /\ first \in {"none", "message", "disconnect"}
    /\ chan \in {<<>>} \cup {<<e>> : e \in Outbound}
    /\ ingress \in [Actors -> IngressStates]
    /\ msg \in [Actors -> Inbound \cup Outbound \cup {"none"}]
    /\ egress \in EgressStates
    /\ out \in Outbound \cup {"none", "ping", "pong"}
    /\ disconnecting \in Initiators \cup {"none"}
    /\ pinger \in PingerStates
    /\ pings \in 0 .. 1 /\ pongs \in 0 .. 1
    /\ Len(signals) <= 2 /\ \A i \in 1 .. Len(signals) : signals[i] \in Initiators

Init ==
    /\ sessions = 0 /\ entry = FALSE
    /\ status = FALSE /\ pipes = FALSE /\ valid = FALSE
    /\ first = "none" /\ chan = <<>>
    /\ ingress = [a \in Actors |-> "off"] /\ msg = [a \in Actors |-> "none"]
    /\ egress = "off" /\ out = "none" /\ disconnecting = "none"
    /\ pinger = "off" /\ pinged = FALSE /\ pings = 0 /\ pongs = 0
    /\ signals = <<>> /\ disconnected = [a \in Actors |-> FALSE]

-----------------------------------------------------------------------------
(* Set-up and status.                                                       *)

\* on_peer_connect: what the peer is sent first.
FirstEvent == IF status THEN "message" ELSE "disconnect"

\* setup_peer_state, called by the swarm when the peer has no Connected entry.
Connect ==
    /\ ~entry /\ sessions < MaxSessions
    /\ sessions' = sessions + 1 /\ entry' = TRUE
    /\ pipes' = TRUE
    /\ first' = FirstEvent /\ chan' = <<>>
    /\ ingress' = [ingress EXCEPT ![Live] = "recv"]
    /\ msg' = [msg EXCEPT ![Live] = "none"]
    /\ egress' = "select" /\ out' = "none" /\ disconnecting' = "none"
    /\ pinger' = "ping" /\ pinged' = FALSE /\ pings' = 0 /\ pongs' = 0
    /\ signals' = <<>> /\ disconnected' = [disconnected EXCEPT ![Live] = FALSE]
    /\ UNCHANGED <<status, valid>>

\* The status updater found a status, or failed to.
UpdateStatus ==
    /\ status' \in BOOLEAN \ {status}
    /\ UNCHANGED <<sessions, entry, pipes, valid, outgoing, reader, writer, pinging,
                   pongs, signals, disconnected>>

\* The gRPC service queues a message or (penalize_peer) a disconnection.  It
\* waits while the channel is full.
ServiceSend(e) ==
    /\ pipes /\ chan = <<>>
    /\ chan' = <<e>>
    /\ UNCHANGED <<sessions, entry, server, first, reader, writer, pinging, pongs,
                   signals, disconnected>>

-----------------------------------------------------------------------------
(* The ingress router.                                                      *)

\* A cancelled task stops at the first await that is not ready: the next message
\* has not arrived, the service has not answered, the channel is full.
CancelledStops ==
    /\ ingress[Stale] \in {"recv", "await", "push"}
    /\ ingress' = [ingress EXCEPT ![Stale] = "off"]
    /\ UNCHANGED <<sessions, entry, server, outgoing, msg, writer, pinging, pongs,
                   signals, disconnected>>

\* Defective variant of Signal: the router goes on reading.
SignalAndContinue(initiator) ==
    /\ signals' = Append(signals, initiator)
    /\ UNCHANGED ingress

\* The router's loop is over: tell the egress router.
Signal(initiator) ==
    /\ ingress' = [ingress EXCEPT ![Live] = "ended"]
    /\ signals' = Append(signals, initiator)

\* A subprotocol message arrived.  (Whatever else a cancelled router finds in its
\* buffer has no effect on anybody any more.)
Receive(a, m) ==
    /\ ingress[a] = "recv" /\ ~disconnected[a]
    /\ ingress' = [ingress EXCEPT ![a] = "handle"]
    /\ msg' = [msg EXCEPT ![a] = m]
    /\ UNCHANGED <<sessions, entry, server, outgoing, writer, pinging, pongs, signals,
                   disconnected>>

\* A Ping arrived: a Pong is owed as soon as the channel has room.
ReceivePing ==
    /\ ingress[Live] = "recv" /\ ~disconnected[Live]
    /\ ingress' = [ingress EXCEPT ![Live] = "pong"]
    /\ UNCHANGED <<sessions, entry, server, outgoing, msg, writer, pinging, pongs,
                   signals, disconnected>>

\* (Without an egress router the channel is closed and the Pong is forgotten.)
OwePong ==
    /\ ingress[Live] = "pong"
    /\ IF egress = "panicked" THEN UNCHANGED pongs ELSE pongs = 0 /\ pongs' = 1
    /\ ingress' = [ingress EXCEPT ![Live] = "recv"]
    /\ UNCHANGED <<sessions, entry, server, outgoing, msg, writer, pinging, signals,
                   disconnected>>

ReceivePong ==
    /\ ingress[Live] = "recv" /\ ~disconnected[Live]
    /\ pinged' = FALSE
    /\ UNCHANGED <<sessions, entry, server, outgoing, reader, writer, pinger, pings,
                   pongs, signals, disconnected>>

\* A Disconnect, well formed or not.
ReceiveDisconnect ==
    /\ ingress[Live] = "recv" /\ ~disconnected[Live]
    /\ disconnected' = [disconnected EXCEPT ![Live] = TRUE]
    /\ Signal("remote")
    /\ UNCHANGED <<sessions, entry, server, outgoing, msg, writer, pinging, pongs>>

\* The stream ended or failed, or the writer half has sent a Disconnect.
ReceiveEnd ==
    /\ ingress[Live] = "recv"
    /\ Signal("remote")
    /\ UNCHANGED <<sessions, entry, server, outgoing, msg, writer, pinging, pongs,
                   disconnected>>

\* A frame without a message id: the slice of its first byte panics.
ReceiveEmpty ==
    /\ ingress[Live] = "recv" /\ ~disconnected[Live]
    /\ ingress' = [ingress EXCEPT ![Live] = "panicked"]
    /\ UNCHANGED <<sessions, entry, server, outgoing, msg, writer, pinging, pongs,
                   signals, disconnected>>

\* handle_event(Status): undecodable or from another fork is answered with a
\* disconnection; without a status of our own nothing happens.
HandleStatus(a) ==
    /\ ingress[a] = "handle" /\ msg[a] = "status"
    /\ \/ /\ valid' = (valid \/ status)
          /\ ingress' = [ingress EXCEPT ![a] = "recv"]
          /\ UNCHANGED msg
       \/ /\ ingress' = [ingress EXCEPT ![a] = "reply"]
          /\ msg' = [msg EXCEPT ![a] = "disconnect"]
          /\ UNCHANGED valid
    /\ UNCHANGED <<sessions, entry, status, pipes, outgoing, writer, pinging, pongs,
                   signals, disconnected>>

\* handle_event for requests and for messages to forward: ignored unless the
\* peer is valid; the data provider or the control service is awaited.  An
\* undecodable request and GetPooledTransactions are answered at once.
HandleOther(a) ==
    /\ ingress[a] = "handle" /\ msg[a] \in {"request", "forward"}
    /\ \/ /\ ingress' = [ingress EXCEPT ![a] = IF valid THEN "await" ELSE "recv"]
          /\ UNCHANGED msg
       \/ /\ valid /\ msg[a] = "request"
          /\ ingress' = [ingress EXCEPT ![a] = "reply"]
          /\ \E e \in {"disconnect", "message"} : msg' = [msg EXCEPT ![a] = e]
    /\ UNCHANGED <<sessions, entry, server, outgoing, writer, pinging, pongs, signals,
                   disconnected>>

\* The data provider answered: a reply.  The control service did: nothing.
Awaited(a) ==
    /\ ingress[a] = "await"
    /\ \/ /\ msg[a] = "request"
          /\ ingress' = [ingress EXCEPT ![a] = "reply"]
          /\ \E e \in Outbound \ {"disconnect"} : msg' = [msg EXCEPT ![a] = e]
       \/ /\ msg[a] = "forward"
          /\ ingress' = [ingress EXCEPT ![a] = "recv"]
          /\ UNCHANGED msg
    /\ UNCHANGED <<sessions, entry, server, outgoing, writer, pinging, pongs, signals,
                   disconnected>>

\* on_peer_event looks the sender up (and panics without one), then sends,
\* which is an await if the channel is full.
Reply(a) ==
    /\ ingress[a] = "reply"
    /\ chan' = IF pipes /\ chan = <<>> THEN <<msg[a]>> ELSE chan
    /\ ingress' = [ingress EXCEPT ![a] = IF ~pipes THEN "panicked"
                                         ELSE IF chan = <<>> THEN "recv" ELSE "push"]
    /\ UNCHANGED <<sessions, entry, server, first, msg, writer, pinging, pongs, signals,
                   disconnected>>

Push ==
    /\ ingress[Live] = "push" /\ chan = <<>>
    /\ chan' = <<msg[Live]>>
    /\ ingress' = [ingress EXCEPT ![Live] = "recv"]
    /\ UNCHANGED <<sessions, entry, server, first, msg, writer, pinging, pongs, signals,
                   disconnected>>

-----------------------------------------------------------------------------
(* The egress router & disconnector.                                        *)

\* The select found message m to write; initiator is set if it ends the loop.
Write(m, initiator) ==
    /\ egress' = "send" /\ out' = m /\ disconnecting' = initiator

\* CapabilityServer::next() is ready.
SelectEvent ==
    /\ egress = "select"
    /\ first # "none" \/ chan # <<>>
    /\ LET e == IF first # "none" THEN first ELSE Head(chan) IN
         Write(e, IF e = "disconnect" THEN "local" ELSE "none")
    /\ first' = "none"
    /\ chan' = IF first # "none" THEN chan ELSE <<>>
    /\ UNCHANGED <<sessions, entry, server, reader, pinging, pongs, signals, disconnected>>

SelectPing ==
    /\ egress = "select" /\ pings = 1
    /\ pings' = 0
    /\ Write("ping", "none")
    /\ UNCHANGED <<sessions, entry, server, outgoing, reader, pinger, pinged, pongs,
                   signals, disconnected>>

SelectPong ==
    /\ egress = "select" /\ pongs = 1
    /\ pongs' = 0
    /\ Write("pong", "none")
    /\ UNCHANGED <<sessions, entry, server, outgoing, reader, pinging, signals,
                   disconnected>>

\* Defective variant of SelectSignal: a ping timeout is written off.
SelectSignalRemote ==
    /\ egress = "select" /\ signals # <<>>
    /\ signals' = Tail(signals)
    /\ IF Head(signals) = "local"
       THEN UNCHANGED writer
       ELSE egress' = "teardown" /\ out' = "none" /\ disconnecting' = Head(signals)
    /\ UNCHANGED <<sessions, entry, server, outgoing, reader, pinging, pongs, disconnected>>

\* Ping timeout, or signal from the ingress router: only the first kind is
\* announced to the peer.
SelectSignal ==
    /\ egress = "select" /\ signals # <<>>
    /\ signals' = Tail(signals)
    /\ IF Head(signals) = "local"
       THEN Write("disconnect", "local")
       ELSE egress' = "teardown" /\ out' = "none" /\ disconnecting' = Head(signals)
    /\ UNCHANGED <<sessions, entry, server, outgoing, reader, pinging, pongs, disconnected>>

\* PeerStream::start_send took the message; a Disconnect closes the stream for
\* both halves.
StartSend ==
    /\ egress = "send" /\ ~disconnected[Live] /\ out # "oversize"
    /\ egress' = "flush"
    /\ disconnected' = [disconnected EXCEPT ![Live] = (out = "disconnect")]
    /\ UNCHANGED <<sessions, entry, server, outgoing, reader, out, disconnecting, pinging,
                   pongs, signals>>

\* Defective variant of SendPanic: the trigger of a queued Ping is not dropped.
SendPanicKeepsTrigger ==
    /\ egress = "send" /\ ~disconnected[Live] /\ out = "oversize"
    /\ egress' = "panicked"
    /\ UNCHANGED <<sessions, entry, server, outgoing, reader, out, disconnecting, pinging,
                   pongs, signals, disconnected>>

\* The frame header cannot hold the size: write_header panics.
SendPanic ==
    /\ egress = "send" /\ ~disconnected[Live] /\ out = "oversize"
    /\ egress' = "panicked"
    /\ pinger' = IF pinger = "wait" THEN "ended" ELSE pinger
    /\ UNCHANGED <<sessions, entry, server, outgoing, reader, out, disconnecting, pinged,
                   pings, pongs, signals, disconnected>>

\* Defective variant of AfterSend: the grace period ends in the select.
AfterSendForgets(initiator) ==
    /\ disconnecting' = initiator
    /\ egress' = IF initiator = "none" \/ initiator = "local" THEN "select" ELSE "teardown"
    /\ out' = "none"

\* After the write: back to the select, or on to the end of the session.
AfterSend(initiator) ==
    /\ disconnecting' = initiator
    /\ egress' = CASE initiator = "none"  -> "select"
                   [] initiator = "local" -> "grace"
                   [] OTHER               -> "teardown"
    /\ out' = "none"

SendOk ==
    /\ egress = "flush"
    /\ AfterSend(disconnecting)
    /\ pinger' = IF out = "ping" THEN "sleep" ELSE pinger
    /\ UNCHANGED <<sessions, entry, server, outgoing, reader, pinged, pings, pongs, signals,
                   disconnected>>

\* The transport failed, or the stream was closed by a Disconnect.
SendErr ==
    /\ egress \in {"send", "flush"}
    /\ AfterSend(IF disconnecting = "none" THEN "local_forceful" ELSE disconnecting)
    /\ pinger' = IF out = "ping" THEN "ended" ELSE pinger
    /\ UNCHANGED <<sessions, entry, server, outgoing, reader, pinged, pings, pongs, signals,
                   disconnected>>

\* Defective variant of GraceOver: removes the entry without the teardown.
GraceOverRemoves ==
    /\ egress = "grace"
    /\ egress' = "remove"
    /\ UNCHANGED <<sessions, entry, server, outgoing, reader, out, disconnecting, pinging,
                   pongs, signals, disconnected>>

\* The grace period after a Disconnect of ours.
GraceOver ==
    /\ egress = "grace"
    /\ egress' = "teardown"
    /\ UNCHANGED <<sessions, entry, server, outgoing, reader, out, disconnecting, pinging,
                   pongs, signals, disconnected>>

\* Defective variant of TeardownPeer: the entry is removed in passing, before
\* disconnect_peer ends the tasks.
TeardownPeerRemoves ==
    /\ egress = "teardown"
    /\ egress' = "remove"
    /\ pipes' = FALSE /\ valid' = FALSE /\ entry' = FALSE
    /\ UNCHANGED <<sessions, status, outgoing, reader, out, disconnecting, pinging,
                   pongs, signals, disconnected>>

\* on_peer_event(Disconnect), teardown_peer.
TeardownPeer ==
    /\ egress = "teardown"
    /\ egress' = "remove"
    /\ pipes' = FALSE /\ valid' = FALSE
    /\ UNCHANGED <<sessions, entry, status, outgoing, reader, out, disconnecting, pinging,
                   pongs, signals, disconnected>>

\* Where an ingress router goes on that is being polled when it is cancelled: the
\* channels it may be about to send to are closed, their errors are ignored.
GoesOn(at) == IF at \in {"pong", "push"} THEN "recv" ELSE at

\* The task group is dropped: the tasks are cancelled.  An ingress router that is
\* at an await stops, one that is being polled goes on.
CancelTasks ==
    /\ egress' = "off" /\ pinger' = "off"
    /\ \/ /\ ingress[Live] \notin {"handle", "reply"}
          /\ ingress' = [ingress EXCEPT ![Live] = "off"]
          /\ msg' = [msg EXCEPT ![Live] = "none"]
          /\ disconnected' = [disconnected EXCEPT ![Live] = FALSE]
       \/ /\ ingress[Live] \notin {"panicked", "ended"}
          /\ ingress' = [ingress EXCEPT ![Live] = "off", ![Stale] = GoesOn(ingress[Live])]
          /\ msg' = [msg EXCEPT ![Live] = "none", ![Stale] = msg[Live]]
          /\ disconnected' = [disconnected EXCEPT ![Live] = FALSE,
                                                 ![Stale] = disconnected[Live]]
    /\ first' = "none" /\ chan' = <<>> /\ signals' = <<>>
    /\ out' = "none" /\ disconnecting' = "none"
    /\ pinged' = FALSE /\ pings' = 0 /\ pongs' = 0
    /\ UNCHANGED <<sessions, server>>

\* disconnect_peer: the entry is removed, and dropped with its task group.
DisconnectPeer == egress = "remove" /\ CancelTasks /\ entry' = FALSE

-----------------------------------------------------------------------------
(* The pinger.                                                              *)

\* Raise the flag and queue a Ping, unless nobody is left to write it.
PingerPing ==
    /\ pinger = "ping"
    /\ pinged' = TRUE
    /\ IF egress = "panicked" THEN pinger' = "ended" /\ UNCHANGED pings
                              ELSE pinger' = "wait" /\ pings' = 1
    /\ UNCHANGED <<sessions, entry, server, outgoing, reader, writer, pongs, signals,
                   disconnected>>

\* Defective variant of PingerWake: an unanswered Ping is just repeated.
PingerWakeRepeats ==
    /\ pinger = "sleep"
    /\ pinger' = "ping"
    /\ UNCHANGED <<sessions, entry, server, outgoing, reader, writer, pinged, pings, pongs,
                   signals, disconnected>>

\* PING_TIMEOUT after the Ping was written.
PingerWake ==
    /\ pinger = "sleep"
    /\ IF pinged
       THEN pinger' = "ended" /\ signals' = Append(signals, "local")
       ELSE pinger' = "ping" /\ UNCHANGED signals
    /\ UNCHANGED <<sessions, entry, server, outgoing, reader, writer, pinged, pings, pongs,
                   disconnected>>

-----------------------------------------------------------------------------
IngressNext ==
    \/ \E a \in Actors, m \in Inbound : Receive(a, m)
    \/ \E a \in Actors : HandleStatus(a) \/ HandleOther(a) \/ Awaited(a) \/ Reply(a)
    \/ ReceivePing \/ OwePong \/ ReceivePong \/ ReceiveDisconnect \/ ReceiveEnd
    \/ ReceiveEmpty \/ Push \/ CancelledStops

EgressNext ==
    \/ SelectEvent \/ SelectPing \/ SelectPong \/ SelectSignal
    \/ StartSend \/ SendPanic \/ SendOk \/ SendErr
    \/ GraceOver \/ TeardownPeer \/ DisconnectPeer

Next ==
    \/ Connect \/ UpdateStatus
    \/ \E e \in {"message", "disconnect"} : ServiceSend(e)
    \/ IngressNext \/ EgressNext
    \/ PingerPing \/ PingerWake

Spec == Init /\ [][Next]_vars

(***************************************************************************)
(* Timers fire and a task that is ready is polled.  tokio::select! polls   *)
(* its branches from a random start, so a branch that is ready again and   *)
(* again is taken.  Nothing is assumed of the remote node, of the socket,  *)
(* or of the services: reads, writes and awaited calls may never return.   *)
(***************************************************************************)
Fairness ==
    /\ SF_vars(SelectSignal) /\ SF_vars(SelectEvent) /\ SF_vars(SelectPing)
    /\ WF_vars(GraceOver) /\ WF_vars(TeardownPeer) /\ WF_vars(DisconnectPeer)
    /\ WF_vars(PingerPing) /\ WF_vars(PingerWake)

FairSpec == Spec /\ Fairness

-----------------------------------------------------------------------------
(* Properties.                                                              *)

(***************************************************************************)
(* The capability server has pipes exactly from on_peer_connect to the     *)
(* teardown of the same session.  So the unwrap of receiver() in next()    *)
(* (main.rs:391), run while the egress router is in its select, never      *)
(* panics, and the assertion of the next setup_peer holds.                 *)
(***************************************************************************)
PipesFollowSession == pipes <=> entry /\ egress # "remove"

(***************************************************************************)
(* rlpx.rs:246: next() is never called after the disconnect event: the     *)
(* egress router does not return to its select once it decided to          *)
(* disconnect, whatever the write of the Disconnect returned.              *)
(***************************************************************************)
NextNotAfterDisconnect == disconnecting # "none" => egress # "select"

Writing == egress \in {"send", "flush"}

(***************************************************************************)
(* Unless a write never returns or the egress router panics, a             *)
(* disconnection that was asked for, by the ingress router, the pinger,    *)
(* the capability server or the gRPC service, ends with the removal of the *)
(* entry, however busy the other branches of the select are.               *)
(***************************************************************************)
DisconnectHonoured ==
    []<>~Writing /\ [](egress # "panicked") =>
        [](entry /\ (signals # <<>> \/ first = "disconnect" \/ chan = <<"disconnect">>)
             => <>~entry)

(***************************************************************************)
(* Unless a write never returns or the egress router panics, a peer that   *)
(* stops answering pings does not stay: also when the ingress router is    *)
(* stuck in a call, blocked on the outbound channel or has panicked        *)
(* (rlpx.rs:331-353).                                                      *)
(***************************************************************************)
SilentPeerDropped ==
    []<>~Writing /\ [](egress # "panicked") => []<>~(entry /\ pinged)

(***************************************************************************)
(* An encoder that panics takes the egress router with it, and with it the *)
(* receivers of the pings and the sender that a written Ping triggers      *)
(* (rlpx.rs:238, 293, 331-353): the pinger, wherever it is, notices and    *)
(* ends.  It neither waits for ever nor goes on for a session that cannot  *)
(* be ended any more.                                                      *)
(***************************************************************************)
PingerNotStranded == egress = "panicked" ~> pinger = "ended"

(***************************************************************************)
(* rlpx.rs:318-319: after disconnect_peer "the peer's task group is        *)
(* dropped and any alive tasks are forcibly cancelled", so the peer does   *)
(* not count as active (main.rs:158-160, 650) any more.                    *)
(***************************************************************************)
DepartedPeerNotValid == ~entry => ~valid

-----------------------------------------------------------------------------
(* The life cycle that module Swarm relies on.                              *)

peer == "peer"

Phase ==
    IF ~entry THEN "absent" ELSE IF pipes THEN "live" ELSE "closing"

AlwaysRoom(entries) == TRUE

Table == INSTANCE PeerTable
           WITH Peers <- {peer}, ManualPeers <- {}, HasRoom <- AlwaysRoom,
                phase <- [p \in {peer} |-> Phase]

(***************************************************************************)
(* A session goes through set-up, teardown and removal in that order and   *)
(* never skips one, as Swarm's Teardown and DisconnectPeer assume.         *)
(***************************************************************************)
ImplementsPeerTable == Table!Spec

==============================================================================
