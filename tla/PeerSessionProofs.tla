-------------------------- MODULE PeerSessionProofs --------------------------
(***************************************************************************)
(* Proofs about PeerSession for any number of successive sessions, with    *)
(* and without oversized messages: the capability server's pipes follow    *)
(* the session, the select is never entered again once a disconnection is  *)
(* decided, the session implements PeerTable, and the state keeps its      *)
(* types.                                                                  *)
(***************************************************************************)
EXTENDS PeerSession, TLAPS

(***************************************************************************)
(* The inductive invariant.  The two properties are not inductive alone:   *)
(* that pipes and entry agree while the egress router runs needs that the  *)
(* entry exists exactly while that router's control state is not "off",    *)
(* panicked routers included.                                              *)
(***************************************************************************)
SInv ==
    /\ entry \in BOOLEAN /\ pipes \in BOOLEAN
    /\ egress \in EgressStates
    /\ entry <=> egress # "off"
    /\ PipesFollowSession
    /\ NextNotAfterDisconnect

\* What the properties look at.
sessionVars == <<entry, pipes, writer>>

\* The properties do not depend on the rest of the state.
LEMMA QuietSInv ==
    ASSUME SInv, UNCHANGED sessionVars
    PROVE  SInv'
  BY DEF SInv, PipesFollowSession, NextNotAfterDisconnect, EgressStates, sessionVars,
         writer

\* The ingress router, the pinger, the status updater and the gRPC service
\* touch nothing of it: they only ask, through channels.
LEMMA OthersAreQuiet ==
    ASSUME UpdateStatus \/ (\E e \in {"message", "disconnect"} : ServiceSend(e))
             \/ IngressNext \/ PingerPing \/ PingerWake
    PROVE  UNCHANGED sessionVars
  <1> USE DEF sessionVars, server, writer
  <1>1. CASE UpdateStatus
    BY <1>1 DEF UpdateStatus
  <1>2. CASE \E e \in {"message", "disconnect"} : ServiceSend(e)
    BY <1>2 DEF ServiceSend
  <1>3. CASE IngressNext
    <2>1. ASSUME NEW a \in Actors, NEW m \in Inbound, Receive(a, m)
          PROVE  UNCHANGED sessionVars
      BY <2>1 DEF Receive
    <2>2. CASE ReceivePing \/ OwePong \/ ReceivePong
      BY <2>2 DEF ReceivePing, OwePong, ReceivePong
    <2>3. CASE ReceiveDisconnect \/ ReceiveEnd \/ ReceiveEmpty
      BY <2>3 DEF ReceiveDisconnect, ReceiveEnd, ReceiveEmpty
    <2>4. CASE Push \/ CancelledStops
      BY <2>4 DEF Push, CancelledStops
    <2>5. ASSUME NEW a \in Actors,
                 HandleStatus(a) \/ HandleOther(a) \/ Awaited(a) \/ Reply(a)
          PROVE  UNCHANGED sessionVars
      BY <2>5 DEF HandleStatus, HandleOther, Awaited, Reply
    <2> QED
      BY <1>3, <2>1, <2>2, <2>3, <2>4, <2>5 DEF IngressNext
  <1>4. CASE PingerPing \/ PingerWake
    BY <1>4 DEF PingerPing, PingerWake
  <1> QED
    BY <1>1, <1>2, <1>3, <1>4

\* What a step of the egress router does to entry and pipes.
LEMMA EgressEntry ==
    ASSUME SInv, EgressNext
    PROVE  \/ UNCHANGED <<entry, pipes>>
           \/ TeardownPeer \/ DisconnectPeer
  BY DEF EgressNext, SelectEvent, SelectPing, SelectPong, SelectSignal, StartSend,
         SendPanic, SendOk, SendErr, GraceOver, server

LEMMA SInvInit == Init => SInv
  BY DEF Init, SInv, PipesFollowSession, NextNotAfterDisconnect, EgressStates

LEMMA SInvNext == SInv /\ [Next]_vars => SInv'
  <1> SUFFICES ASSUME SInv, [Next]_vars PROVE SInv'
    OBVIOUS
  <1> USE DEF SInv, PipesFollowSession, NextNotAfterDisconnect, EgressStates
  <1>1. CASE Connect
    BY <1>1 DEF Connect
  <1>2. CASE UpdateStatus \/ (\E e \in {"message", "disconnect"} : ServiceSend(e))
               \/ IngressNext \/ PingerPing \/ PingerWake
    BY <1>2, OthersAreQuiet, QuietSInv
  <1>3. CASE EgressNext
    <2> USE DEF server
    <2>1. CASE SelectEvent
      BY <2>1 DEF SelectEvent, Write
    <2>2. CASE SelectPing \/ SelectPong
      BY <2>2 DEF SelectPing, SelectPong, Write
    <2>3. CASE SelectSignal
      BY <2>3 DEF SelectSignal, Write
    <2>4. CASE StartSend
      BY <2>4 DEF StartSend
    <2>5. CASE SendPanic
      BY <2>5 DEF SendPanic
    <2>6. CASE SendOk
      BY <2>6 DEF SendOk, AfterSend
    <2>7. CASE SendErr
      BY <2>7 DEF SendErr, AfterSend
    <2>8. CASE GraceOver
      BY <2>8 DEF GraceOver
    <2>9. CASE TeardownPeer
      BY <2>9 DEF TeardownPeer
    <2>10. CASE DisconnectPeer
      <3>1. pipes' = pipes
        BY <2>10 DEF DisconnectPeer, CancelTasks
      <3>2. egress = "remove" /\ entry' = FALSE /\ egress' = "off"
            /\ disconnecting' = "none"
        BY <2>10 DEF DisconnectPeer, CancelTasks
      <3> QED
        BY <3>1, <3>2
    <2> QED
      BY <1>3, <2>1, <2>2, <2>3, <2>4, <2>5, <2>6, <2>7, <2>8, <2>9, <2>10 DEF EgressNext
  <1>4. CASE UNCHANGED vars
    BY <1>4, QuietSInv DEF vars, sessionVars, server
  <1> QED
    BY <1>1, <1>2, <1>3, <1>4 DEF Next

(***************************************************************************)
(* The invariant holds for every number of sessions.                       *)
(***************************************************************************)
THEOREM SInvHolds == Spec => []SInv
  BY SInvInit, SInvNext, PTL DEF Spec

(***************************************************************************)
(* The capability server has pipes exactly from on_peer_connect to the     *)
(* teardown (rlpx.rs:177, 304), so the unwrap in next() and the assertion  *)
(* in setup_peer (main.rs:126, 391) hold in every session, also while a    *)
(* cancelled ingress router of an earlier one still runs.                  *)
(***************************************************************************)
THEOREM PipesFollowEverySession == Spec => []PipesFollowSession
  <1>1. SInv => PipesFollowSession
    BY DEF SInv
  <1> QED
    BY SInvHolds, <1>1, PTL

(***************************************************************************)
(* The egress router never polls next() after the disconnect event         *)
(* (rlpx.rs:246), whatever the writes return.                              *)
(***************************************************************************)
THEOREM NextNeverAfterDisconnect == Spec => []NextNotAfterDisconnect
  <1>1. SInv => NextNotAfterDisconnect
    BY DEF SInv
  <1> QED
    BY SInvHolds, <1>1, PTL

-----------------------------------------------------------------------------
(* Refinement: entry and pipes determine the phase of the one peer.         *)

LEMMA SessionInitRefines == Init => Table!Init
  BY DEF Init, Table!Init, Phase

LEMMA SessionStepRefines ==
    SInv /\ [Next]_vars => [Table!Next]_([p \in {peer} |-> Phase])
  <1> SUFFICES ASSUME SInv, [Next]_vars
               PROVE  [Table!Next]_([p \in {peer} |-> Phase])
    OBVIOUS
  <1> DEFINE ph == [p \in {peer} |-> Phase]
  <1>0. ASSUME UNCHANGED <<entry, pipes>> PROVE UNCHANGED ph
    BY <1>0 DEF Phase
  <1>1. CASE Connect
    <2>1. ph[peer] = "absent" /\ ph' = [ph EXCEPT ![peer] = "live"]
      BY <1>1 DEF Connect, Phase
    <2>2. Table!Admit(peer)
      BY <2>1 DEF Table!Admit, Table!Move, AlwaysRoom
    <2> QED
      BY <2>2 DEF Table!Next
  <1>2. CASE TeardownPeer
    <2>1. entry /\ pipes /\ entry' = entry /\ ~pipes'
      BY <1>2 DEF TeardownPeer, SInv, PipesFollowSession
    <2>2. ph[peer] = "live" /\ ph' = [ph EXCEPT ![peer] = "closing"]
      BY <2>1 DEF Phase
    <2>3. Table!Teardown(peer)
      BY <2>2 DEF Table!Teardown, Table!Move
    <2> QED
      BY <2>3 DEF Table!Next
  <1>3. CASE DisconnectPeer
    <2>1. entry /\ ~pipes /\ ~entry'
      BY <1>3 DEF DisconnectPeer, SInv, PipesFollowSession
    <2>2. ph[peer] = "closing" /\ ph' = [ph EXCEPT ![peer] = "absent"]
      BY <2>1 DEF Phase
    <2>3. Table!Forget(peer)
      BY <2>2 DEF Table!Forget, Table!Move
    <2> QED
      BY <2>3 DEF Table!Next
  <1>4. CASE UpdateStatus \/ (\E e \in {"message", "disconnect"} : ServiceSend(e))
               \/ IngressNext \/ PingerPing \/ PingerWake
    BY <1>0, <1>4, OthersAreQuiet DEF sessionVars
  <1>5. CASE EgressNext
    BY <1>0, <1>2, <1>3, <1>5, EgressEntry
  <1>6. CASE UNCHANGED vars
    BY <1>0, <1>6 DEF vars, server
  <1> QED
    BY <1>1, <1>4, <1>5, <1>6 DEF Next

(***************************************************************************)
(* A session goes through set-up, teardown and removal in that order,      *)
(* however its three tasks interleave: what module Swarm assumes of it.    *)
(***************************************************************************)
THEOREM SessionImplementsPeerTable == Spec => ImplementsPeerTable
  BY SInvHolds, SessionInitRefines, SessionStepRefines, PTL
     DEF Spec, ImplementsPeerTable, Table!Spec

-----------------------------------------------------------------------------
(* The types of the session's state.  Two of the bounds of TypeOK rest on   *)
(* the protocol between the tasks: the peer_disconnect channel holds at     *)
(* most two signals, and a message that is queued was meant to be sent.     *)

Raised(state) == IF state = "ended" THEN 1 ELSE 0

(***************************************************************************)
(* A task that signalled has ended (rlpx.rs:230, 340-345).                 *)
(***************************************************************************)
SignalledOnce ==
    /\ signals \in Seq(Initiators)
    /\ Len(signals) <= Raised(ingress[Live]) + Raised(pinger)

(***************************************************************************)
(* The pinger waits while its Ping is queued or being written, so the      *)
(* outcome of a write never wakes a pinger that gave up (rlpx.rs:331-353). *)
(***************************************************************************)
PingerWaits ==
    /\ out = "ping" => pinger = "wait"
    /\ pings = 1 /\ egress # "panicked" => pinger = "wait" /\ out # "ping"

\* An ingress router that replies has something to send.
RepliesOutbound ==
    \A a \in Actors : ingress[a] \in {"reply", "push"} => msg[a] \in Outbound

ScalarTypes ==
    /\ sessions \in 0 .. MaxSessions
    /\ entry \in BOOLEAN /\ status \in BOOLEAN /\ pipes \in BOOLEAN
    /\ valid \in BOOLEAN /\ pinged \in BOOLEAN /\ disconnected \in [Actors -> BOOLEAN]

ReaderTypes ==
    /\ ingress \in [Actors -> IngressStates]
    /\ msg \in [Actors -> Inbound \cup Outbound \cup {"none"}]
    /\ chan \in {<<>>} \cup {<<e>> : e \in Outbound}
    /\ RepliesOutbound

WriterTypes ==
    /\ first \in {"none", "message", "disconnect"}
    /\ egress \in EgressStates
    /\ out \in Outbound \cup {"none", "ping", "pong"}
    /\ disconnecting \in Initiators \cup {"none"}
    /\ pinger \in PingerStates
    /\ pings \in 0 .. 1 /\ pongs \in 0 .. 1
    /\ PingerWaits

SessionTypes == ScalarTypes /\ ReaderTypes /\ WriterTypes /\ SignalledOnce

\* The groups of state are written by different tasks.
readerVars == <<ingress, msg, chan>>
writerVars == <<first, writer, pinger, pings, pongs>>
signalVars == <<signals, ingress, pinger>>

LEMMA ScalarStep ==
    ASSUME ScalarTypes, [Next]_vars
    PROVE  ScalarTypes'
  <1> USE DEF ScalarTypes, server, pinging
  <1>1. CASE Connect
    <2>1. sessions' \in 0 .. MaxSessions
      BY <1>1, SessionAssumption DEF Connect
    <2> QED
      BY <1>1, <2>1 DEF Connect
  <1>2. CASE UpdateStatus \/ \E e \in {"message", "disconnect"} : ServiceSend(e)
    <2>1. status' \in BOOLEAN
      BY <1>2 DEF UpdateStatus, ServiceSend
    <2>2. UNCHANGED <<sessions, entry, pipes, valid, pinged, disconnected>>
      BY <1>2 DEF UpdateStatus, ServiceSend
    <2> QED
      BY <2>1, <2>2
  <1>3. CASE IngressNext
    <2>1. ASSUME NEW a \in Actors, NEW m \in Inbound, Receive(a, m) PROVE ScalarTypes'
      BY <2>1 DEF Receive
    <2>2. CASE ReceivePing \/ OwePong \/ ReceivePong
      BY <2>2 DEF ReceivePing, OwePong, ReceivePong
    <2>3. CASE ReceiveDisconnect \/ ReceiveEnd \/ ReceiveEmpty
      BY <2>3 DEF ReceiveDisconnect, ReceiveEnd, ReceiveEmpty
    <2>4. CASE Push \/ CancelledStops
      BY <2>4 DEF Push, CancelledStops
    <2>5. ASSUME NEW a \in Actors, HandleStatus(a) PROVE ScalarTypes'
      BY <2>5 DEF HandleStatus
    <2>6. ASSUME NEW a \in Actors, HandleOther(a) \/ Awaited(a) \/ Reply(a)
          PROVE  ScalarTypes'
      BY <2>6 DEF HandleOther, Awaited, Reply
    <2> QED
      BY <1>3, <2>1, <2>2, <2>3, <2>4, <2>5, <2>6 DEF IngressNext
  <1>4. CASE EgressNext
    <2>1. CASE SelectEvent \/ SelectPing \/ SelectPong \/ SelectSignal
      BY <2>1 DEF SelectEvent, SelectPing, SelectPong, SelectSignal
    <2>2. CASE StartSend \/ SendPanic \/ SendOk \/ SendErr
      BY <2>2 DEF StartSend, SendPanic, SendOk, SendErr
    <2>3. CASE GraceOver \/ TeardownPeer
      BY <2>3 DEF GraceOver, TeardownPeer
    <2>4. CASE DisconnectPeer
      <3>1. Live \in Actors /\ disconnected[Live] \in BOOLEAN
        BY DEF Live, Actors
      <3>2. disconnected' \in [Actors -> BOOLEAN]
        BY <2>4, <3>1, Zenon DEF DisconnectPeer, CancelTasks
      <3>3. entry' = FALSE /\ pinged' = FALSE /\ UNCHANGED <<sessions, status, pipes, valid>>
        BY <2>4 DEF DisconnectPeer, CancelTasks
      <3> QED
        BY <3>2, <3>3
    <2> QED
      BY <1>4, <2>1, <2>2, <2>3, <2>4 DEF EgressNext
  <1>5. CASE PingerPing \/ PingerWake
    BY <1>5 DEF PingerPing, PingerWake
  <1>6. CASE UNCHANGED vars
    BY <1>6 DEF vars
  <1> QED
    BY <1>1, <1>2, <1>3, <1>4, <1>5, <1>6 DEF Next

LEMMA ReaderStep ==
    ASSUME ReaderTypes, [Next]_vars
    PROVE  ReaderTypes'
  <1> USE DEF ReaderTypes, RepliesOutbound, Actors, Live, Stale, IngressStates, Outbound
  <1>1. CASE Connect
    BY <1>1 DEF Connect
  <1>2. ASSUME NEW e \in {"message", "disconnect"}, ServiceSend(e) PROVE ReaderTypes'
    BY <1>2 DEF ServiceSend, reader
  <1>3. CASE IngressNext
    <2>1. ASSUME NEW a \in Actors, NEW m \in Inbound, Receive(a, m) PROVE ReaderTypes'
      BY <2>1 DEF Receive, outgoing
    <2>2. CASE ReceivePing \/ OwePong
      BY <2>2 DEF ReceivePing, OwePong, outgoing
    <2>3. CASE ReceivePong
      BY <2>3 DEF ReceivePong, outgoing, reader
    <2>4. CASE ReceiveDisconnect \/ ReceiveEnd
      BY <2>4 DEF ReceiveDisconnect, ReceiveEnd, Signal, outgoing
    <2>5. CASE ReceiveEmpty
      BY <2>5 DEF ReceiveEmpty, outgoing
    <2>6. ASSUME NEW a \in Actors, Awaited(a) PROVE ReaderTypes'
      BY <2>6 DEF Awaited, outgoing
    <2>7. CASE Push
      BY <2>7 DEF Push
    <2>8. ASSUME NEW a \in Actors, HandleStatus(a) PROVE ReaderTypes'
      BY <2>8 DEF HandleStatus, outgoing
    <2>9. ASSUME NEW a \in Actors, HandleOther(a) PROVE ReaderTypes'
      BY <2>9 DEF HandleOther, outgoing
    <2>10. ASSUME NEW a \in Actors, Reply(a) PROVE ReaderTypes'
      BY <2>10 DEF Reply
    <2>11. CASE CancelledStops
      BY <2>11 DEF CancelledStops, outgoing
    <2> QED
      BY <1>3, <2>1, <2>2, <2>3, <2>4, <2>5, <2>6, <2>7, <2>8, <2>9, <2>10, <2>11
      DEF IngressNext
  <1>4. CASE SelectEvent
    BY <1>4 DEF SelectEvent, reader
  <1>5. CASE DisconnectPeer
    BY <1>5, ZenonT(60) DEF DisconnectPeer, CancelTasks, GoesOn
  <1>6. CASE UNCHANGED readerVars
    BY <1>6 DEF readerVars
  <1>7. UpdateStatus \/ PingerPing \/ PingerWake => UNCHANGED readerVars
    BY DEF UpdateStatus, PingerPing, PingerWake, readerVars, reader, outgoing
  <1>8. SelectPing \/ SelectPong \/ SelectSignal \/ StartSend \/ SendPanic \/ SendOk
          \/ SendErr \/ GraceOver \/ TeardownPeer => UNCHANGED readerVars
    BY DEF SelectPing, SelectPong, SelectSignal, StartSend, SendPanic, SendOk, SendErr,
           GraceOver, TeardownPeer, readerVars, reader, outgoing
  <1>9. UNCHANGED vars => UNCHANGED readerVars
    BY DEF vars, readerVars, reader, outgoing
  <1> QED
    BY <1>1, <1>2, <1>3, <1>4, <1>5, <1>6, <1>7, <1>8, <1>9 DEF Next, EgressNext

LEMMA WriterStep ==
    ASSUME WriterTypes, ReaderTypes, SignalledOnce, [Next]_vars
    PROVE  WriterTypes'
  <1> USE DEF WriterTypes, PingerWaits, EgressStates, PingerStates, Initiators
  <1>1. CASE Connect
    BY <1>1 DEF Connect, FirstEvent
  <1>2. CASE OwePong
    BY <1>2 DEF OwePong, outgoing, writer, pinging
  <1>3. CASE SelectEvent
    <2>1. first # "none" \/ Head(chan) \in Outbound
      BY <1>3 DEF SelectEvent, ReaderTypes
    <2> QED
      BY <1>3, <2>1 DEF SelectEvent, Write, Outbound, pinging
  <1>4. CASE SelectPing \/ SelectPong
    BY <1>4 DEF SelectPing, SelectPong, Write, outgoing, pinging
  <1>5. CASE SelectSignal
    <2>1. Head(signals) \in Initiators
      BY <1>5 DEF SelectSignal, SignalledOnce
    <2> QED
      BY <1>5, <2>1 DEF SelectSignal, Write, Outbound, outgoing, pinging
  <1>6. CASE StartSend \/ SendPanic
    BY <1>6 DEF StartSend, SendPanic, outgoing, pinging
  <1>7. CASE SendOk \/ SendErr
    BY <1>7 DEF SendOk, SendErr, AfterSend, outgoing
  <1>8. CASE GraceOver \/ TeardownPeer
    BY <1>8 DEF GraceOver, TeardownPeer, outgoing, pinging
  <1>9. CASE DisconnectPeer
    BY <1>9 DEF DisconnectPeer, CancelTasks
  <1>10. CASE PingerPing \/ PingerWake
    BY <1>10 DEF PingerPing, PingerWake, outgoing, writer
  <1>11. CASE UNCHANGED writerVars
    BY <1>11 DEF writerVars, writer
  <1>12. UpdateStatus \/ (\E e \in {"message", "disconnect"} : ServiceSend(e))
           => UNCHANGED writerVars
    BY DEF UpdateStatus, ServiceSend, writerVars, outgoing, pinging
  <1>13. IngressNext => OwePong \/ UNCHANGED writerVars
    BY DEF IngressNext, Receive, ReceivePing, ReceivePong, ReceiveDisconnect, ReceiveEnd,
           ReceiveEmpty, Push, CancelledStops, HandleStatus, HandleOther, Awaited, Reply,
           writerVars, outgoing, pinging
  <1>14. UNCHANGED vars => UNCHANGED writerVars
    BY DEF vars, writerVars, outgoing, pinging
  <1> QED
    BY <1>1, <1>2, <1>3, <1>4, <1>5, <1>6, <1>7, <1>8, <1>9, <1>10, <1>11, <1>12, <1>13,
       <1>14 DEF Next, EgressNext

LEMMA SignalStep ==
    ASSUME SignalledOnce, ReaderTypes, WriterTypes, [Next]_vars
    PROVE  SignalledOnce'
  <1> USE DEF SignalledOnce, Raised
  <1>0. /\ signals \in Seq(Initiators) /\ Len(signals) \in Nat
        /\ ingress \in [Actors -> IngressStates]
    BY DEF ReaderTypes
  <1>1. CASE Connect \/ DisconnectPeer
    <2>1. signals' = <<>>
      BY <1>1 DEF Connect, DisconnectPeer, CancelTasks
    <2> QED
      BY <2>1
  <1>2. CASE SelectSignal
    BY <1>0, <1>2 DEF SelectSignal, reader, pinging
  <1>3. CASE PingerWake
    BY <1>0, <1>3 DEF PingerWake, reader, Initiators
  <1>4. CASE ReceiveDisconnect \/ ReceiveEnd
    BY <1>0, <1>4 DEF ReceiveDisconnect, ReceiveEnd, Signal, pinging, Actors, Live,
                      Initiators
  <1>5. CASE SendOk
    BY <1>0, <1>5 DEF SendOk, WriterTypes, PingerWaits, reader
  <1>6. CASE /\ UNCHANGED signals /\ Raised(ingress[Live])' >= Raised(ingress[Live])
             /\ Raised(pinger)' >= Raised(pinger)
    BY <1>0, <1>6
  <1>7. CASE SendErr \/ SendPanic \/ PingerPing
    BY <1>0, <1>7 DEF SendErr, SendPanic, PingerPing, reader
  <1>8. CASE IngressNext
    <2>1. ASSUME NEW a \in Actors,
                 HandleStatus(a) \/ HandleOther(a) \/ Awaited(a) \/ Reply(a)
          PROVE  SignalledOnce'
      BY <1>0, <2>1 DEF HandleStatus, HandleOther, Awaited, Reply, pinging, Actors, Live,
                        Stale
    <2>2. ASSUME NEW a \in Actors, NEW m \in Inbound, Receive(a, m) PROVE SignalledOnce'
      BY <1>0, <2>2 DEF Receive, pinging, Actors, Live, Stale
    <2>3. CASE ReceivePing \/ OwePong \/ ReceivePong \/ ReceiveEmpty \/ Push
                 \/ CancelledStops
      BY <1>0, <2>3 DEF ReceivePing, OwePong, ReceivePong, ReceiveEmpty, Push,
                        CancelledStops, pinging, reader, Actors, Live, Stale
    <2> QED
      BY <1>4, <1>8, <2>1, <2>2, <2>3 DEF IngressNext
  <1>9. CASE UNCHANGED signalVars
    BY <1>9 DEF signalVars
  <1>10. UpdateStatus \/ (\E e \in {"message", "disconnect"} : ServiceSend(e))
           => UNCHANGED signalVars
    BY DEF UpdateStatus, ServiceSend, signalVars, reader, pinging
  <1>11. SelectEvent \/ SelectPing \/ SelectPong \/ StartSend \/ GraceOver \/ TeardownPeer
           => UNCHANGED signalVars
    BY DEF SelectEvent, SelectPing, SelectPong, StartSend, GraceOver, TeardownPeer,
           signalVars, reader, pinging
  <1>12. UNCHANGED vars => UNCHANGED signalVars
    BY DEF vars, signalVars, reader, pinging
  <1> QED
    BY <1>1, <1>2, <1>3, <1>5, <1>7, <1>8, <1>9, <1>10, <1>11, <1>12 DEF Next, EgressNext

(***************************************************************************)
(* Every variable keeps its type.  In particular at most two tasks ask for *)
(* the end of a session, once each (rlpx.rs:230, 340-345), and what the    *)
(* egress router takes from its channels is something it can write.        *)
(***************************************************************************)
THEOREM SessionTypeOK == Spec => []TypeOK
  <1>1. Init => SessionTypes
    <2> SUFFICES ASSUME Init PROVE SessionTypes
      OBVIOUS
    <2>0. 0 \in 0 .. MaxSessions
      BY SessionAssumption
    <2>1. ScalarTypes
      BY <2>0, Zenon DEF Init, ScalarTypes
    <2>2. ReaderTypes
      BY DEF Init, ReaderTypes, RepliesOutbound, Actors, IngressStates
    <2>3. WriterTypes
      BY DEF Init, WriterTypes, PingerWaits, EgressStates, PingerStates
    <2>4. SignalledOnce
      BY DEF Init, SignalledOnce, Raised
    <2> QED
      BY <2>1, <2>2, <2>3, <2>4 DEF SessionTypes
  <1>2. SessionTypes /\ [Next]_vars => SessionTypes'
    BY ScalarStep, ReaderStep, WriterStep, SignalStep DEF SessionTypes
  <1>3. SessionTypes => TypeOK
    <2> SUFFICES ASSUME SessionTypes PROVE TypeOK
      OBVIOUS
    <2>1. Len(signals) <= 2 /\ \A i \in 1 .. Len(signals) : signals[i] \in Initiators
      BY DEF SessionTypes, SignalledOnce, Raised
    <2> QED
      BY <2>1 DEF SessionTypes, ScalarTypes, ReaderTypes, WriterTypes, TypeOK
  <1> QED
    BY <1>1, <1>2, <1>3, PTL DEF Spec

==============================================================================
