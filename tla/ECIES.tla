-------------------------------- MODULE ECIES --------------------------------
(***************************************************************************)
(* Both ends of an encrypted connection: the handshake and the frame codec *)
(* of devp2p/src/ecies (algorithm.rs, proto.rs) and the MAC of             *)
(* devp2p/src/mac.rs, over one TCP connection.                             *)
(*                                                                         *)
(* TCP is external: it delivers the bytes of each direction in order and   *)
(* in any portions; the connection may break, and bytes may be altered.    *)
(* A stream is the sequence of the pieces that were written to it (Auth,   *)
(* Ack, header, body), each with its size, and a count of the bytes that   *)
(* are in the reader's buffer: the codec is free to take a wrong number of *)
(* bytes, which makes them garbage.                                        *)
(*                                                                         *)
(* Cryptography is symbolic.  A public key stands for its pair; a shared   *)
(* secret is the unordered pair of keys; a hash is the tuple of what went  *)
(* into it; a ciphertext is opened only with its key and, for the frames,  *)
(* at its position of the key stream.                                      *)
(***************************************************************************)
EXTENDS Integers, SequencesExt

CONSTANTS
    Client, Server, Stranger,   \* node ids (and static keys)
    None,                       \* an absent value
    Block,                      \* cipher block, and tag of a frame: 16
    AuthSizes,                  \* sizes of an Auth: it is padded at random
    AckSize,                    \* size of an Ack
    Fixed,                      \* of these the parts of constant size: 115
    AlteredSizes,               \* sizes that an alteration puts in front of them
    Lengths,                    \* lengths of messages
    MaxFrames,                  \* bounds on the messages that each end sends
    MaxAltered                  \* bound on the pieces altered on their way

Prefix == 2                     \* bytes of the size in front of Auth and Ack
Ends == {Client, Server}
Other(e) == IF e = Client THEN Server ELSE Client
Frames == UNION {[no : 1 .. MaxFrames[e], len : Lengths] : e \in Ends}

ASSUME EciesAssumption ==
    /\ Client # Server /\ Stranger \notin Ends
    /\ Block \in Nat \ {0} /\ MaxFrames \in [Ends -> Nat] /\ MaxAltered \in Nat
    /\ Fixed \in Nat /\ Fixed > Prefix
    /\ \A n \in AuthSizes \cup {AckSize} : n \in Nat /\ n > Fixed
    /\ \A n \in AlteredSizes : n \in Nat /\ n >= Prefix
    /\ Lengths \subseteq Nat

VARIABLES
    dialed,             \* the id the client connects to, from discovery
    at,                 \* where connect, incoming or the stream is
    state,              \* ECIESCodec::state, of encoder and decoder
    remote,             \* what an end learnt: id, nonce, ephemeral key, both init msgs
    ingress, egress,    \* cipher and MAC of each direction, once set up
    body_size,          \* of the header that was read
    wire, got,          \* pieces to an end, how many of their bytes it buffers
    resized,            \* what the size of its Auth or Ack was altered to, if it was
    sent, received,     \* history: messages sent and received
    cut, altered        \* history: the connection broke, pieces altered

vars == <<dialed, at, state, remote, ingress, egress, body_size, wire, got, resized,
          sent, received, cut, altered>>

network == <<dialed, resized, cut, altered>>

-----------------------------------------------------------------------------
(* algorithm.rs, mac.rs                                                     *)

nonce(e)     == <<"nonce", e>>
ephemeral(e) == <<"ephemeral", e>>

ecdh_x(public, secret) == {public, secret}

Noise == [no |-> 0, len |-> 0]      \* altered bytes, bytes without a meaning

encrypt_message(to, data) == [to |-> to, data |-> data]

\* TagCheckFailed for everybody else, and if the message was altered.
Opens(e, message) == message.to = e /\ message.data # Noise

\* The signature with the ephemeral key is over the static secret and the nonce.
create_auth(e, id) ==
    [sig   |-> [by |-> ephemeral(e), over |-> <<ecdh_x(id, e), nonce(e)>>],
     id    |-> e,
     nonce |-> nonce(e)]

\* The ephemeral key is recovered from the signature; the wrong message yields
\* some other key.
parse_auth(e, r, auth) ==
    [r EXCEPT !.id = auth.id, !.nonce = auth.nonce,
              !.ephemeral = IF auth.sig.over = <<ecdh_x(auth.id, e), auth.nonce>>
                            THEN auth.sig.by ELSE Noise]

create_ack(e) == [ephemeral |-> ephemeral(e), nonce |-> nonce(e)]

parse_ack(r, ack) == [r EXCEPT !.ephemeral = ack.ephemeral, !.nonce = ack.nonce]

\* The secrets of AES and MAC are hashes of the same two values; the MACs also
\* absorb a nonce and the handshake message of their direction.
Halves(e, r, h_nonce) ==
    LET secret == [shared |-> ecdh_x(r.ephemeral, ephemeral(e)), h_nonce |-> h_nonce]
        half(seed, init) == [aes |-> secret, pos |-> 0, mac |-> <<<<secret, seed, init>>>>]
    IN [ingress |-> half(nonce(e), r.remote_init_msg), egress |-> half(r.nonce, r.init_msg)]

\* Defective variant of setup_frame: both ends put their own nonce first.
setup_frame_own_first(e, r, incoming) == Halves(e, r, <<nonce(e), r.nonce>>)

\* The keys of both directions, from what e knows of the remote end r.
setup_frame(e, r, incoming) ==
    Halves(e, r, IF incoming THEN <<nonce(e), r.nonce>> ELSE <<r.nonce, nonce(e)>>)

Padded(len) == IF len % Block = 0 THEN len ELSE (len \div Block + 1) * Block

header_len == 2 * Block

\* Defective variant of body_len: full blocks are padded, too.
body_len_extra(size) == (size \div Block + 1) * Block + Block

body_len(size) == Padded(size) + Block

Cipher(half, data) == [key |-> half.aes, pos |-> half.pos, data |-> data]

\* The plaintext, if the key and the position of the key stream are right.
Decipher(half, cipher) ==
    IF cipher = Cipher(half, cipher.data) THEN cipher.data ELSE Noise

\* The key stream moves on by the bytes of the piece, the MAC absorbs it.
Absorb(half, cipher, bytes) ==
    [half EXCEPT !.pos = @ + bytes, !.mac = Append(@, cipher)]

\* A piece of a frame, tagged with the MAC that absorbed it.
Piece(half, bytes, data) ==
    [size |-> bytes + Block, cipher |-> Cipher(half, data),
     tag  |-> Append(half.mac, Cipher(half, data))]

Header(len) == [no |-> -1, len |-> len]

\* write_header, write_body: both pieces of a frame.
Framed(half, frame) ==
    LET header == Piece(half, Block, Header(frame.len))
        half2  == Absorb(half, header.cipher, Block)
        body   == Piece(half2, Padded(frame.len), frame)
    IN [pieces |-> <<header, body>>,
        half   |-> Absorb(half2, body.cipher, Padded(frame.len))]

\* Defective variant of CheckMac: any tag will do.
CheckMacAny(half, piece) == TRUE

CheckMac(half, piece) == piece.tag = Append(half.mac, piece.cipher)

-----------------------------------------------------------------------------
(* The connection.                                                          *)

Bytes(pieces) ==
    LET sum[i \in 0 .. Len(pieces)] == IF i = 0 THEN 0 ELSE sum[i - 1] + pieces[i].size
    IN sum[Len(pieces)]

Init ==
    /\ dialed \in {Server, Stranger}
    /\ at = [e \in Ends |-> IF e = Client THEN "start" ELSE "auth"]
    /\ state = [e \in Ends |-> "Auth"]
    /\ remote = [e \in Ends |-> [id |-> None, nonce |-> None, ephemeral |-> None,
                                 init_msg |-> None, remote_init_msg |-> None]]
    /\ ingress = [e \in Ends |-> None] /\ egress = [e \in Ends |-> None]
    /\ body_size = [e \in Ends |-> None]
    /\ wire = [e \in Ends |-> <<>>] /\ got = [e \in Ends |-> 0]
    /\ resized = [e \in Ends |-> None]
    /\ sent = [e \in Ends |-> <<>>] /\ received = [e \in Ends |-> <<>>]
    /\ cut = FALSE /\ altered = 0

Gone(e) == at[e] \in {"failed", "closed", "panicked"}

\* More bytes reach the buffer of e.
Transfer(e) ==
    /\ ~cut /\ ~Gone(e)
    /\ got[e] < Bytes(wire[e])
    /\ got' = [got EXCEPT ![e] = @ + 1]
    /\ UNCHANGED <<network, at, state, remote, ingress, egress, body_size, wire, sent,
                   received>>

\* The bytes of one piece are altered while some are on their way, or the size
\* in front of an Auth or Ack is.
Alter(e) ==
    /\ altered < MaxAltered /\ ~cut /\ ~Gone(e)
    /\ \/ /\ \E i \in 1 .. Len(wire[e]) :
                /\ got[e] < Bytes(SubSeq(wire[e], 1, i))
                /\ wire' = [wire EXCEPT ![e][i].cipher.data = Noise]
          /\ UNCHANGED resized
       \/ /\ wire[e] # <<>> /\ state[e] \in {"Auth", "Ack"} /\ got[e] < Prefix
          /\ \E n \in AlteredSizes : resized' = [resized EXCEPT ![e] = n]
          /\ UNCHANGED wire
    /\ altered' = altered + 1
    /\ UNCHANGED <<dialed, cut, at, state, remote, ingress, egress, body_size, got, sent,
                   received>>

\* The connection breaks: what is on its way is lost.
Cut ==
    /\ ~cut
    /\ cut' = TRUE
    /\ UNCHANGED <<dialed, resized, altered, at, state, remote, ingress, egress,
                   body_size, wire, got, sent, received>>

Leave(e, how) ==
    /\ at' = [at EXCEPT ![e] = how]
    /\ wire' = [wire EXCEPT ![e] = <<>>] /\ got' = [got EXCEPT ![e] = 0]

\* The owner drops the stream, or a handshake that takes too long.
Close(e) ==
    /\ ~Gone(e)
    /\ Leave(e, "closed")
    /\ UNCHANGED <<network, state, remote, ingress, egress, body_size, sent, received>>

\* Writing to the other end; bytes for an end that has gone are lost.
WriteTo(e, pieces) ==
    wire' = IF Gone(e) THEN wire ELSE [wire EXCEPT ![e] = @ \o pieces]

-----------------------------------------------------------------------------
(* ECIESStream::connect and ECIESStream::incoming                           *)

\* A handshake message: it has no tag of the frame's kind.
Message(size, message) == [size |-> size, cipher |-> message, tag |-> <<>>]

\* connect: write_auth, for the id that is expected there.
SendAuth(size) ==
    LET auth == Message(size, encrypt_message(dialed, create_auth(Client, dialed))) IN
    /\ at[Client] = "start"
    /\ state' = [state EXCEPT ![Client] = "Ack"]
    /\ remote' = [remote EXCEPT ![Client].id = dialed, ![Client].init_msg = auth]
    /\ WriteTo(Server, <<auth>>)
    /\ at' = [at EXCEPT ![Client] = "ack"]
    /\ UNCHANGED <<network, ingress, egress, body_size, got, sent, received>>

\* incoming: write_ack, with which the server has its keys.
SendAck ==
    LET ack == Message(AckSize, encrypt_message(remote[Server].id, create_ack(Server)))
        r   == [remote[Server] EXCEPT !.init_msg = ack]
        k   == setup_frame(Server, r, TRUE)
    IN
    /\ at[Server] = "reply"
    /\ state' = [state EXCEPT ![Server] = "Header"]
    /\ remote' = [remote EXCEPT ![Server] = r]
    /\ ingress' = [ingress EXCEPT ![Server] = k.ingress]
    /\ egress' = [egress EXCEPT ![Server] = k.egress]
    /\ WriteTo(Client, <<ack>>)
    /\ at' = [at EXCEPT ![Server] = "open"]
    /\ UNCHANGED <<network, body_size, got, sent, received>>

-----------------------------------------------------------------------------
(* ECIESCodec::decode, while connect, incoming or the owner polls.          *)

Polled(e) == at[e] \in {"auth", "ack", "open"}

\* Defective variant of Enough: one byte more is waited for.
EnoughStrict(e, n) == got[e] > n

Enough(e, n) == got[e] >= n

\* n bytes off the buffer: a piece, if they are one.
Taken(e, n) ==
    IF Head(wire[e]).size = n THEN Head(wire[e])
    ELSE [size |-> n, cipher |-> Noise, tag |-> <<>>]

Split(e, n) ==
    /\ wire' = [wire EXCEPT ![e] = Tail(@)]
    /\ got' = [got EXCEPT ![e] = @ - n]

\* The size of Auth and Ack is in their prefix.
total_size(e) == IF resized[e] = None THEN Head(wire[e]).size ELSE resized[e]

MessageArrived(e) ==
    Enough(e, Prefix) /\ Enough(e, total_size(e))

\* decrypt_message: the tag is over the size, too.
Decrypts(e) ==
    total_size(e) = Head(wire[e]).size /\ Opens(e, Head(wire[e]).cipher)

\* Without its fixed parts a message cannot be split into them: a panic, unless
\* its public key was found to be none before.
DecryptFails(e) ==
    \E how \in {"failed", "panicked"} :
       /\ IF how = "panicked" THEN total_size(e) < Fixed
          ELSE total_size(e) >= Fixed \/ Head(wire[e]).cipher.data = Noise
       /\ Leave(e, how)

\* read_auth
DecodeAuth ==
    LET auth == Head(wire[Server]) IN
    /\ Polled(Server) /\ state[Server] = "Auth" /\ MessageArrived(Server)
    /\ IF ~Decrypts(Server)
       THEN DecryptFails(Server) /\ UNCHANGED <<state, remote>>
       ELSE /\ remote' = [remote EXCEPT ![Server] = [parse_auth(Server, @, auth.cipher.data)
                                                     EXCEPT !.remote_init_msg = auth]]
            /\ state' = [state EXCEPT ![Server] = "Header"]
            /\ at' = [at EXCEPT ![Server] = "reply"]
            /\ Split(Server, auth.size)
    /\ UNCHANGED <<network, ingress, egress, body_size, sent, received>>

\* read_ack, with which the client has its keys.
DecodeAck ==
    LET ack == Head(wire[Client])
        r   == [parse_ack(remote[Client], ack.cipher.data) EXCEPT !.remote_init_msg = ack]
        k   == setup_frame(Client, r, FALSE)
    IN
    /\ Polled(Client) /\ state[Client] = "Ack" /\ MessageArrived(Client)
    /\ IF ~Decrypts(Client)
       THEN DecryptFails(Client) /\ UNCHANGED <<state, remote, ingress, egress>>
       ELSE /\ remote' = [remote EXCEPT ![Client] = r]
            /\ ingress' = [ingress EXCEPT ![Client] = k.ingress]
            /\ egress' = [egress EXCEPT ![Client] = k.egress]
            /\ state' = [state EXCEPT ![Client] = "Header"]
            /\ at' = [at EXCEPT ![Client] = "open"]
            /\ Split(Client, ack.size)
    /\ UNCHANGED <<network, body_size, sent, received>>

\* Without keys the unwrap of ingress_mac panics.
DecodeHeader(e) ==
    LET header == Taken(e, header_len) IN
    /\ Polled(e) /\ state[e] = "Header" /\ Enough(e, header_len)
    /\ CASE ingress[e] = None ->
              Leave(e, "panicked") /\ UNCHANGED <<state, ingress, body_size>>
         [] ingress[e] # None /\ ~CheckMac(ingress[e], header) ->
              Leave(e, "failed") /\ UNCHANGED <<state, ingress, body_size>>
         [] OTHER ->
              /\ ingress' = [ingress EXCEPT ![e] = Absorb(@, header.cipher, Block)]
              /\ body_size' = [body_size EXCEPT ![e] =
                                 Decipher(ingress[e], header.cipher).len]
              /\ state' = [state EXCEPT ![e] = "Body"]
              /\ Split(e, header_len) /\ UNCHANGED at
    /\ UNCHANGED <<network, remote, egress, sent, received>>

\* The frame is cut to its size and handed out.
DecodeBody(e) ==
    LET n    == body_len(body_size[e])
        body == Taken(e, n)
    IN
    /\ Polled(e) /\ state[e] = "Body" /\ Enough(e, n)
    /\ IF ~CheckMac(ingress[e], body)
       THEN Leave(e, "failed") /\ UNCHANGED <<state, ingress, body_size, received>>
       ELSE /\ ingress' = [ingress EXCEPT ![e] = Absorb(@, body.cipher, n - Block)]
            /\ received' = [received EXCEPT ![e] =
                              Append(@, Decipher(ingress[e], body.cipher))]
            /\ body_size' = [body_size EXCEPT ![e] = None]
            /\ state' = [state EXCEPT ![e] = "Header"]
            /\ Split(e, n) /\ UNCHANGED at
    /\ UNCHANGED <<network, remote, egress, sent>>

\* How many bytes the decoder waits for.
Missing(e) ==
    CASE state[e] = "Header" -> header_len
      [] state[e] = "Body"   -> body_len(body_size[e])
      [] OTHER -> IF got[e] < Prefix THEN Prefix ELSE total_size(e)

\* decode_eof, or an error of the socket.  The end of a stream between two
\* frames is its proper end, except during the handshake.
DecodeEnd(e) ==
    /\ Polled(e) /\ ~Enough(e, Missing(e))
    /\ cut \/ (Gone(Other(e)) /\ got[e] = Bytes(wire[e]))
    /\ Leave(e, IF ~cut /\ got[e] = 0 /\ at[e] = "open" THEN "closed" ELSE "failed")
    /\ UNCHANGED <<network, state, remote, ingress, egress, body_size, sent, received>>

-----------------------------------------------------------------------------
(* The Sink of an open stream.                                              *)

\* Defective variant of Encode: like the handshake's, it touches the state.
EncodeState(e, frame) ==
    LET f == Framed(egress[e], frame) IN
    /\ egress' = [egress EXCEPT ![e] = f.half]
    /\ WriteTo(Other(e), f.pieces)
    /\ state' = [state EXCEPT ![e] = "Header"]

\* encode(Message): the decoder's state stays as it is.
Encode(e, frame) ==
    LET f == Framed(egress[e], frame) IN
    /\ egress' = [egress EXCEPT ![e] = f.half]
    /\ WriteTo(Other(e), f.pieces)
    /\ UNCHANGED state

StartSend(e, len) ==
    LET frame == [no |-> Len(sent[e]) + 1, len |-> len] IN
    /\ at[e] = "open" /\ ~cut
    /\ Len(sent[e]) < MaxFrames[e]
    /\ Encode(e, frame)
    /\ sent' = [sent EXCEPT ![e] = Append(@, frame)]
    /\ UNCHANGED <<network, at, remote, ingress, body_size, got, received>>

-----------------------------------------------------------------------------
Decode(e) ==
    \/ e = Server /\ DecodeAuth
    \/ e = Client /\ DecodeAck
    \/ DecodeHeader(e) \/ DecodeBody(e) \/ DecodeEnd(e)

Next ==
    \/ \E size \in AuthSizes : SendAuth(size)
    \/ SendAck
    \/ \E e \in Ends : Transfer(e) \/ Alter(e) \/ Close(e) \/ Decode(e)
    \/ \E e \in Ends, len \in Lengths : StartSend(e, len)
    \/ Cut

Spec == Init /\ [][Next]_vars

\* Bytes arrive unless the connection breaks, and the tasks are polled.
Fairness ==
    /\ WF_vars(\E size \in AuthSizes : SendAuth(size)) /\ WF_vars(SendAck)
    /\ \A e \in Ends : WF_vars(Transfer(e)) /\ WF_vars(Decode(e))

FairSpec == Spec /\ Fairness

-----------------------------------------------------------------------------
(* The keys that an end can have, and their absence.                        *)

\* What both ends hash into their keys.
Secret == [shared  |-> {ephemeral(Client), ephemeral(Server)},
           h_nonce |-> <<nonce(Server), nonce(Client)>>]

Datas == [no : Int, len : Nat]
Ciphers == [key : {Secret}, pos : Nat, data : Datas]

Auth(to, size) == Message(size, encrypt_message(to, create_auth(Client, to)))
Ack == Message(AckSize, encrypt_message(Client, create_ack(Server)))
Auths == {Auth(to, size) : to \in {Server, Stranger}, size \in AuthSizes}

\* What a MAC absorbs first: the nonce of the reader, the message of the writer.
Seed(reader, message) == <<Secret, nonce(reader), message>>
Seeds == {Seed(Client, Ack)} \cup {Seed(Server, m) : m \in Auths}

Macs == Ciphers \cup Seeds
Keys == [aes : {Secret}, pos : Nat, mac : Seq(Macs)]

\* ingress_aes, egress_aes and the MACs are Options.
ASSUME NoneAssumption == None \notin Keys /\ None \notin AlteredSizes

-----------------------------------------------------------------------------
(* Properties.                                                              *)

(***************************************************************************)
(* An end fails only for a reason: the connection broke, bytes were        *)
(* altered, another node than the dialed one answers, or an end closed it. *)
(* Otherwise both ends derive the same keys from their halves of the       *)
(* handshake, agree on every boundary between pieces although frames are   *)
(* padded and sent while others arrive, and move their MACs and key        *)
(* streams in step.  The codec panics on one thing only: an Auth or Ack    *)
(* whose size was altered.  No unwrap of a key or MAC panics, and no frame *)
(* does, altered or not (algorithm.rs:209-235, 400-559, proto.rs:72).      *)
(***************************************************************************)
FailsForAReason ==
    \A e \in Ends :
       /\ at[e] = "panicked" => resized[e] # None /\ ingress[e] = None
       /\ at[e] = "failed" => \/ cut \/ altered > 0 \/ dialed # Server
                              \/ \E o \in Ends : at[o] = "closed"

(***************************************************************************)
(* Two ends with keys know each other: the server has the id of the        *)
(* client, the client reached the id it dialed, and what one sends with is *)
(* what the other receives with (algorithm.rs:287-460, proto.rs:214).      *)
(***************************************************************************)
KeysAgree ==
    \A e \in Ends :
       egress[e] # None /\ ingress[Other(e)] # None =>
          /\ remote[e].id = Other(e) /\ dialed = Server
          /\ egress[e].aes = ingress[Other(e)].aes
          /\ IsPrefix(ingress[Other(e)].mac, egress[e].mac)

\* The size in front of its handshake message is beyond what the other end wrote.
Misled(e) ==
    /\ wire[e] # <<>> /\ state[e] \in {"Auth", "Ack"}
    /\ total_size(e) > Bytes(wire[e])

Channel == INSTANCE FrameChannel WITH
    status <- [e \in Ends |-> CASE at[e] = "open" -> "up"
                                [] Gone(e) -> IF ingress[e] = None THEN "failed" ELSE "left"
                                [] OTHER -> "new"]

(***************************************************************************)
(* The stream is a channel of frames: however the bytes are cut up and     *)
(* even if some are altered, what is handed out is what was handed in,     *)
(* once and in order (proto.rs:72-161, 246-276).                           *)
(***************************************************************************)
ImplementsChannel == Channel!ChannelSpec

(***************************************************************************)
(* The handshake ends at both sides, in success or failure, also if it is  *)
(* the other side that failed (proto.rs:177-231).  An end that was told of *)
(* more bytes than were written waits for them until its owner's timeout   *)
(* (rlpx.rs:36, 39).                                                       *)
(***************************************************************************)
HandshakeSettles ==
    <>[](\/ \A e \in Ends : at[e] = "open" \/ Gone(e)
         \/ \E e \in Ends : Misled(e))

(***************************************************************************)
(* Every frame arrives, without waiting for another one to push it, unless *)
(* the connection breaks, an end leaves or bytes were altered              *)
(* (proto.rs:113-133).                                                     *)
(***************************************************************************)
FramesArrive ==
    []<>(\/ \A e \in Ends : received[Other(e)] = sent[e]
         \/ cut \/ altered > 0 \/ \E o \in Ends : Gone(o))

==============================================================================
