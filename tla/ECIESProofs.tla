----------------------------- MODULE ECIESProofs -----------------------------
(***************************************************************************)
(* Proofs about the encrypted connection, for any block size, any sizes of *)
(* the handshake messages, any messages and any number of alterations.     *)
(***************************************************************************)
EXTENDS ECIES, Induction, SequenceTheorems

-----------------------------------------------------------------------------
(* The bytes of a sequence of pieces.                                       *)

Sized(pieces) == \A i \in 1 .. Len(pieces) : pieces[i].size \in Nat

\* sum adds up the sizes of the first pieces.
Sums(sum, pieces) ==
    /\ sum[0] = 0
    /\ \A i \in 1 .. Len(pieces) : sum[i] = sum[i - 1] + pieces[i].size

(***************************************************************************)
(* The recursive function of Bytes exists.                                 *)
(***************************************************************************)
LEMMA SumsExist ==
    ASSUME NEW S, NEW pieces \in Seq(S), Sized(pieces)
    PROVE  \E sum \in [0 .. Len(pieces) -> Nat] :
              Sums(sum, pieces) /\ Bytes(pieces) = sum[Len(pieces)]
<1> DEFINE N == Len(pieces)
           Step(g, i) == IF i = 0 THEN 0 ELSE g[i - 1] + pieces[i].size
           P == {n \in Nat : \E g : g = [i \in 0 .. n |-> Step(g, i)]}
           sum == CHOOSE g : g = [i \in 0 .. N |-> Step(g, i)]
<1>1. N \in Nat
    OBVIOUS
<1>2. 0 \in P
  <2> DEFINE g == [i \in 0 .. 0 |-> 0]
  <2>1. g = [i \in 0 .. 0 |-> Step(g, i)]
      OBVIOUS
  <2> QED BY <2>1
<1>3. ASSUME NEW n \in Nat, n \in P PROVE n + 1 \in P
  <2>1. PICK g : g = [i \in 0 .. n |-> Step(g, i)]
      BY <1>3
  <2> DEFINE h == [i \in 0 .. n + 1 |-> IF i = n + 1 THEN Step(g, n + 1) ELSE g[i]]
  <2>2. ASSUME NEW i \in 0 .. n + 1 PROVE h[i] = Step(h, i)
    <3>1. CASE i = n + 1
        BY <3>1
    <3>2. CASE i # n + 1 /\ i # 0
      <4>1. i \in 0 .. n /\ i - 1 \in 0 .. n /\ i - 1 # n + 1
          BY <3>2
      <4>2. h[i] = g[i] /\ h[i - 1] = g[i - 1]
          BY <3>2, <4>1
      <4>3. g[i] = Step(g, i)
          BY <2>1, <3>2, <4>1
      <4> QED BY <3>2, <4>2, <4>3
    <3>3. CASE i = 0
        BY <2>1, <3>3
    <3> QED BY <3>1, <3>2, <3>3
  <2>3. h = [i \in 0 .. n + 1 |-> h[i]]
      OBVIOUS
  <2> HIDE DEF h
  <2>4. h = [i \in 0 .. n + 1 |-> Step(h, i)]
      BY <2>2, <2>3
  <2>5. \E f : f = [i \in 0 .. n + 1 |-> Step(f, i)]
      BY <2>4, Zenon
  <2>6. n + 1 \in Nat
      OBVIOUS
  <2> QED BY <2>5, <2>6, Zenon
<1>4. Nat \subseteq P
  <2> HIDE DEF P
  <2> QED BY <1>2, <1>3, NatSetInduction
<1>5. sum = [i \in 0 .. N |-> Step(sum, i)]
    BY <1>1, <1>4
<1>6. Bytes(pieces) = sum[N]
    BY DEF Bytes
<1> HIDE DEF sum
<1>7. Sums(sum, pieces)
  <2>1. sum[0] = 0
      BY <1>1, <1>5
  <2>2. ASSUME NEW i \in 1 .. N PROVE sum[i] = sum[i - 1] + pieces[i].size
    <3>1. i \in 0 .. N /\ i # 0
        OBVIOUS
    <3> QED BY <1>5, <3>1
  <2> QED BY <2>1, <2>2 DEF Sums
<1> DEFINE Q == {n \in Nat : n <= N => sum[n] \in Nat}
<1>8. 0 \in Q
    BY <1>7 DEF Sums
<1>9. ASSUME NEW n \in Nat, n \in Q PROVE n + 1 \in Q
  <2> SUFFICES ASSUME n + 1 <= N PROVE sum[n + 1] \in Nat
      OBVIOUS
  <2>1. n + 1 \in 1 .. N /\ (n + 1) - 1 = n /\ sum[n] \in Nat
      BY <1>1, <1>9
  <2>2. sum[n + 1] = sum[(n + 1) - 1] + pieces[n + 1].size /\ pieces[n + 1].size \in Nat
      BY <1>7, <2>1 DEF Sums, Sized
  <2> QED BY <2>1, <2>2
<1>10. Nat \subseteq Q
  <2> HIDE DEF Q
  <2> QED BY <1>8, <1>9, NatSetInduction
<1>11. sum \in [0 .. N -> Nat]
  <2>1. \A i \in 0 .. N : sum[i] \in Nat
      BY <1>1, <1>10
  <2>2. sum = [i \in 0 .. N |-> sum[i]]
      BY <1>5
  <2> QED BY <2>1, <2>2
<1> QED BY <1>6, <1>7, <1>11

(***************************************************************************)
(* Sums are determined by the sizes.                                       *)
(***************************************************************************)
LEMMA SumsUnique ==
    ASSUME NEW S, NEW pieces \in Seq(S), Sized(pieces),
           NEW f, NEW g, Sums(f, pieces), Sums(g, pieces)
    PROVE  f[Len(pieces)] = g[Len(pieces)]
<1> DEFINE N == Len(pieces)
           Q == {n \in Nat : n <= N => f[n] = g[n]}
<1>1. N \in Nat
    OBVIOUS
<1>2. 0 \in Q
    BY DEF Sums
<1>3. ASSUME NEW n \in Nat, n \in Q PROVE n + 1 \in Q
  <2> SUFFICES ASSUME n + 1 <= N PROVE f[n + 1] = g[n + 1]
      OBVIOUS
  <2>1. n + 1 \in 1 .. N /\ (n + 1) - 1 = n /\ f[n] = g[n]
      BY <1>1, <1>3
  <2>2. f[n + 1] = f[(n + 1) - 1] + pieces[n + 1].size
        /\ g[n + 1] = g[(n + 1) - 1] + pieces[n + 1].size
      BY <2>1 DEF Sums
  <2> QED BY <2>1, <2>2
<1>4. Nat \subseteq Q
  <2> HIDE DEF Q
  <2> QED BY <1>2, <1>3, NatSetInduction
<1> QED BY <1>1, <1>4

(***************************************************************************)
(* No pieces have no bytes.                                                *)
(***************************************************************************)
LEMMA BytesEmpty == Bytes(<<>>) = 0
<1>1. <<>> \in Seq({}) /\ Len(<<>>) = 0
    OBVIOUS
<1>2. Sized(<<>>)
    BY <1>1 DEF Sized
<1> QED BY <1>1, <1>2, SumsExist DEF Sums

(***************************************************************************)
(* Taking the first piece off takes its bytes off.                         *)
(***************************************************************************)
LEMMA BytesTail ==
    ASSUME NEW S, NEW pieces \in Seq(S), Sized(pieces), pieces # <<>>
    PROVE  /\ Bytes(pieces) \in Nat /\ Sized(Tail(pieces))
           /\ Bytes(Tail(pieces)) = Bytes(pieces) - Head(pieces).size
<1> DEFINE N == Len(pieces)
           rest == Tail(pieces)
           first == pieces[1].size
<1>1. /\ N \in Nat /\ N >= 1 /\ rest \in Seq(S) /\ Len(rest) = N - 1
      /\ \A i \in 1 .. N - 1 : rest[i] = pieces[i + 1]
      /\ Head(pieces) = pieces[1]
    OBVIOUS
<1>2. first \in Nat
    BY <1>1 DEF Sized
<1> HIDE DEF rest, first
<1>3. Sized(rest)
  <2> SUFFICES ASSUME NEW i \in 1 .. N - 1 PROVE rest[i].size \in Nat
      BY <1>1 DEF Sized
  <2>1. i + 1 \in 1 .. N
      BY <1>1
  <2> QED BY <1>1, <2>1 DEF Sized
<1>4. PICK sum \in [0 .. N -> Nat] : Sums(sum, pieces) /\ Bytes(pieces) = sum[N]
    BY SumsExist
<1> DEFINE g == [i \in 0 .. N - 1 |-> sum[i + 1] - first]
<1>5. Sums(g, rest)
  <2>1. g[0] = 0
    <3>1. sum[1] = sum[1 - 1] + pieces[1].size /\ sum[0] = 0
        BY <1>1, <1>4 DEF Sums
    <3> QED BY <1>1, <1>2, <3>1 DEF first
  <2>2. ASSUME NEW i \in 1 .. N - 1 PROVE g[i] = g[i - 1] + rest[i].size
    <3>1. /\ i + 1 \in 1 .. N /\ (i + 1) - 1 = i /\ i \in 0 .. N /\ i + 1 \in 0 .. N
          /\ i \in 0 .. N - 1 /\ i - 1 \in 0 .. N - 1 /\ (i - 1) + 1 = i
        BY <1>1
    <3>2. sum[i + 1] = sum[(i + 1) - 1] + pieces[i + 1].size /\ pieces[i + 1].size \in Nat
        BY <1>4, <3>1 DEF Sums, Sized
    <3>3. g[i] = sum[i + 1] - first /\ g[i - 1] = sum[i] - first
        BY <3>1
    <3>4. sum[i] \in Nat /\ sum[i + 1] \in Nat /\ rest[i] = pieces[i + 1]
        BY <1>1, <3>1
    <3>5. \A a, b, x, c \in Nat : a = b + x => a - c = (b - c) + x
        OBVIOUS
    <3>6. sum[i + 1] = sum[i] + rest[i].size /\ rest[i].size \in Nat
        BY <3>1, <3>2, <3>4
    <3> HIDE DEF g
    <3> QED BY <1>2, <3>3, <3>4, <3>5, <3>6
  <2> QED BY <1>1, <2>1, <2>2 DEF Sums
<1>6. g[N - 1] = sum[N] - first
    BY <1>1
<1> HIDE DEF g
<1>7. PICK f : Sums(f, rest) /\ Bytes(rest) = f[N - 1]
    BY <1>1, <1>3, SumsExist
<1>8. f[Len(rest)] = g[Len(rest)]
    BY <1>1, <1>3, <1>5, <1>7, SumsUnique
<1>9. Bytes(rest) = Bytes(pieces) - first /\ Bytes(pieces) \in Nat
    BY <1>1, <1>4, <1>6, <1>7, <1>8
<1> QED BY <1>1, <1>3, <1>9 DEF rest, first

(***************************************************************************)
(* Pieces of the same sizes have as many bytes.                            *)
(***************************************************************************)
LEMMA BytesSame ==
    ASSUME NEW S, NEW a \in Seq(S), NEW b \in Seq(S), Sized(a), Len(a) = Len(b),
           \A i \in 1 .. Len(a) : a[i].size = b[i].size
    PROVE  Sized(b) /\ Bytes(b) = Bytes(a)
<1>1. Sized(b)
    BY DEF Sized
<1>2. PICK f : Sums(f, a) /\ Bytes(a) = f[Len(a)]
    BY SumsExist
<1>3. PICK g : Sums(g, b) /\ Bytes(b) = g[Len(b)]
    BY <1>1, SumsExist
<1>4. Sums(g, a)
    BY <1>3 DEF Sums
<1>5. f[Len(a)] = g[Len(a)]
    BY <1>2, <1>4, SumsUnique
<1> QED BY <1>1, <1>2, <1>3, <1>5

(***************************************************************************)
(* One more piece means no fewer bytes.                                    *)
(***************************************************************************)
LEMMA BytesAppend ==
    ASSUME NEW S, NEW pieces \in Seq(S), Sized(pieces), NEW piece \in S, piece.size \in Nat
    PROVE  /\ Sized(Append(pieces, piece))
           /\ Bytes(pieces) \in Nat /\ Bytes(Append(pieces, piece)) \in Nat
           /\ Bytes(pieces) <= Bytes(Append(pieces, piece))
<1> DEFINE N == Len(pieces)
           more == Append(pieces, piece)
<1>1. /\ N \in Nat /\ more \in Seq(S) /\ Len(more) = N + 1
      /\ \A i \in 1 .. N : more[i] = pieces[i]
      /\ more[N + 1] = piece
    OBVIOUS
<1> HIDE DEF more
<1>2. Sized(more)
    BY <1>1 DEF Sized
<1>3. PICK f \in [0 .. N -> Nat] : Sums(f, pieces) /\ Bytes(pieces) = f[N]
    BY SumsExist
<1>4. PICK g \in [0 .. N + 1 -> Nat] : Sums(g, more) /\ Bytes(more) = g[N + 1]
    BY <1>1, <1>2, SumsExist
<1>5. Sums(g, pieces)
    BY <1>1, <1>4 DEF Sums
<1>6. f[N] = g[N]
    BY <1>3, <1>5, SumsUnique
<1>7. g[N + 1] = g[(N + 1) - 1] + piece.size /\ (N + 1) - 1 = N
  <2>1. N + 1 \in 1 .. Len(more)
      BY <1>1
  <2>2. g[N + 1] = g[(N + 1) - 1] + more[N + 1].size
      BY <1>4, <2>1 DEF Sums
  <2> QED BY <1>1, <2>2
<1>8. f[N] \in Nat /\ g[N + 1] \in Nat
    BY <1>1
<1> QED BY <1>2, <1>3, <1>4, <1>6, <1>7, <1>8 DEF more

-----------------------------------------------------------------------------
(* The values of a connection.                                              *)

\* A message that was altered.
Garbled(message) == [message EXCEPT !.cipher.data = Noise]

\* The keys that setup_frame yields.
Fresh(seed) == [aes |-> Secret, pos |-> 0, mac |-> <<seed>>]

Tagged == [size : Nat, cipher : Ciphers, tag : Seq(Macs)]
Pieces == Tagged \cup Auths \cup {Garbled(m) : m \in Auths} \cup {Ack, Garbled(Ack)}

\* The sequence t begins with s.
Begins(s, t) == Len(s) <= Len(t) /\ \A i \in 1 .. Len(s) : s[i] = t[i]

Ended == {"failed", "closed", "panicked"}

Types ==
    /\ dialed \in {Server, Stranger}
    /\ at \in [Ends -> {"start", "auth", "reply", "ack", "open"} \cup Ended]
    /\ state \in [Ends -> {"Auth", "Ack", "Header", "Body"}]
    /\ DOMAIN remote = Ends
    /\ \A e \in Ends :
         DOMAIN remote[e] = {"id", "nonce", "ephemeral", "init_msg", "remote_init_msg"}
    /\ DOMAIN ingress = Ends /\ DOMAIN egress = Ends
    /\ body_size \in [Ends -> Nat \cup {None}]
    /\ \A e \in Ends : state[e] = "Body" => body_size[e] \in Nat
    /\ sent \in [Ends -> Seq(Datas)]

\* The reader's buffer holds some of the bytes of the pieces that were written.
Stream ==
    /\ wire \in [Ends -> Seq(Pieces)] /\ got \in [Ends -> Nat]
    /\ \A e \in Ends : got[e] <= Bytes(wire[e])
    /\ \A e \in Ends : Gone(e) => wire[e] = <<>>

-----------------------------------------------------------------------------
(* The phases of a connection.                                              *)

NoKeys(e) == ingress[e] = None /\ egress[e] = None

AuthSent ==
    /\ state[Client] = "Ack" /\ at[Client] \in {"ack"} \cup Ended
    /\ remote[Client].id = dialed
    /\ \E size \in AuthSizes : remote[Client].init_msg = Auth(dialed, size)

AuthTaken ==
    /\ dialed = Server
    /\ remote[Server].id = Client /\ remote[Server].nonce = nonce(Client)
    /\ remote[Server].ephemeral = ephemeral(Client)
    /\ remote[Server].remote_init_msg = remote[Client].init_msg

\* The server has not read the Auth.
Greeting ==
    /\ state[Server] = "Auth" /\ at[Server] \in {"auth"} \cup Ended
    /\ NoKeys(Server) /\ NoKeys(Client)
    /\ wire[Client] = <<>>
    /\ \/ /\ state[Client] = "Auth" /\ at[Client] \in {"start"} \cup Ended
          /\ wire[Server] = <<>>
       \/ /\ AuthSent
          /\ \/ wire[Server] = <<>>
             \/ wire[Server] = <<remote[Client].init_msg>>
             \/ wire[Server] = <<Garbled(remote[Client].init_msg)>>

\* The server has read the Auth and not answered.
Greeted ==
    /\ AuthSent /\ AuthTaken
    /\ state[Server] = "Header" /\ at[Server] \in {"reply"} \cup Ended
    /\ NoKeys(Server) /\ NoKeys(Client)
    /\ wire[Client] = <<>> /\ wire[Server] = <<>>

\* The server has its keys and may send; the client has not read the Ack.
Answered ==
    /\ AuthSent /\ AuthTaken
    /\ state[Server] = "Header" /\ at[Server] \in {"open"} \cup Ended
    /\ NoKeys(Client)
    /\ ingress[Server] = Fresh(Seed(Server, remote[Client].init_msg))
    /\ egress[Server] \in Keys /\ Begins(<<Seed(Client, Ack)>>, egress[Server].mac)
    /\ wire[Server] = <<>>
    /\ Gone(Client) \/ (wire[Client] # <<>> /\ wire[Client][1] \in {Ack, Garbled(Ack)})
    /\ \A i \in 2 .. Len(wire[Client]) :
         wire[Client][i] \in Tagged /\ Begins(wire[Client][i].tag, egress[Server].mac)

\* Both ends have their keys.
Connected ==
    /\ dialed = Server /\ remote[Client].id = Server /\ remote[Server].id = Client
    /\ \A e \in Ends :
         /\ at[e] \in {"open"} \cup Ended /\ state[e] \in {"Header", "Body"}
         /\ ingress[e] \in Keys /\ egress[e] \in Keys
         /\ Begins(ingress[Other(e)].mac, egress[e].mac)
         /\ \A i \in 1 .. Len(wire[e]) :
              wire[e][i] \in Tagged /\ Begins(wire[e][i].tag, egress[Other(e)].mac)

\* The inductive invariant.
KeysInv == Types /\ Stream /\ (Greeting \/ Greeted \/ Answered \/ Connected)

-----------------------------------------------------------------------------
(* Pieces, altered ones included.                                           *)

(***************************************************************************)
(* The two ends.                                                           *)
(***************************************************************************)
LEMMA EndsFacts ==
    /\ Client # Server /\ Client \in Ends /\ Server \in Ends
    /\ Other(Client) = Server /\ Other(Server) = Client
    /\ \A e \in Ends : e = Client \/ e = Server
    /\ \A e \in Ends : Other(e) \in Ends /\ Other(e) # e /\ Other(Other(e)) = e
BY EciesAssumption DEF Ends, Other

(***************************************************************************)
(* The handshake messages are records with a size.                         *)
(***************************************************************************)
LEMMA HandshakeMessages ==
    /\ \A m \in Auths \cup {Ack} :
         /\ DOMAIN m = {"size", "cipher", "tag"} /\ m.size \in Nat
         /\ DOMAIN m.cipher = {"to", "data"}
    /\ Ack.cipher.to = Client /\ Ack.cipher.data = create_ack(Server)
    /\ \A to, size :
         Auth(to, size).cipher.to = to /\ Auth(to, size).cipher.data = create_auth(Client, to)
<1>1. \A size \in AuthSizes : size \in Nat
    BY EciesAssumption
<1>2. AckSize \in Nat
    BY EciesAssumption
<1>3. \A m \in Auths : /\ DOMAIN m = {"size", "cipher", "tag"} /\ m.size \in Nat
                       /\ DOMAIN m.cipher = {"to", "data"}
    BY <1>1 DEF Auths, Auth, Message, encrypt_message
<1>4. /\ DOMAIN Ack = {"size", "cipher", "tag"} /\ Ack.size \in Nat
      /\ DOMAIN Ack.cipher = {"to", "data"}
      /\ Ack.cipher.to = Client /\ Ack.cipher.data = create_ack(Server)
    BY <1>2 DEF Ack, Message, encrypt_message
<1>5. \A to, size :
         Auth(to, size).cipher.to = to /\ Auth(to, size).cipher.data = create_auth(Client, to)
    BY DEF Auth, Message, encrypt_message
<1> QED BY <1>3, <1>4, <1>5

(***************************************************************************)
(* An alteration changes the ciphertext and neither the size nor the tag.  *)
(***************************************************************************)
LEMMA GarbledFacts ==
    ASSUME NEW m, DOMAIN m = {"size", "cipher", "tag"}, "data" \in DOMAIN m.cipher
    PROVE  /\ DOMAIN Garbled(m) = {"size", "cipher", "tag"}
           /\ DOMAIN Garbled(m).cipher = DOMAIN m.cipher
           /\ Garbled(m).size = m.size /\ Garbled(m).tag = m.tag
           /\ Garbled(m).cipher = [m.cipher EXCEPT !.data = Noise]
           /\ Garbled(m).cipher.data = Noise
           /\ Garbled(Garbled(m)) = Garbled(m)
<1>1. Garbled(m) = [m EXCEPT !.cipher = [m.cipher EXCEPT !.data = Noise]]
    BY DEF Garbled
<1>2. /\ DOMAIN Garbled(m) = {"size", "cipher", "tag"}
      /\ Garbled(m).size = m.size /\ Garbled(m).tag = m.tag
      /\ Garbled(m).cipher = [m.cipher EXCEPT !.data = Noise]
    BY <1>1
<1>3. DOMAIN Garbled(m).cipher = DOMAIN m.cipher /\ Garbled(m).cipher.data = Noise
    BY <1>2
<1>4. [Garbled(m).cipher EXCEPT !.data = Noise] = Garbled(m).cipher
    BY <1>2, <1>3
<1>5. Garbled(Garbled(m)) = [Garbled(m) EXCEPT !.cipher = Garbled(m).cipher]
    BY <1>4 DEF Garbled
<1>6. Garbled(Garbled(m)) = Garbled(m)
    BY <1>1, <1>5
<1> QED BY <1>2, <1>3, <1>6

(***************************************************************************)
(* A piece stays a piece when it is altered.                               *)
(***************************************************************************)
LEMMA PieceFacts ==
    ASSUME NEW m \in Pieces
    PROVE  /\ DOMAIN m = {"size", "cipher", "tag"} /\ "data" \in DOMAIN m.cipher
           /\ m.size \in Nat
           /\ Garbled(m) \in Pieces /\ Garbled(m).size = m.size /\ Garbled(m).tag = m.tag
           /\ m \in Tagged => Garbled(m) \in Tagged
           /\ m \in {Ack, Garbled(Ack)} => Garbled(m) \in {Ack, Garbled(Ack)}
<1>1. CASE m \in Tagged
  <2>1. /\ DOMAIN m = {"size", "cipher", "tag"} /\ "data" \in DOMAIN m.cipher
        /\ m.size \in Nat /\ m.cipher \in Ciphers /\ m.tag \in Seq(Macs)
      BY <1>1 DEF Tagged, Ciphers
  <2>2. Noise \in Datas
      BY DEF Noise, Datas
  <2>3. [m.cipher EXCEPT !.data = Noise] \in Ciphers
      BY <2>1, <2>2 DEF Ciphers
  <2>4. Garbled(m) \in Tagged
    <3>1. Garbled(m) = [m EXCEPT !.cipher = [m.cipher EXCEPT !.data = Noise]]
        BY DEF Garbled
    <3> QED BY <1>1, <2>3, <3>1 DEF Tagged
  <2>5. m \in {Ack, Garbled(Ack)} => Garbled(m) \in {Ack, Garbled(Ack)}
      BY HandshakeMessages, GarbledFacts
  <2> QED BY <1>1, <2>1, <2>4, <2>5, GarbledFacts DEF Pieces
<1>2. CASE m \in Auths \cup {Ack}
  <2>1. DOMAIN m = {"size", "cipher", "tag"} /\ "data" \in DOMAIN m.cipher /\ m.size \in Nat
      BY <1>2, HandshakeMessages
  <2>2. Garbled(m) \in Pieces
      BY <1>2 DEF Pieces
  <2>3. m \in Tagged => Garbled(m) \in Tagged
      BY <1>1
  <2>4. m \in {Ack, Garbled(Ack)} => Garbled(m) \in {Ack, Garbled(Ack)}
      BY HandshakeMessages, GarbledFacts
  <2> QED BY <2>1, <2>2, <2>3, <2>4, GarbledFacts
<1>3. ASSUME NEW a \in Auths \cup {Ack}, m = Garbled(a)
      PROVE  /\ DOMAIN m = {"size", "cipher", "tag"} /\ "data" \in DOMAIN m.cipher
             /\ m.size \in Nat
             /\ Garbled(m) = m
  <2>1. DOMAIN a = {"size", "cipher", "tag"} /\ "data" \in DOMAIN a.cipher /\ a.size \in Nat
      BY <1>3, HandshakeMessages
  <2> QED BY <1>3, <2>1, GarbledFacts
<1>4. m \in Tagged \/ m \in Auths \cup {Ack} \/ \E a \in Auths \cup {Ack} : m = Garbled(a)
    BY DEF Pieces
<1> QED BY <1>1, <1>2, <1>3, <1>4

(***************************************************************************)
(* Beginnings of a sequence.                                               *)
(***************************************************************************)
LEMMA BeginsFacts ==
    ASSUME NEW S
    PROVE  /\ \A s, t, u \in Seq(S) : Begins(s, t) /\ Begins(t, u) => Begins(s, u)
           /\ \A s \in Seq(S) : Begins(s, s)
           /\ \A s \in Seq(S), x \in S : Begins(s, Append(s, x))
           /\ \A s, t \in Seq(S) : Begins(s, t) => IsPrefix(s, t)
<1>1. ASSUME NEW s \in Seq(S), NEW t \in Seq(S), NEW u \in Seq(S), Begins(s, t), Begins(t, u)
      PROVE  Begins(s, u)
    BY <1>1 DEF Begins
<1>2. \A s \in Seq(S) : Begins(s, s)
    BY DEF Begins
<1>3. ASSUME NEW s \in Seq(S), NEW x \in S PROVE Begins(s, Append(s, x))
    BY DEF Begins
<1>4. ASSUME NEW s \in Seq(S), NEW t \in Seq(S), Begins(s, t) PROVE IsPrefix(s, t)
  <2> DEFINE a == SubSeq(s, 1, Len(s))
             b == SubSeq(t, 1, Len(s))
  <2>1. /\ Len(s) \in Nat /\ Len(t) \in Nat /\ Len(s) <= Len(t)
        /\ \A i \in 1 .. Len(s) : s[i] = t[i]
      BY <1>4 DEF Begins
  <2>2. a \in Seq(S) /\ Len(a) = Len(s) /\ \A i \in 1 .. Len(s) : a[i] = s[i]
      BY <2>1
  <2>3. b \in Seq(S) /\ Len(b) = Len(s) /\ \A i \in 1 .. Len(s) : b[i] = t[i]
      BY <2>1
  <2> HIDE DEF a, b
  <2>4. a = b
      BY <2>1, <2>2, <2>3, SeqEqual
  <2> QED BY <2>1, <2>4 DEF IsPrefix, a, b
<1> QED BY <1>1, <1>2, <1>3, <1>4

-----------------------------------------------------------------------------
(* Frames.                                                                  *)

(***************************************************************************)
(* Padding.                                                                *)
(***************************************************************************)
LEMMA PaddedFacts ==
    /\ Block \in Nat /\ Block >= 1 /\ header_len \in Nat /\ header_len >= 1
    /\ \A n \in Nat : Padded(n) \in Nat /\ body_len(n) \in Nat /\ body_len(n) >= 1
<1>1. Block \in Nat /\ Block >= 1
    BY EciesAssumption
<1>2. header_len \in Nat /\ header_len >= 1
    BY <1>1 DEF header_len
<1>3. ASSUME NEW n \in Nat PROVE Padded(n) \in Nat
  <2>1. n \div Block \in Nat
      BY <1>1
  <2>2. \A a, b \in Nat : (a + 1) * b \in Nat
      OBVIOUS
  <2> QED BY <1>1, <2>1, <2>2 DEF Padded
<1>4. ASSUME NEW n \in Nat PROVE body_len(n) \in Nat /\ body_len(n) >= 1
    BY <1>1, <1>3 DEF body_len
<1> QED BY <1>1, <1>2, <1>3, <1>4

(***************************************************************************)
(* Absorbing a piece keeps keys keys, and what was absorbed before.        *)
(***************************************************************************)
LEMMA AbsorbFacts ==
    ASSUME NEW half \in Keys, NEW cipher \in Ciphers, NEW bytes \in Nat
    PROVE  /\ Absorb(half, cipher, bytes) \in Keys
           /\ Absorb(half, cipher, bytes).pos = half.pos + bytes
           /\ Absorb(half, cipher, bytes).mac = Append(half.mac, cipher)
           /\ Append(half.mac, cipher) \in Seq(Macs)
           /\ Begins(half.mac, Append(half.mac, cipher))
<1>1. half.mac \in Seq(Macs) /\ cipher \in Macs /\ half.pos \in Nat
    BY DEF Keys, Macs
<1>2. Append(half.mac, cipher) \in Seq(Macs) /\ half.pos + bytes \in Nat
    BY <1>1
<1>3. Begins(half.mac, Append(half.mac, cipher))
    BY <1>1, BeginsFacts
<1>4. Absorb(half, cipher, bytes) =
        [half EXCEPT !.pos = half.pos + bytes, !.mac = Append(half.mac, cipher)]
    BY DEF Absorb
<1> QED BY <1>2, <1>3, <1>4 DEF Keys

(***************************************************************************)
(* The two pieces of a frame, and the keys after it.                       *)
(***************************************************************************)
LEMMA FramedFacts ==
    ASSUME NEW half \in Keys, NEW frame \in Datas
    PROVE  LET f == Framed(half, frame)
               c == Cipher(half, Header(frame.len))
               d == [key |-> Secret, pos |-> half.pos + Block, data |-> frame]
           IN /\ f.half \in Keys /\ f.half.pos = half.pos + Block + Padded(frame.len)
              /\ c \in Ciphers /\ d \in Ciphers
              /\ f.half.mac = Append(Append(half.mac, c), d)
              /\ f.pieces = <<f.pieces[1], f.pieces[2]>>
              /\ f.pieces[1] \in Tagged /\ f.pieces[1].tag = Append(half.mac, c)
              /\ f.pieces[1].cipher = c /\ f.pieces[1].size = header_len
              /\ f.pieces[2] \in Tagged /\ f.pieces[2].tag = f.half.mac
              /\ f.pieces[2].cipher = d /\ f.pieces[2].size = body_len(frame.len)
              /\ Begins(half.mac, f.half.mac)
              /\ Begins(f.pieces[1].tag, f.half.mac) /\ Begins(f.pieces[2].tag, f.half.mac)
<1> DEFINE f == Framed(half, frame)
           c == Cipher(half, Header(frame.len))
           header == Piece(half, Block, Header(frame.len))
           half2 == Absorb(half, c, Block)
           d == Cipher(half2, frame)
           body == Piece(half2, Padded(frame.len), frame)
           half3 == Absorb(half2, d, Padded(frame.len))
<1>1. frame.len \in Nat /\ Padded(frame.len) \in Nat /\ Block \in Nat
    BY PaddedFacts DEF Datas
<1>2. half.aes = Secret /\ half.pos \in Nat
    BY DEF Keys
<1>3. c \in Ciphers
    BY <1>1, <1>2 DEF Cipher, Ciphers, Header, Datas
<1>4. header = [size |-> Block + Block, cipher |-> c, tag |-> Append(half.mac, c)]
    BY DEF Piece
<1> HIDE DEF c
<1>5. /\ half2 \in Keys /\ half2.pos = half.pos + Block /\ half2.mac = Append(half.mac, c)
      /\ Append(half.mac, c) \in Seq(Macs) /\ Begins(half.mac, half2.mac)
    BY <1>1, <1>3, AbsorbFacts
<1>6. /\ header \in Tagged /\ header.tag = half2.mac
      /\ header.cipher = c /\ header.size = header_len
    BY <1>1, <1>3, <1>4, <1>5 DEF Tagged, header_len
<1> HIDE DEF half2
<1>7. d = [key |-> Secret, pos |-> half.pos + Block, data |-> frame]
    BY <1>5 DEF Cipher, Keys
<1>8. d \in Ciphers
    BY <1>1, <1>2, <1>7 DEF Ciphers
<1>9. body = [size |-> Padded(frame.len) + Block, cipher |-> d, tag |-> Append(half2.mac, d)]
    BY DEF Piece
<1> HIDE DEF d
<1>10. /\ half3 \in Keys /\ half3.pos = half2.pos + Padded(frame.len)
       /\ half3.mac = Append(half2.mac, d) /\ Append(half2.mac, d) \in Seq(Macs)
       /\ Begins(half2.mac, half3.mac)
    BY <1>1, <1>5, <1>8, AbsorbFacts
<1>11. /\ body \in Tagged /\ body.tag = half3.mac
       /\ body.cipher = d /\ body.size = body_len(frame.len)
    BY <1>1, <1>8, <1>9, <1>10 DEF Tagged, body_len
<1>12. f = [pieces |-> <<header, body>>, half |-> half3]
  <2>1. header.cipher = c
      BY <1>4
  <2>2. body.cipher = d
      BY <1>9
  <2> HIDE DEF header, body
  <2> QED BY <2>1, <2>2 DEF Framed, half2, header, body
<1> HIDE DEF header, body, half3
<1>13. half.mac \in Seq(Macs) /\ half2.mac \in Seq(Macs) /\ half3.mac \in Seq(Macs)
    BY <1>5, <1>10 DEF Keys
<1>14. Begins(half.mac, half3.mac) /\ Begins(half3.mac, half3.mac)
    BY <1>5, <1>10, <1>13, BeginsFacts
<1>15. f.half = half3 /\ f.pieces[1] = header /\ f.pieces[2] = body
       /\ f.pieces = <<header, body>>
    BY <1>12
<1> HIDE DEF f
<1> QED BY <1>3, <1>5, <1>6, <1>7, <1>8, <1>10, <1>11, <1>14, <1>15 DEF f, c

-----------------------------------------------------------------------------
(* Streams.                                                                 *)

(***************************************************************************)
(* Pieces have sizes.                                                      *)
(***************************************************************************)
LEMMA PiecesSized == \A pieces \in Seq(Pieces) : Sized(pieces)
<1> SUFFICES ASSUME NEW pieces \in Seq(Pieces), NEW i \in 1 .. Len(pieces)
             PROVE  pieces[i].size \in Nat
    BY DEF Sized
<1>1. pieces[i] \in Pieces
    OBVIOUS
<1> QED BY <1>1, PieceFacts

(***************************************************************************)
(* Whoever has bytes has a piece.                                          *)
(***************************************************************************)
LEMMA PieceThere ==
    ASSUME Stream, NEW e \in Ends, got[e] >= 1
    PROVE  wire[e] # <<>> /\ Head(wire[e]) = wire[e][1] /\ wire[e][1] \in Pieces
<1>1. wire[e] \in Seq(Pieces) /\ got[e] \in Nat /\ got[e] <= Bytes(wire[e])
    BY DEF Stream
<1>2. wire[e] # <<>>
    BY <1>1, BytesEmpty
<1> QED BY <1>1, <1>2

(***************************************************************************)
(* An end that leaves.                                                     *)
(***************************************************************************)
LEMMA StreamLeave ==
    ASSUME Types, Stream, NEW e \in Ends, NEW how \in Ended, Leave(e, how)
    PROVE  Stream'
<1>1. wire' \in [Ends -> Seq(Pieces)] /\ got' \in [Ends -> Nat]
    BY DEF Stream, Leave
<1>2. ASSUME NEW x \in Ends PROVE got'[x] <= Bytes(wire'[x]) /\ (Gone(x)' => wire'[x] = <<>>)
  <2>1. CASE x = e
      BY <2>1, BytesEmpty DEF Stream, Leave
  <2>2. CASE x # e
      BY <2>2 DEF Stream, Leave, Gone, Types
  <2> QED BY <2>1, <2>2
<1> QED BY <1>1, <1>2 DEF Stream

(***************************************************************************)
(* A piece that is taken off the buffer.                                   *)
(***************************************************************************)
LEMMA StreamSplit ==
    ASSUME Types, Stream, NEW e \in Ends, NEW n \in Nat, n >= 1, got[e] >= n,
           Head(wire[e]).size = n, Split(e, n),
           \A x \in Ends : Gone(x)' => Gone(x)
    PROVE  Stream'
<1>1. wire[e] \in Seq(Pieces) /\ got[e] \in Nat /\ got[e] <= Bytes(wire[e])
    BY DEF Stream
<1>2. wire[e] # <<>>
    BY <1>1, PieceThere
<1>3. /\ Bytes(wire[e]) \in Nat
      /\ Bytes(Tail(wire[e])) = Bytes(wire[e]) - n
    BY <1>1, <1>2, PiecesSized, BytesTail
<1>4. Tail(wire[e]) \in Seq(Pieces) /\ got[e] - n \in Nat
    BY <1>1, <1>2
<1>5. wire' = [wire EXCEPT ![e] = Tail(wire[e])] /\ got' = [got EXCEPT ![e] = got[e] - n]
    BY DEF Split
<1>6. wire' \in [Ends -> Seq(Pieces)] /\ got' \in [Ends -> Nat]
    BY <1>4, <1>5 DEF Stream
<1>7. ASSUME NEW x \in Ends PROVE got'[x] <= Bytes(wire'[x])
  <2>1. CASE x = e
      BY <1>1, <1>3, <1>5, <2>1 DEF Stream
  <2>2. CASE x # e
      BY <1>5, <2>2 DEF Stream
  <2> QED BY <2>1, <2>2
<1>8. ASSUME NEW x \in Ends, Gone(x)' PROVE wire'[x] = <<>>
  <2>1. wire[x] = <<>> /\ x # e
      BY <1>2, <1>8 DEF Stream
  <2> QED BY <1>5, <2>1 DEF Stream
<1> QED BY <1>6, <1>7, <1>8 DEF Stream

(***************************************************************************)
(* One or two pieces that are written.                                     *)
(***************************************************************************)
LEMMA StreamWrite ==
    ASSUME Types, Stream, NEW e \in Ends, NEW pieces,
           \/ \E a \in Pieces : pieces = <<a>>
           \/ \E a, b \in Pieces : pieces = <<a, b>>,
           WriteTo(e, pieces), UNCHANGED got,
           \A x \in Ends : Gone(x)' = Gone(x)
    PROVE  Stream'
<1>1. wire[e] \in Seq(Pieces) /\ got[e] \in Nat /\ got[e] <= Bytes(wire[e])
    BY DEF Stream
<1>2. CASE Gone(e)
    BY <1>2 DEF Stream, WriteTo
<1>3. CASE ~Gone(e)
  <2> DEFINE more == wire[e] \o pieces
  <2>1. wire' = [wire EXCEPT ![e] = more]
      BY <1>3 DEF WriteTo
  <2>2. more \in Seq(Pieces) /\ got[e] <= Bytes(more)
    <3>1. ASSUME NEW a \in Pieces, pieces = <<a>>
          PROVE  more \in Seq(Pieces) /\ got[e] <= Bytes(more)
      <4>1. more = Append(wire[e], a)
          BY <1>1, <3>1
      <4>2. a.size \in Nat
          BY PieceFacts
      <4>3. Bytes(wire[e]) \in Nat /\ Bytes(Append(wire[e], a)) \in Nat
            /\ Bytes(wire[e]) <= Bytes(Append(wire[e], a))
          BY <1>1, <4>2, PiecesSized, BytesAppend
      <4> QED BY <1>1, <4>1, <4>3
    <3>2. ASSUME NEW a \in Pieces, NEW b \in Pieces, pieces = <<a, b>>
          PROVE  more \in Seq(Pieces) /\ got[e] <= Bytes(more)
      <4> DEFINE one == Append(wire[e], a)
      <4>0. \A s \in Seq(Pieces) :
              Append(s, a) \in Seq(Pieces) /\ s \o <<a, b>> = Append(Append(s, a), b)
          OBVIOUS
      <4>1. more = Append(one, b) /\ one \in Seq(Pieces)
          BY <1>1, <3>2, <4>0
      <4>2. a.size \in Nat /\ b.size \in Nat
          BY PieceFacts
      <4>3. Bytes(wire[e]) \in Nat /\ Bytes(one) \in Nat /\ Bytes(wire[e]) <= Bytes(one)
          BY <1>1, <4>2, PiecesSized, BytesAppend
      <4> HIDE DEF one
      <4>4. Bytes(Append(one, b)) \in Nat /\ Bytes(one) <= Bytes(Append(one, b))
          BY <4>1, <4>2, PiecesSized, BytesAppend
      <4> QED BY <1>1, <4>1, <4>3, <4>4
    <3> QED BY <3>1, <3>2
  <2> HIDE DEF more
  <2> QED BY <1>3, <2>1, <2>2 DEF Stream
<1> QED BY <1>2, <1>3

-----------------------------------------------------------------------------
(* Keys.                                                                    *)

(***************************************************************************)
(* Fresh keys are keys.                                                    *)
(***************************************************************************)
LEMMA FreshKeys == \A seed \in Seeds : Fresh(seed) \in Keys
<1> SUFFICES ASSUME NEW seed \in Seeds PROVE Fresh(seed) \in Keys
    OBVIOUS
<1>1. seed \in Macs
    BY DEF Macs
<1>2. <<seed>> \in Seq(Macs)
    BY <1>1
<1> QED BY <1>2 DEF Fresh, Keys

(***************************************************************************)
(* What both ends compute from the two handshake messages, each from its   *)
(* own point of view, is the same secret, and the seeds of the two         *)
(* directions meet.                                                        *)
(***************************************************************************)
LEMMA SetupFacts ==
    ASSUME NEW r, NEW auth
    PROVE  /\ /\ r.ephemeral = ephemeral(Client) /\ r.nonce = nonce(Client)
              /\ r.init_msg = Ack /\ r.remote_init_msg = auth
              => /\ setup_frame(Server, r, TRUE).ingress = Fresh(Seed(Server, auth))
                 /\ setup_frame(Server, r, TRUE).egress = Fresh(Seed(Client, Ack))
           /\ /\ r.ephemeral = ephemeral(Server) /\ r.nonce = nonce(Server)
              /\ r.init_msg = auth /\ r.remote_init_msg = Ack
              => /\ setup_frame(Client, r, FALSE).ingress = Fresh(Seed(Client, Ack))
                 /\ setup_frame(Client, r, FALSE).egress = Fresh(Seed(Server, auth))
<1>1. ASSUME r.ephemeral = ephemeral(Client), r.nonce = nonce(Client),
             r.init_msg = Ack, r.remote_init_msg = auth
      PROVE  /\ setup_frame(Server, r, TRUE).ingress = Fresh(Seed(Server, auth))
             /\ setup_frame(Server, r, TRUE).egress = Fresh(Seed(Client, Ack))
  <2>1. Secret = [shared  |-> ecdh_x(r.ephemeral, ephemeral(Server)),
                  h_nonce |-> <<nonce(Server), r.nonce>>]
      BY <1>1 DEF Secret, ecdh_x
  <2> QED BY <1>1, <2>1 DEF setup_frame, Halves, Fresh, Seed
<1>2. ASSUME r.ephemeral = ephemeral(Server), r.nonce = nonce(Server),
             r.init_msg = auth, r.remote_init_msg = Ack
      PROVE  /\ setup_frame(Client, r, FALSE).ingress = Fresh(Seed(Client, Ack))
             /\ setup_frame(Client, r, FALSE).egress = Fresh(Seed(Server, auth))
  <2>1. ecdh_x(r.ephemeral, ephemeral(Client)) = {ephemeral(Client), ephemeral(Server)}
      BY <1>2 DEF ecdh_x
  <2>2. Secret = [shared  |-> ecdh_x(r.ephemeral, ephemeral(Client)),
                  h_nonce |-> <<r.nonce, nonce(Client)>>]
      BY <1>2, <2>1 DEF Secret
  <2> QED BY <1>2, <2>2 DEF setup_frame, Halves, Fresh, Seed
<1> QED BY <1>1, <1>2

(***************************************************************************)
(* What the server reads out of an Auth that is for it (algorithm.rs:287). *)
(***************************************************************************)
LEMMA AuthFacts ==
    ASSUME NEW r,
           DOMAIN r = {"id", "nonce", "ephemeral", "init_msg", "remote_init_msg"}
    PROVE  LET p == parse_auth(Server, r, create_auth(Client, Server)) IN
           /\ DOMAIN p = DOMAIN r
           /\ p.id = Client /\ p.nonce = nonce(Client) /\ p.ephemeral = ephemeral(Client)
<1> DEFINE auth == create_auth(Client, Server)
<1>1. ecdh_x(Server, Client) = ecdh_x(Client, Server)
    BY DEF ecdh_x
<1>2. /\ auth.id = Client /\ auth.nonce = nonce(Client) /\ auth.sig.by = ephemeral(Client)
      /\ auth.sig.over = <<ecdh_x(Server, Client), nonce(Client)>>
    BY DEF create_auth
<1> HIDE DEF auth
<1>3. parse_auth(Server, r, auth) =
        [r EXCEPT !.id = Client, !.nonce = nonce(Client), !.ephemeral = ephemeral(Client)]
    BY <1>1, <1>2 DEF parse_auth
<1>4. LET p == parse_auth(Server, r, auth) IN
      /\ DOMAIN p = DOMAIN r
      /\ p.id = Client /\ p.nonce = nonce(Client) /\ p.ephemeral = ephemeral(Client)
    BY <1>3
<1> QED BY <1>4 DEF auth

-----------------------------------------------------------------------------
(* Every step keeps the invariant.                                          *)

(***************************************************************************)
(* An end leaves.                                                          *)
(***************************************************************************)
LEMMA LeaveInv ==
    ASSUME KeysInv, NEW e \in Ends, NEW how \in Ended, Leave(e, how),
           UNCHANGED <<dialed, state, remote, ingress, egress, body_size, sent>>
    PROVE  KeysInv'
<1>1. Types /\ Stream
    BY DEF KeysInv
<1>2. Types'
    BY <1>1 DEF Types, Leave
<1>3. Stream'
    BY <1>1, StreamLeave
<1>4. /\ at'[e] = how /\ wire'[e] = <<>>
      /\ \A x \in Ends : x # e => at'[x] = at[x] /\ wire'[x] = wire[x]
    BY <1>1 DEF Types, Stream, Leave
<1>5. AuthSent => AuthSent'
    BY <1>4, EndsFacts DEF AuthSent
<1>6. AuthTaken => AuthTaken'
    BY DEF AuthTaken
<1>7. Greeting => Greeting'
    BY <1>4, <1>5, EndsFacts DEF Greeting, NoKeys
<1>8. Greeted => Greeted'
    BY <1>4, <1>5, <1>6, EndsFacts DEF Greeted, NoKeys
<1>9. Answered => Answered'
  <2> SUFFICES ASSUME Answered PROVE Answered'
      OBVIOUS
  <2>1. CASE e = Client
    <3>1. wire'[Client] = <<>> /\ Gone(Client)' /\ wire'[Server] = wire[Server]
          /\ at'[Server] = at[Server] /\ Len(wire'[Client]) = 0
        BY <1>4, <2>1, EndsFacts DEF Gone, Ended
    <3> QED BY <1>5, <1>6, <3>1 DEF Answered, NoKeys
  <2>2. CASE e = Server
    <3>1. wire'[Server] = <<>> /\ wire'[Client] = wire[Client] /\ at'[Server] \in Ended
          /\ (Gone(Client)' <=> Gone(Client))
        BY <1>4, <2>2, EndsFacts DEF Gone
    <3> QED BY <1>5, <1>6, <3>1 DEF Answered, NoKeys
  <2> QED BY <2>1, <2>2, EndsFacts
<1>10. Connected => Connected'
  <2> SUFFICES ASSUME Connected PROVE Connected'
      OBVIOUS
  <2>1. ASSUME NEW x \in Ends
        PROVE  /\ at'[x] \in {"open"} \cup Ended
               /\ \A i \in 1 .. Len(wire'[x]) :
                    wire'[x][i] \in Tagged /\ Begins(wire'[x][i].tag, egress[Other(x)].mac)
    <3>1. CASE x = e
        BY <1>4, <3>1
    <3>2. CASE x # e
        BY <1>4, <3>2 DEF Connected
    <3> QED BY <3>1, <3>2
  <2> QED BY <2>1 DEF Connected
<1> QED BY <1>2, <1>3, <1>7, <1>8, <1>9, <1>10 DEF KeysInv

(***************************************************************************)
(* Nothing that the invariant is about changes.                            *)
(***************************************************************************)
LEMMA QuietInv ==
    ASSUME KeysInv,
           UNCHANGED <<dialed, at, state, remote, ingress, egress, body_size, wire, got, sent>>
    PROVE  KeysInv'
<1>1. Types' /\ Stream'
    BY DEF KeysInv, Types, Stream, Gone
<1>2. (Greeting \/ Greeted \/ Answered \/ Connected)'
    BY DEF KeysInv, Greeting, Greeted, Answered, Connected, AuthSent, AuthTaken, NoKeys, Gone
<1> QED BY <1>1, <1>2 DEF KeysInv

(***************************************************************************)
(* Steps of the network that leave the pieces as they are.                 *)
(***************************************************************************)
LEMMA TransferInv ==
    ASSUME KeysInv, NEW e \in Ends, Transfer(e) \/ Cut \/ UNCHANGED vars
    PROVE  KeysInv'
<1>1. Types /\ Stream
    BY DEF KeysInv
<1>2. UNCHANGED <<dialed, at, state, remote, ingress, egress, body_size, wire, sent>>
    BY DEF Transfer, Cut, vars, network
<1>3. CASE UNCHANGED got
    BY <1>2, <1>3, QuietInv
<1>4. CASE Transfer(e)
  <2>1. Stream'
    <3>1. got[e] \in Nat /\ wire[e] \in Seq(Pieces)
        BY <1>1 DEF Stream
    <3>2. PICK sum \in [0 .. Len(wire[e]) -> Nat] : Bytes(wire[e]) = sum[Len(wire[e])]
        BY <3>1, PiecesSized, SumsExist
    <3>3. Bytes(wire[e]) \in Nat
        BY <3>1, <3>2
    <3>4. got' = [got EXCEPT ![e] = got[e] + 1] /\ got[e] + 1 \in Nat
          /\ got[e] + 1 <= Bytes(wire[e])
        BY <1>4, <3>1, <3>3 DEF Transfer
    <3> QED BY <1>1, <1>2, <3>4 DEF Stream, Gone
  <2>2. Types'
      BY <1>1, <1>2 DEF Types
  <2>3. (Greeting \/ Greeted \/ Answered \/ Connected)'
      BY <1>2 DEF KeysInv, Greeting, Greeted, Answered, Connected, AuthSent, AuthTaken,
                  NoKeys, Gone
  <2> QED BY <2>1, <2>2, <2>3 DEF KeysInv
<1> QED BY <1>3, <1>4 DEF Cut, vars

(***************************************************************************)
(* A piece is altered on its way.                                          *)
(***************************************************************************)
LEMMA AlterInv ==
    ASSUME KeysInv, NEW e \in Ends, Alter(e)
    PROVE  KeysInv'
<1>1. Types /\ Stream
    BY DEF KeysInv
<1>2. UNCHANGED <<dialed, at, state, remote, ingress, egress, body_size, got, sent>>
    BY DEF Alter
<1>3. CASE UNCHANGED wire
    BY <1>2, <1>3, QuietInv
<1>3a. SUFFICES ASSUME NEW i \in 1 .. Len(wire[e]),
                      wire' = [wire EXCEPT ![e][i].cipher.data = Noise]
               PROVE  KeysInv'
    BY <1>3 DEF Alter
<1> DEFINE old == wire[e]
           new == [wire[e] EXCEPT ![i] = Garbled(wire[e][i])]
<1>4. wire' = [wire EXCEPT ![e] = new]
    BY <1>3a DEF Garbled
<1>5. old \in Seq(Pieces) /\ old[i] \in Pieces
    BY <1>1 DEF Stream
<1>6. Garbled(old[i]) \in Pieces /\ Garbled(old[i]).size = old[i].size
      /\ Garbled(old[i]).tag = old[i].tag
      /\ (old[i] \in Tagged => Garbled(old[i]) \in Tagged)
      /\ (old[i] \in {Ack, Garbled(Ack)} => Garbled(old[i]) \in {Ack, Garbled(Ack)})
    BY <1>5, PieceFacts
<1>7. /\ new \in Seq(Pieces) /\ Len(new) = Len(old) /\ new[i] = Garbled(old[i])
      /\ \A j \in 1 .. Len(old) : j # i => new[j] = old[j]
    BY <1>5, <1>6
<1> HIDE DEF new
<1>8. Bytes(new) = Bytes(old)
  <2>1. \A j \in 1 .. Len(old) : old[j].size = new[j].size
      BY <1>6, <1>7
  <2> QED BY <1>5, <1>7, <2>1, PiecesSized, BytesSame
<1>9. wire'[e] = new /\ \A x \in Ends : x # e => wire'[x] = wire[x]
    BY <1>1, <1>4 DEF Stream
<1>10. Stream'
  <2>1. wire' \in [Ends -> Seq(Pieces)]
      BY <1>1, <1>4, <1>7 DEF Stream
  <2>2. ASSUME NEW x \in Ends PROVE got[x] <= Bytes(wire'[x]) /\ (Gone(x) => wire'[x] = <<>>)
    <3>1. CASE x = e
        BY <1>1, <1>8, <1>9, <3>1 DEF Stream, Alter
    <3>2. CASE x # e
        BY <1>1, <1>9, <3>2 DEF Stream
    <3> QED BY <3>1, <3>2
  <2> QED BY <1>1, <1>2, <2>1, <2>2 DEF Stream, Gone
<1>11. Types'
    BY <1>1, <1>2 DEF Types
<1>12. (AuthSent => AuthSent') /\ (AuthTaken => AuthTaken')
    BY <1>2 DEF AuthSent, AuthTaken
<1>13. old # <<>>
    OBVIOUS
<1>14. CASE Greeting
  <2> DEFINE auth == remote[Client].init_msg
  <2>1. /\ e = Server /\ AuthSent
        /\ wire[Server] = <<auth>> \/ wire[Server] = <<Garbled(auth)>>
      BY <1>13, <1>14, EndsFacts DEF Greeting
  <2>2. i = 1 /\ Len(new) = 1 /\ (old[1] = auth \/ old[1] = Garbled(auth))
    <3>1. \A a : Len(<<a>>) = 1 /\ <<a>>[1] = a
        OBVIOUS
    <3>2. Len(old) = 1 /\ (old[1] = auth \/ old[1] = Garbled(auth))
        BY <2>1, <3>1
    <3> QED BY <1>7, <3>2
  <2>3. auth \in Auths
      BY <1>1, <2>1 DEF AuthSent, Auths, Types
  <2>4. Garbled(old[1]) = Garbled(auth)
      BY <2>2, <2>3, HandshakeMessages, GarbledFacts, ZenonT(60)
  <2>5. new = <<Garbled(auth)>>
      BY <1>7, <2>2, <2>4
  <2>6. wire'[Client] = <<>>
      BY <1>9, <1>14, <2>1, EndsFacts DEF Greeting
  <2>7. Greeting'
      BY <1>2, <1>9, <1>12, <1>14, <2>1, <2>5, <2>6 DEF Greeting, NoKeys
  <2> QED BY <1>10, <1>11, <2>7 DEF KeysInv
<1>15. CASE Greeted
    BY <1>13, <1>15, EndsFacts DEF Greeted
<1>16. CASE Answered
  <2>1. e = Client
      BY <1>13, <1>16, EndsFacts DEF Answered
  <2>2. wire'[Server] = <<>>
      BY <1>9, <1>16, <2>1, EndsFacts DEF Answered
  <2>3. ~Gone(Client) /\ old[1] \in {Ack, Garbled(Ack)}
        /\ \A j \in 2 .. Len(old) : old[j] \in Tagged /\ Begins(old[j].tag, egress[Server].mac)
      BY <1>16, <2>1 DEF Answered, Alter
  <2>4. new # <<>> /\ new[1] \in {Ack, Garbled(Ack)}
      BY <1>6, <1>7, <2>3
  <2>5. \A j \in 2 .. Len(new) : new[j] \in Tagged /\ Begins(new[j].tag, egress[Server].mac)
      BY <1>6, <1>7, <2>3
  <2>6. Answered'
      BY <1>2, <1>9, <1>12, <1>16, <2>1, <2>2, <2>4, <2>5 DEF Answered, NoKeys
  <2> QED BY <1>10, <1>11, <2>6 DEF KeysInv
<1>17. CASE Connected
  <2>1. ASSUME NEW x \in Ends, NEW j \in 1 .. Len(wire'[x])
        PROVE  wire'[x][j] \in Tagged /\ Begins(wire'[x][j].tag, egress[Other(x)].mac)
    <3>1. CASE x = e
        BY <1>6, <1>7, <1>9, <1>17, <3>1 DEF Connected
    <3>2. CASE x # e
        BY <1>9, <1>17, <3>2 DEF Connected
    <3> QED BY <3>1, <3>2
  <2>2. Connected'
      BY <1>2, <1>17, <2>1 DEF Connected
  <2> QED BY <1>10, <1>11, <2>2 DEF KeysInv
<1> QED BY <1>14, <1>15, <1>16, <1>17 DEF KeysInv

(***************************************************************************)
(* The client writes the Auth (proto.rs:188).                              *)
(***************************************************************************)
LEMMA SendAuthInv ==
    ASSUME KeysInv, NEW size \in AuthSizes, SendAuth(size)
    PROVE  /\ KeysInv' /\ Greeting /\ Greeting'
           /\ wire'[Server] = <<>> \/ wire'[Server] = <<remote'[Client].init_msg>>
<1> DEFINE auth == Auth(dialed, size)
<1>1. Types /\ Stream
    BY DEF KeysInv
<1>2. /\ at[Client] = "start" /\ at' = [at EXCEPT ![Client] = "ack"]
      /\ state' = [state EXCEPT ![Client] = "Ack"]
      /\ remote' = [remote EXCEPT ![Client].id = dialed, ![Client].init_msg = auth]
      /\ WriteTo(Server, <<auth>>)
      /\ UNCHANGED <<dialed, ingress, egress, body_size, got, sent>>
    BY DEF SendAuth, Auth, network
<1>3. auth \in Auths /\ auth \in Pieces
    BY <1>1 DEF Auths, Pieces, Types
<1> HIDE DEF auth
<1>4. Greeting /\ state[Client] = "Auth" /\ wire[Server] = <<>> /\ wire[Client] = <<>>
    BY <1>2, EndsFacts DEF KeysInv, Greeting, Greeted, Answered, Connected, AuthSent, Ended
<1>5. at'[Client] = "ack" /\ at'[Server] = at[Server] /\ \A x \in Ends : Gone(x)' = Gone(x)
    BY <1>1, <1>2, EndsFacts DEF Types, Gone
<1>6. Stream'
    BY <1>1, <1>2, <1>3, <1>5, EndsFacts, StreamWrite
<1>7. Types'
    BY <1>1, <1>2 DEF Types
<1>8. /\ remote'[Client].id = dialed /\ remote'[Client].init_msg = auth
      /\ state'[Client] = "Ack" /\ state'[Server] = state[Server]
    BY <1>1, <1>2, EndsFacts DEF Types
<1>9. wire'[Client] = <<>> /\ (wire'[Server] = <<>> \/ wire'[Server] = <<auth>>)
  <2>1. <<>> \o <<auth>> = <<auth>>
      OBVIOUS
  <2> QED BY <1>1, <1>2, <1>4, <2>1, EndsFacts DEF Stream, WriteTo
<1>10. AuthSent'
    BY <1>2, <1>5, <1>8 DEF AuthSent, auth
<1>11. Greeting'
    BY <1>2, <1>4, <1>5, <1>8, <1>9, <1>10 DEF Greeting, NoKeys
<1> QED BY <1>4, <1>6, <1>7, <1>8, <1>9, <1>11 DEF KeysInv

(***************************************************************************)
(* The server reads the Auth (proto.rs:83).                                *)
(***************************************************************************)
LEMMA DecodeAuthInv ==
    ASSUME KeysInv, DecodeAuth
    PROVE  /\ KeysInv' /\ Greeting
           /\ Decrypts(Server) => Greeted'
           /\ wire[Server] # <<>> /\ Head(wire[Server]) = wire[Server][1]
<1> DEFINE auth == Head(wire[Server])
           msg == remote[Client].init_msg
           r == [parse_auth(Server, remote[Server], auth.cipher.data)
                 EXCEPT !.remote_init_msg = auth]
<1>1. Types /\ Stream
    BY DEF KeysInv
<1>2. at[Server] \in {"auth", "ack", "open"} /\ state[Server] = "Auth"
      /\ got[Server] >= Prefix /\ got[Server] >= total_size(Server)
      /\ UNCHANGED <<dialed, ingress, egress, body_size, sent>>
    BY DEF DecodeAuth, Polled, MessageArrived, Enough, network
<1>3. Greeting
    BY <1>2, EndsFacts DEF KeysInv, Greeted, Answered, Connected
<1>4. got[Server] >= 1
    BY <1>1, <1>2, EndsFacts DEF Prefix, Stream
<1>5. wire[Server] # <<>> /\ auth = wire[Server][1]
    BY <1>1, <1>4, EndsFacts, PieceThere
<1>6. CASE ~Decrypts(Server)
  <2>1. PICK how \in {"failed", "panicked"} : Leave(Server, how)
      BY <1>6 DEF DecodeAuth, DecryptFails
  <2>2. UNCHANGED <<state, remote>>
      BY <1>6 DEF DecodeAuth
  <2>3. KeysInv'
      BY <1>2, <2>1, <2>2, LeaveInv, EndsFacts DEF Ended
  <2> QED BY <1>6, <1>3, <1>5, <2>3
<1>7. CASE Decrypts(Server)
  <2>0. Opens(Server, auth.cipher) /\ got[Server] >= auth.size
      BY <1>2, <1>7 DEF Decrypts
  <2>1. /\ remote' = [remote EXCEPT ![Server] = r]
        /\ state' = [state EXCEPT ![Server] = "Header"]
        /\ at' = [at EXCEPT ![Server] = "reply"]
        /\ Split(Server, auth.size)
      BY <1>7 DEF DecodeAuth
  <2>2. AuthSent /\ (wire[Server] = <<msg>> \/ wire[Server] = <<Garbled(msg)>>)
      BY <1>3, <1>5 DEF Greeting
  <2>3. PICK size \in AuthSizes : msg = Auth(dialed, size)
      BY <2>2 DEF AuthSent
  <2>4. msg \in Auths
      BY <1>1, <2>3 DEF Auths, Types
  <2>5. auth = msg /\ wire[Server] = <<msg>>
    <3>1. Garbled(msg).cipher.data = Noise
        BY <2>4, HandshakeMessages, GarbledFacts
    <3>2. \A a : <<a>>[1] = a
        OBVIOUS
    <3>3. auth # Garbled(msg)
        BY <2>0, <3>1 DEF Opens
    <3> QED BY <1>5, <2>2, <3>2, <3>3
  <2> HIDE DEF auth, msg
  <2>6. dialed = Server /\ auth.cipher.data = create_auth(Client, Server) /\ auth.size \in Nat
      BY <2>0, <2>3, <2>4, <2>5, HandshakeMessages DEF Opens
  <2>7. auth.size >= 1
      BY <2>3, <2>5, EciesAssumption DEF Auth, Message, Prefix
  <2>8. /\ DOMAIN r = {"id", "nonce", "ephemeral", "init_msg", "remote_init_msg"}
         /\ r.id = Client /\ r.nonce = nonce(Client) /\ r.ephemeral = ephemeral(Client)
         /\ r.remote_init_msg = msg
    <3> DEFINE p == parse_auth(Server, remote[Server], auth.cipher.data)
    <3>1. /\ DOMAIN p = {"id", "nonce", "ephemeral", "init_msg", "remote_init_msg"}
          /\ p.id = Client /\ p.nonce = nonce(Client) /\ p.ephemeral = ephemeral(Client)
      <4>1. DOMAIN remote[Server] =
              {"id", "nonce", "ephemeral", "init_msg", "remote_init_msg"}
          BY <1>1, EndsFacts DEF Types
      <4>2. p = parse_auth(Server, remote[Server], create_auth(Client, Server))
          BY <2>6
      <4> HIDE DEF p
      <4> QED BY <4>1, <4>2, AuthFacts
    <3> HIDE DEF p
    <3>2. r = [p EXCEPT !.remote_init_msg = auth]
        BY DEF p
    <3> QED BY <2>5, <3>1, <3>2
  <2> HIDE DEF r
  <2>9. /\ at'[Server] = "reply" /\ at'[Client] = at[Client]
         /\ state'[Server] = "Header" /\ state'[Client] = state[Client]
         /\ remote'[Server] = r /\ remote'[Client] = remote[Client]
      BY <1>1, <2>1, EndsFacts DEF Types
  <2>10. Stream'
    <3>1. \A x \in Ends : Gone(x)' => Gone(x)
        BY <2>9, EndsFacts DEF Gone
    <3>2. Head(wire[Server]).size = auth.size
        BY DEF auth
    <3> QED BY <1>1, <2>0, <2>1, <2>6, <2>7, <3>1, <3>2, EndsFacts, StreamSplit
  <2>11. wire'[Server] = <<>> /\ wire'[Client] = <<>>
    <3>1. Tail(<<msg>>) = <<>>
        OBVIOUS
    <3> QED BY <1>1, <1>3, <2>1, <2>5, <3>1, EndsFacts DEF Split, Stream, Greeting
  <2>12. Types'
    <3>1. at' \in [Ends -> {"start", "auth", "reply", "ack", "open"} \cup Ended]
        BY <1>1, <2>1 DEF Types
    <3>2. state' \in [Ends -> {"Auth", "Ack", "Header", "Body"}]
        BY <1>1, <2>1 DEF Types
    <3>3. DOMAIN remote' = Ends
        BY <1>1, <2>1 DEF Types
    <3>4. \A x \in Ends : DOMAIN remote'[x] =
             {"id", "nonce", "ephemeral", "init_msg", "remote_init_msg"}
        BY <1>1, <2>8, <2>9, EndsFacts, ZenonT(60) DEF Types
    <3>5. \A x \in Ends : state'[x] = "Body" => body_size[x] \in Nat
        BY <1>1, <2>9, EndsFacts DEF Types
    <3> QED BY <1>1, <1>2, <3>1, <3>2, <3>3, <3>4, <3>5 DEF Types
  <2>13. AuthSent' /\ AuthTaken'
      BY <1>2, <2>2, <2>6, <2>8, <2>9 DEF AuthSent, AuthTaken, msg
  <2>14. Greeted'
      BY <1>2, <1>3, <2>9, <2>11, <2>13 DEF Greeted, Greeting, NoKeys
  <2> QED BY <1>3, <1>5, <2>10, <2>12, <2>14 DEF KeysInv, auth
<1> QED BY <1>6, <1>7

(***************************************************************************)
(* The server answers and sets up its keys (proto.rs:227, algorithm.rs:365). *)
(***************************************************************************)
LEMMA SendAckInv ==
    ASSUME KeysInv, SendAck
    PROVE  /\ KeysInv' /\ Greeted
           /\ ingress'[Server] \in Keys /\ ingress'[Client] = None
           /\ egress'[Server] = Fresh(Seed(Client, Ack)) /\ egress'[Client] = None
           /\ state'[Server] = "Header" /\ wire'[Server] = <<>>
           /\ wire'[Client] = IF Gone(Client) THEN <<>> ELSE <<Ack>>
<1> DEFINE msg == remote[Client].init_msg
           r == [remote[Server] EXCEPT !.init_msg = Ack]
           k == setup_frame(Server, r, TRUE)
<1>1. Types /\ Stream
    BY DEF KeysInv
<1>2. at[Server] = "reply"
    BY DEF SendAck
<1>3. Greeted
    BY <1>2, EndsFacts DEF KeysInv, Greeting, Answered, Connected, Ended
<1>4. AuthSent /\ AuthTaken /\ wire[Client] = <<>> /\ wire[Server] = <<>>
    BY <1>3 DEF Greeted
<1>5. /\ state' = [state EXCEPT ![Server] = "Header"]
      /\ remote' = [remote EXCEPT ![Server] = r]
      /\ ingress' = [ingress EXCEPT ![Server] = k.ingress]
      /\ egress' = [egress EXCEPT ![Server] = k.egress]
      /\ WriteTo(Client, <<Ack>>)
      /\ at' = [at EXCEPT ![Server] = "open"]
      /\ UNCHANGED <<dialed, body_size, got, sent>>
  <2>1. Message(AckSize, encrypt_message(remote[Server].id, create_ack(Server))) = Ack
      BY <1>4 DEF AuthTaken, Ack
  <2> QED BY <2>1 DEF SendAck, network
<1>6. PICK size \in AuthSizes : msg = Auth(dialed, size)
    BY <1>4 DEF AuthSent
<1>7. msg \in Auths
    BY <1>1, <1>6 DEF Auths, Types
<1>8. /\ DOMAIN r = {"id", "nonce", "ephemeral", "init_msg", "remote_init_msg"}
      /\ r.id = Client /\ r.nonce = nonce(Client) /\ r.ephemeral = ephemeral(Client)
      /\ r.remote_init_msg = msg /\ r.init_msg = Ack
    BY <1>1, <1>4, EndsFacts DEF Types, AuthTaken
<1> HIDE DEF r, msg
<1>9. k.ingress = Fresh(Seed(Server, msg)) /\ k.egress = Fresh(Seed(Client, Ack))
    BY <1>8, SetupFacts
<1>10. Fresh(Seed(Client, Ack)) \in Keys
    BY FreshKeys DEF Seeds
<1> HIDE DEF k
<1>11. /\ at'[Server] = "open" /\ at'[Client] = at[Client]
       /\ state'[Server] = "Header" /\ state'[Client] = state[Client]
       /\ remote'[Server] = r /\ remote'[Client] = remote[Client]
       /\ ingress'[Server] = k.ingress /\ ingress'[Client] = ingress[Client]
       /\ egress'[Server] = k.egress /\ egress'[Client] = egress[Client]
    BY <1>1, <1>5, EndsFacts DEF Types
<1>12. \A x \in Ends : Gone(x)' = Gone(x)
    BY <1>2, <1>11, EndsFacts DEF Gone
<1>13. Stream'
  <2>1. Ack \in Pieces
      BY DEF Pieces
  <2> QED BY <1>1, <1>5, <1>12, <2>1, EndsFacts, StreamWrite
<1>14. /\ wire'[Server] = <<>>
       /\ wire'[Client] = IF Gone(Client) THEN <<>> ELSE <<Ack>>
  <2>1. <<>> \o <<Ack>> = <<Ack>>
      OBVIOUS
  <2> QED BY <1>1, <1>4, <1>5, <2>1, EndsFacts DEF Stream, WriteTo
<1>15. Types'
  <2>1. at' \in [Ends -> {"start", "auth", "reply", "ack", "open"} \cup Ended]
      BY <1>1, <1>5 DEF Types
  <2>2. state' \in [Ends -> {"Auth", "Ack", "Header", "Body"}]
      BY <1>1, <1>5 DEF Types
  <2>3. DOMAIN remote' = Ends /\ DOMAIN ingress' = Ends /\ DOMAIN egress' = Ends
      BY <1>1, <1>5 DEF Types
  <2>4. \A x \in Ends : DOMAIN remote'[x] =
             {"id", "nonce", "ephemeral", "init_msg", "remote_init_msg"}
    <3>1. DOMAIN remote[Client] =
            {"id", "nonce", "ephemeral", "init_msg", "remote_init_msg"}
        BY <1>1, EndsFacts DEF Types
    <3>2. remote'[Server] = r /\ remote'[Client] = remote[Client]
        BY <1>11
    <3> QED BY <1>8, <3>1, <3>2, EndsFacts
  <2>5. \A x \in Ends : state'[x] = "Body" => body_size[x] \in Nat
      BY <1>1, <1>11, EndsFacts DEF Types
  <2> QED BY <1>1, <1>5, <2>1, <2>2, <2>3, <2>4, <2>5 DEF Types
<1>16. AuthSent' /\ AuthTaken'
    BY <1>4, <1>5, <1>8, <1>11 DEF AuthSent, AuthTaken, msg
<1>17. egress'[Server] \in Keys /\ Begins(<<Seed(Client, Ack)>>, egress'[Server].mac)
  <2>1. Fresh(Seed(Client, Ack)).mac = <<Seed(Client, Ack)>>
      BY DEF Fresh
  <2>2. \A a : Begins(<<a>>, <<a>>)
      BY DEF Begins
  <2> QED BY <1>9, <1>10, <1>11, <2>1, <2>2
<1>18. /\ Gone(Client)' \/ (wire'[Client] # <<>> /\ wire'[Client][1] \in {Ack, Garbled(Ack)})
       /\ Len(wire'[Client]) <= 1 /\ Len(wire'[Client]) \in Nat
  <2>1. <<Ack>> # <<>> /\ <<Ack>>[1] = Ack /\ Len(<<Ack>>) = 1
      OBVIOUS
  <2>2. Len(<<>>) = 0
      OBVIOUS
  <2> QED BY <1>12, <1>14, <2>1, <2>2, EndsFacts
<1>19. NoKeys(Client)' /\ ingress'[Server] = Fresh(Seed(Server, remote'[Client].init_msg))
    BY <1>3, <1>9, <1>11 DEF Greeted, NoKeys, msg
<1>20. Answered'
    BY <1>11, <1>14, <1>16, <1>17, <1>18, <1>19 DEF Answered
<1>21. ingress'[Server] \in Keys
    BY <1>7, <1>9, <1>11, FreshKeys DEF Seeds
<1> QED BY <1>3, <1>9, <1>11, <1>13, <1>14, <1>15, <1>19, <1>20, <1>21 DEF KeysInv, NoKeys

(***************************************************************************)
(* The client reads the Ack and sets up its keys (proto.rs:99,             *)
(* algorithm.rs:331).                                                      *)
(***************************************************************************)
LEMMA DecodeAckInv ==
    ASSUME KeysInv, DecodeAck
    PROVE  /\ KeysInv'
           /\ Decrypts(Client) =>
                /\ Answered /\ Connected'
                /\ ingress'[Client] = Fresh(Seed(Client, Ack))
                /\ ingress'[Server] = Fresh(Seed(Server, remote[Client].init_msg))
                /\ egress'[Client] = ingress'[Server] /\ egress'[Server] = egress[Server]
                /\ state'[Client] = "Header" /\ state'[Server] = "Header"
                /\ wire[Client] # <<>> /\ wire'[Client] = Tail(wire[Client])
                /\ wire'[Server] = <<>>
<1> DEFINE ack == Head(wire[Client])
           msg == remote[Client].init_msg
           r == [parse_ack(remote[Client], ack.cipher.data) EXCEPT !.remote_init_msg = ack]
           k == setup_frame(Client, r, FALSE)
<1>1. Types /\ Stream
    BY DEF KeysInv
<1>2. at[Client] \in {"auth", "ack", "open"} /\ state[Client] = "Ack"
      /\ got[Client] >= Prefix /\ got[Client] >= total_size(Client)
      /\ UNCHANGED <<dialed, body_size, sent>>
    BY DEF DecodeAck, Polled, MessageArrived, Enough, network
<1>3. CASE ~Decrypts(Client)
  <2>1. PICK how \in {"failed", "panicked"} : Leave(Client, how)
      BY <1>3 DEF DecodeAck, DecryptFails
  <2>2. UNCHANGED <<state, remote, ingress, egress>>
      BY <1>3 DEF DecodeAck
  <2>3. KeysInv'
      BY <1>2, <2>1, <2>2, LeaveInv, EndsFacts DEF Ended
  <2> QED BY <1>3, <2>3
<1>4. CASE Decrypts(Client)
  <2>0. Opens(Client, ack.cipher) /\ got[Client] >= ack.size
      BY <1>2, <1>4 DEF Decrypts
  <2>1. /\ remote' = [remote EXCEPT ![Client] = r]
        /\ ingress' = [ingress EXCEPT ![Client] = k.ingress]
        /\ egress' = [egress EXCEPT ![Client] = k.egress]
        /\ state' = [state EXCEPT ![Client] = "Header"]
        /\ at' = [at EXCEPT ![Client] = "open"]
        /\ Split(Client, ack.size)
      BY <1>4 DEF DecodeAck
  <2>2. got[Client] >= 1
      BY <1>1, <1>2, EndsFacts DEF Prefix, Stream
  <2>3. wire[Client] # <<>> /\ ack = wire[Client][1] /\ wire[Client] \in Seq(Pieces)
      BY <1>1, <2>2, EndsFacts, PieceThere DEF Stream
  <2>4. Answered
      BY <1>2, <2>3, EndsFacts DEF KeysInv, Greeting, Greeted, Connected
  <2>5. AuthSent /\ AuthTaken /\ wire[Server] = <<>>
        /\ ack \in {Ack, Garbled(Ack)}
      BY <1>1, <2>3, <2>4, EndsFacts DEF Answered, Stream
  <2>6. ack = Ack
    <3>1. Garbled(Ack).cipher.data = Noise
        BY HandshakeMessages, GarbledFacts
    <3> QED BY <2>0, <2>5, <3>1 DEF Opens
  <2>7. PICK size \in AuthSizes : msg = Auth(dialed, size)
      BY <2>5 DEF AuthSent
  <2>8. msg \in Auths /\ dialed = Server /\ remote[Client].id = Server
        /\ remote[Server].id = Client
      BY <1>1, <2>5, <2>7 DEF Auths, Types, AuthSent, AuthTaken
  <2> HIDE DEF ack, msg
  <2>9. ack.size = AckSize /\ AckSize \in Nat /\ AckSize >= 1
    <3>1. AckSize \in Nat /\ AckSize >= 1
        BY EciesAssumption DEF Prefix
    <3> QED BY <2>6, <3>1 DEF Ack, Message
  <2>10. /\ DOMAIN r = {"id", "nonce", "ephemeral", "init_msg", "remote_init_msg"}
         /\ r.id = Server /\ r.nonce = nonce(Server) /\ r.ephemeral = ephemeral(Server)
         /\ r.init_msg = msg /\ r.remote_init_msg = Ack
    <3> DEFINE p == parse_ack(remote[Client], ack.cipher.data)
    <3>1. ack.cipher.data = create_ack(Server)
        BY <2>6, HandshakeMessages
    <3>2. p = [remote[Client] EXCEPT !.ephemeral = ephemeral(Server), !.nonce = nonce(Server)]
        BY <3>1 DEF parse_ack, create_ack
    <3>3. DOMAIN remote[Client] =
            {"id", "nonce", "ephemeral", "init_msg", "remote_init_msg"}
        BY <1>1, EndsFacts DEF Types
    <3>4. /\ DOMAIN p = {"id", "nonce", "ephemeral", "init_msg", "remote_init_msg"}
          /\ p.id = Server /\ p.nonce = nonce(Server) /\ p.ephemeral = ephemeral(Server)
          /\ p.init_msg = msg
        BY <2>8, <3>2, <3>3 DEF msg
    <3> HIDE DEF p
    <3>5. r = [p EXCEPT !.remote_init_msg = Ack]
        BY <2>6 DEF p
    <3> QED BY <3>4, <3>5
  <2> HIDE DEF r
  <2>11. k.ingress = Fresh(Seed(Client, Ack)) /\ k.egress = Fresh(Seed(Server, msg))
      BY <2>10, SetupFacts
  <2>12. Fresh(Seed(Client, Ack)) \in Keys /\ Fresh(Seed(Server, msg)) \in Keys
      BY <2>8, FreshKeys DEF Seeds
  <2> HIDE DEF k
  <2>13. /\ at'[Client] = "open" /\ at'[Server] = at[Server]
         /\ state'[Client] = "Header" /\ state'[Server] = state[Server]
         /\ remote'[Client] = r /\ remote'[Server] = remote[Server]
         /\ ingress'[Client] = k.ingress /\ ingress'[Server] = ingress[Server]
         /\ egress'[Client] = k.egress /\ egress'[Server] = egress[Server]
      BY <1>1, <2>1, EndsFacts DEF Types
  <2>14. Stream'
    <3>1. \A x \in Ends : Gone(x)' => Gone(x)
        BY <2>13, EndsFacts DEF Gone
    <3>2. Head(wire[Client]).size = AckSize /\ Split(Client, AckSize) /\ got[Client] >= AckSize
        BY <2>0, <2>1, <2>9 DEF ack
    <3> QED BY <1>1, <2>9, <3>1, <3>2, EndsFacts, StreamSplit
  <2>15. wire'[Server] = <<>> /\ wire'[Client] = Tail(wire[Client])
      BY <1>1, <2>1, <2>5, EndsFacts DEF Split, Stream
  <2>16. \A i \in 1 .. Len(wire'[Client]) :
           wire'[Client][i] \in Tagged /\ Begins(wire'[Client][i].tag, egress[Server].mac)
    <3> SUFFICES ASSUME NEW i \in 1 .. Len(Tail(wire[Client]))
                 PROVE  /\ Tail(wire[Client])[i] \in Tagged
                        /\ Begins(Tail(wire[Client])[i].tag, egress[Server].mac)
        BY <2>15
    <3>1. i + 1 \in 2 .. Len(wire[Client]) /\ Tail(wire[Client])[i] = wire[Client][i + 1]
        BY <2>3
    <3> QED BY <2>4, <3>1 DEF Answered
  <2>17. Types'
    <3>1. at' \in [Ends -> {"start", "auth", "reply", "ack", "open"} \cup Ended]
        BY <1>1, <2>1 DEF Types
    <3>2. state' \in [Ends -> {"Auth", "Ack", "Header", "Body"}]
        BY <1>1, <2>1 DEF Types
    <3>3. DOMAIN remote' = Ends /\ DOMAIN ingress' = Ends /\ DOMAIN egress' = Ends
        BY <1>1, <2>1 DEF Types
    <3>4. \A x \in Ends : DOMAIN remote'[x] =
             {"id", "nonce", "ephemeral", "init_msg", "remote_init_msg"}
      <4>1. DOMAIN remote[Server] =
              {"id", "nonce", "ephemeral", "init_msg", "remote_init_msg"}
          BY <1>1, EndsFacts DEF Types
      <4>2. remote'[Client] = r /\ remote'[Server] = remote[Server]
          BY <2>13
      <4> QED BY <2>10, <4>1, <4>2, EndsFacts
    <3>5. \A x \in Ends : state'[x] = "Body" => body_size[x] \in Nat
        BY <1>1, <2>13, EndsFacts DEF Types
    <3> QED BY <1>1, <1>2, <3>1, <3>2, <3>3, <3>4, <3>5 DEF Types
  <2>18. /\ Begins(ingress'[Client].mac, egress'[Server].mac)
         /\ Begins(ingress'[Server].mac, egress'[Client].mac)
    <3>1. Fresh(Seed(Client, Ack)).mac = <<Seed(Client, Ack)>>
        BY DEF Fresh
    <3>2. Begins(ingress'[Client].mac, egress'[Server].mac)
        BY <2>4, <2>11, <2>13, <3>1 DEF Answered
    <3>3. ingress'[Server] = egress'[Client] /\ egress'[Client].mac \in Seq(Macs)
        BY <2>4, <2>11, <2>12, <2>13 DEF Answered, msg, Keys
    <3> QED BY <3>2, <3>3, BeginsFacts
  <2>19. ingress[Server] \in Keys /\ egress[Server] \in Keys
      BY <2>4, <2>12 DEF Answered, msg
  <2>20. \A e \in Ends :
           /\ at'[e] \in {"open"} \cup Ended /\ state'[e] \in {"Header", "Body"}
           /\ ingress'[e] \in Keys /\ egress'[e] \in Keys
           /\ Begins(ingress'[Other(e)].mac, egress'[e].mac)
    <3>1. at[Server] \in {"open"} \cup Ended /\ state[Server] = "Header"
        BY <2>4 DEF Answered
    <3> QED BY <2>11, <2>12, <2>13, <2>18, <2>19, <3>1, EndsFacts
  <2>21. \A e \in Ends : \A i \in 1 .. Len(wire'[e]) :
           wire'[e][i] \in Tagged /\ Begins(wire'[e][i].tag, egress'[Other(e)].mac)
    <3>1. Len(wire'[Server]) = 0
        BY <2>15
    <3> QED BY <2>13, <2>16, <3>1, EndsFacts
  <2>22. Connected'
      BY <1>2, <2>8, <2>10, <2>13, <2>20, <2>21 DEF Connected
  <2>23. ingress[Server] = Fresh(Seed(Server, msg)) /\ state[Server] = "Header"
      BY <2>4 DEF Answered, msg
  <2> QED BY <2>3, <2>4, <2>11, <2>13, <2>14, <2>15, <2>17, <2>22, <2>23 DEF KeysInv, msg
<1> QED BY <1>3, <1>4

(***************************************************************************)
(* A piece that passes the check of its tag is the next one that the other *)
(* end wrote, and its tag is a state the other end's MAC was in.           *)
(***************************************************************************)
LEMMA ReadInv ==
    ASSUME Types, Stream, Connected, NEW e \in Ends, NEW n \in Nat, n >= 1, got[e] >= n,
           NEW bytes \in Nat, CheckMac(ingress[e], Taken(e, n)), Split(e, n),
           ingress' = [ingress EXCEPT ![e] = Absorb(ingress[e], Taken(e, n).cipher, bytes)],
           \A x \in Ends : state'[x] \in {"Header", "Body"},
           UNCHANGED <<dialed, at, remote, egress>>
    PROVE  /\ Stream' /\ Connected' /\ DOMAIN ingress' = Ends
           /\ Taken(e, n) = wire[e][1] /\ Taken(e, n).size = n
           /\ Taken(e, n) \in Tagged
<1> DEFINE piece == wire[e][1]
           half == ingress[e]
<1>1. wire[e] \in Seq(Pieces) /\ got[e] \in Nat
    BY DEF Stream
<1>2. wire[e] # <<>> /\ Head(wire[e]) = piece
    BY <1>1, PieceThere
<1>3. half \in Keys /\ half.mac \in Seq(Macs)
    BY DEF Connected, Keys
<1>4. Taken(e, n) = piece /\ piece.size = n
  <2> SUFFICES ASSUME piece.size # n PROVE FALSE
      BY <1>2 DEF Taken
  <2>1. Taken(e, n) = [size |-> n, cipher |-> Noise, tag |-> <<>>]
      BY <1>2 DEF Taken
  <2>2. <<>> = Append(half.mac, Noise)
      BY <2>1 DEF CheckMac
  <2>3. half.mac \in Seq(Macs \cup {Noise})
      BY <1>3
  <2> HIDE DEF half
  <2>4. Append(half.mac, Noise) # <<>>
      BY <2>3, AppendProperties
  <2> QED BY <2>2, <2>4
<1>5. piece \in Tagged /\ Begins(piece.tag, egress[Other(e)].mac)
    BY <1>1, <1>2 DEF Connected
<1>6. piece.cipher \in Ciphers /\ piece.tag = Append(half.mac, piece.cipher)
    BY <1>4, <1>5 DEF CheckMac, Tagged
<1> DEFINE half2 == Absorb(half, piece.cipher, bytes)
<1>7. half2 \in Keys /\ half2.mac = piece.tag
    BY <1>3, <1>6, AbsorbFacts
<1> HIDE DEF half2
<1>8. ingress'[e] = half2 /\ \A x \in Ends : x # e => ingress'[x] = ingress[x]
    BY <1>4 DEF Types, half2
<1>9. Stream'
  <2>1. \A x \in Ends : Gone(x)' => Gone(x)
      BY DEF Gone
  <2> QED BY <1>2, <1>4, <2>1, StreamSplit
<1>10. wire'[e] = Tail(wire[e]) /\ \A x \in Ends : x # e => wire'[x] = wire[x]
    BY DEF Split, Stream
<1>11. ASSUME NEW x \in Ends
       PROVE  /\ ingress'[x] \in Keys
              /\ Begins(ingress'[Other(x)].mac, egress[x].mac)
              /\ \A i \in 1 .. Len(wire'[x]) :
                   wire'[x][i] \in Tagged /\ Begins(wire'[x][i].tag, egress[Other(x)].mac)
  <2>1. ingress'[x] \in Keys
      BY <1>7, <1>8 DEF Connected
  <2>2. Begins(ingress'[Other(x)].mac, egress[x].mac)
    <3>1. CASE Other(x) = e
      <4>1. x = Other(e)
          BY <3>1, EndsFacts
      <4> QED BY <1>5, <1>7, <1>8, <3>1, <4>1
    <3>2. CASE Other(x) # e
        BY <1>8, <3>2, EndsFacts DEF Connected
    <3> QED BY <3>1, <3>2
  <2>3. ASSUME NEW i \in 1 .. Len(wire'[x])
        PROVE  wire'[x][i] \in Tagged /\ Begins(wire'[x][i].tag, egress[Other(x)].mac)
    <3>1. CASE x = e
      <4>1. i \in 1 .. Len(Tail(wire[e])) /\ wire'[x][i] = Tail(wire[e])[i]
          BY <1>10, <3>1
      <4>2. i + 1 \in 1 .. Len(wire[e]) /\ Tail(wire[e])[i] = wire[e][i + 1]
          BY <1>1, <1>2, <4>1
      <4> QED BY <3>1, <4>1, <4>2 DEF Connected
    <3>2. CASE x # e
        BY <1>10, <3>2 DEF Connected
    <3> QED BY <3>1, <3>2
  <2> QED BY <2>1, <2>2, <2>3
<1>12. Connected'
    BY <1>11 DEF Connected
<1>13. DOMAIN ingress' = Ends
    BY DEF Types
<1> QED BY <1>4, <1>5, <1>9, <1>12, <1>13

(***************************************************************************)
(* Only an end of a connection that both have set up reads frames.         *)
(***************************************************************************)
LEMMA ReadersConnected ==
    ASSUME KeysInv, NEW e \in Ends, Polled(e), state[e] \in {"Header", "Body"}, got[e] >= 1
    PROVE  Connected
<1>1. wire[e] # <<>>
    BY PieceThere DEF KeysInv
<1>2. ~Greeting
    BY EndsFacts DEF Greeting, AuthSent
<1>3. ~Greeted
    BY EndsFacts DEF Greeted, AuthSent, Polled, Ended
<1>4. ~Answered
    BY <1>1, EndsFacts DEF Answered, AuthSent
<1> QED BY <1>2, <1>3, <1>4 DEF KeysInv

(***************************************************************************)
(* A header is read (proto.rs:113).                                        *)
(***************************************************************************)
LEMMA DecodeHeaderInv ==
    ASSUME KeysInv, NEW e \in Ends, DecodeHeader(e)
    PROVE  KeysInv'
<1> DEFINE header == Taken(e, header_len)
           half == ingress[e]
<1>1. Types /\ Stream
    BY DEF KeysInv
<1>2. /\ Polled(e) /\ state[e] = "Header" /\ got[e] >= header_len
      /\ UNCHANGED <<dialed, remote, egress, sent>>
    BY DEF DecodeHeader, Enough, network
<1>3. Connected
  <2>1. got[e] >= 1
      BY <1>1, <1>2, PaddedFacts DEF Stream
  <2> QED BY <1>2, <2>1, ReadersConnected
<1>4. CASE (Leave(e, "panicked") \/ Leave(e, "failed")) /\ UNCHANGED <<state, ingress, body_size>>
    BY <1>2, <1>4, LeaveInv DEF Ended
<1>5. CASE /\ CheckMac(half, header)
           /\ ingress' = [ingress EXCEPT ![e] = Absorb(half, header.cipher, Block)]
           /\ body_size' = [body_size EXCEPT ![e] = Decipher(half, header.cipher).len]
           /\ state' = [state EXCEPT ![e] = "Body"]
           /\ Split(e, header_len) /\ UNCHANGED at
  <2>1. \A x \in Ends : state'[x] \in {"Header", "Body"}
      BY <1>1, <1>3, <1>5 DEF Connected, Types
  <2>2. Stream' /\ Connected' /\ DOMAIN ingress' = Ends /\ header \in Tagged
      BY <1>1, <1>2, <1>3, <1>5, <2>1, PaddedFacts, ReadInv
  <2>3. Decipher(half, header.cipher).len \in Nat
    <3>1. header.cipher.data.len \in Nat /\ Noise.len \in Nat
        BY <2>2 DEF Tagged, Ciphers, Datas, Noise
    <3> HIDE DEF header
    <3> QED BY <3>1 DEF Decipher
  <2>4. Types'
      BY <1>1, <1>2, <1>5, <2>2, <2>3 DEF Types
  <2> QED BY <2>2, <2>4 DEF KeysInv
<1> QED BY <1>4, <1>5 DEF DecodeHeader

(***************************************************************************)
(* A body is read (proto.rs:125).                                          *)
(***************************************************************************)
LEMMA DecodeBodyInv ==
    ASSUME KeysInv, NEW e \in Ends, DecodeBody(e)
    PROVE  KeysInv'
<1> DEFINE n == body_len(body_size[e])
           body == Taken(e, n)
           half == ingress[e]
<1>1. Types /\ Stream
    BY DEF KeysInv
<1>2. /\ Polled(e) /\ state[e] = "Body" /\ got[e] >= n
      /\ UNCHANGED <<dialed, remote, egress, sent>>
    BY DEF DecodeBody, Enough, network
<1>3. body_size[e] \in Nat
    BY <1>1, <1>2 DEF Types
<1>4. n \in Nat /\ n >= 1 /\ n - Block \in Nat
  <2>1. n = Padded(body_size[e]) + Block /\ Padded(body_size[e]) \in Nat
      BY <1>3, PaddedFacts DEF body_len
  <2> HIDE DEF n
  <2> QED BY <2>1, PaddedFacts
<1>5. Connected
  <2>1. got[e] >= 1
      BY <1>1, <1>2, <1>4 DEF Stream
  <2> QED BY <1>2, <2>1, ReadersConnected
<1>6. CASE ~CheckMac(half, body)
  <2>1. Leave(e, "failed") /\ UNCHANGED <<state, ingress, body_size>>
      BY <1>6 DEF DecodeBody
  <2> QED BY <1>2, <2>1, LeaveInv DEF Ended
<1>7. CASE CheckMac(half, body)
  <2>1. /\ ingress' = [ingress EXCEPT ![e] = Absorb(half, body.cipher, n - Block)]
        /\ body_size' = [body_size EXCEPT ![e] = None]
        /\ state' = [state EXCEPT ![e] = "Header"]
        /\ Split(e, n) /\ UNCHANGED at
      BY <1>7 DEF DecodeBody
  <2>2. \A x \in Ends : state'[x] \in {"Header", "Body"}
      BY <1>1, <1>5, <2>1 DEF Connected, Types
  <2>3. Stream' /\ Connected' /\ DOMAIN ingress' = Ends
    <3> HIDE DEF n
    <3> QED BY <1>1, <1>2, <1>4, <1>5, <1>7, <2>1, <2>2, ReadInv
  <2>4. Types'
      BY <1>1, <1>2, <2>1, <2>3 DEF Types
  <2> QED BY <2>3, <2>4 DEF KeysInv
<1> QED BY <1>6, <1>7

(***************************************************************************)
(* A message is sent (proto.rs:154, algorithm.rs:462-503).                 *)
(***************************************************************************)
LEMMA StartSendInv ==
    ASSUME KeysInv, NEW e \in Ends, NEW len \in Lengths, StartSend(e, len)
    PROVE  KeysInv'
<1> DEFINE frame == [no |-> Len(sent[e]) + 1, len |-> len]
           f == Framed(egress[e], frame)
           o == Other(e)
           a == f.pieces[1]
           b == f.pieces[2]
<1>1. Types /\ Stream
    BY DEF KeysInv
<1>2. /\ at[e] = "open"
      /\ egress' = [egress EXCEPT ![e] = f.half]
      /\ WriteTo(o, f.pieces)
      /\ sent' = [sent EXCEPT ![e] = Append(sent[e], frame)]
      /\ UNCHANGED <<dialed, at, state, remote, ingress, body_size, got>>
    BY DEF StartSend, Encode, network
<1>3. frame \in Datas /\ sent[e] \in Seq(Datas)
    BY <1>1, EciesAssumption DEF Datas, Types
<1>4. (Answered /\ e = Server) \/ Connected
    BY <1>2, EndsFacts DEF KeysInv, Greeting, Greeted, Answered, AuthSent, Ended
<1>5. egress[e] \in Keys
    BY <1>4 DEF Answered, Connected
<1> HIDE DEF frame
<1>6. /\ f.half \in Keys /\ a \in Tagged /\ b \in Tagged /\ f.pieces = <<a, b>>
      /\ Begins(egress[e].mac, f.half.mac)
      /\ Begins(a.tag, f.half.mac) /\ Begins(b.tag, f.half.mac)
    BY <1>3, <1>5, FramedFacts, ZenonT(60)
<1> HIDE DEF f, a, b
<1>7. Types'
    BY <1>1, <1>2, <1>3 DEF Types
<1>8. Stream'
  <2>1. a \in Pieces /\ b \in Pieces
      BY <1>6 DEF Pieces
  <2>2. \A x \in Ends : Gone(x)' = Gone(x)
      BY <1>2 DEF Gone
  <2> QED BY <1>1, <1>2, <1>6, <2>1, <2>2, EndsFacts, StreamWrite
<1>9. egress'[e] = f.half /\ \A x \in Ends : x # e => egress'[x] = egress[x]
    BY <1>1, <1>2 DEF Types
<1>10. /\ wire[o] \in Seq(Pieces)
       /\ \A x \in Ends : x # o => wire'[x] = wire[x]
       /\ wire'[o] = wire[o] \/ wire'[o] = wire[o] \o <<a, b>>
       /\ Gone(o) => wire'[o] = wire[o]
    BY <1>1, <1>2, <1>6, EndsFacts DEF Stream, WriteTo
<1>11. \A s \in Seq(Macs) : Begins(s, egress[e].mac) => Begins(s, f.half.mac)
  <2>1. egress[e].mac \in Seq(Macs) /\ f.half.mac \in Seq(Macs)
      BY <1>5, <1>6 DEF Keys
  <2> QED BY <1>6, <2>1, BeginsFacts
<1>12. ASSUME NEW i \in 1 .. Len(wire'[o]),
              i <= Len(wire[o]) =>
                wire[o][i] \in Tagged /\ Begins(wire[o][i].tag, egress[e].mac)
       PROVE  wire'[o][i] \in Tagged /\ Begins(wire'[o][i].tag, f.half.mac)
  <2>1. Len(wire[o]) \in Nat /\ i \in Nat /\ i >= 1
      BY <1>10
  <2>2. CASE i <= Len(wire[o])
    <3>1. wire'[o][i] = wire[o][i]
        BY <1>10, <2>1, <2>2
    <3>2. wire[o][i].tag \in Seq(Macs)
        BY <1>12, <2>2 DEF Tagged
    <3> QED BY <1>11, <1>12, <2>2, <3>1, <3>2
  <2>3. CASE i > Len(wire[o])
    <3>1. wire'[o] = wire[o] \o <<a, b>>
      <4> SUFFICES ASSUME wire'[o] = wire[o] PROVE FALSE
          BY <1>10
      <4>1. i \in 1 .. Len(wire[o])
          OBVIOUS
      <4> QED BY <2>1, <2>3, <4>1
    <3>2. wire'[o][i] \in {a, b}
      <4>1. i = Len(wire[o]) + 1 \/ i = Len(wire[o]) + 2
          BY <1>10, <2>1, <2>3, <3>1
      <4> QED BY <1>10, <2>1, <3>1, <4>1
    <3> QED BY <1>6, <3>2
  <2> QED BY <2>1, <2>2, <2>3
<1>13. CASE Answered /\ e = Server
  <2>1. o = Client /\ wire'[Server] = <<>>
      BY <1>10, <1>13, EndsFacts DEF Answered
  <2>2. \A i \in 2 .. Len(wire'[Client]) :
          wire'[Client][i] \in Tagged /\ Begins(wire'[Client][i].tag, f.half.mac)
    <3> SUFFICES ASSUME NEW i \in 2 .. Len(wire'[Client])
                 PROVE  wire'[Client][i] \in Tagged /\ Begins(wire'[Client][i].tag, f.half.mac)
        OBVIOUS
    <3>1. Len(wire'[Client]) \in Nat /\ Len(wire[Client]) \in Nat
        BY <1>1, <1>8, EndsFacts DEF Stream
    <3>2. i \in 1 .. Len(wire'[Client])
        BY <3>1
    <3>3. i <= Len(wire[Client]) =>
            wire[Client][i] \in Tagged /\ Begins(wire[Client][i].tag, egress[e].mac)
        BY <1>13, <3>1 DEF Answered
    <3> QED BY <1>12, <2>1, <3>2, <3>3
  <2>3. Gone(Client)' \/ (wire'[Client] # <<>> /\ wire'[Client][1] \in {Ack, Garbled(Ack)})
    <3>1. Gone(Client)' = Gone(Client)
        BY <1>2 DEF Gone
    <3>2. ASSUME wire[Client] # <<>>
          PROVE  wire'[Client] # <<>> /\ wire'[Client][1] = wire[Client][1]
        BY <1>10, <2>1, <3>2
    <3> QED BY <1>13, <3>1, <3>2 DEF Answered
  <2>4. Begins(<<Seed(Client, Ack)>>, f.half.mac)
    <3>1. <<Seed(Client, Ack)>> \in Seq(Macs)
        BY DEF Macs, Seeds
    <3> QED BY <1>11, <1>13, <3>1 DEF Answered
  <2>5. egress'[Server] = f.half /\ egress'[Client] = egress[Client]
      BY <1>9, <1>13, EndsFacts
  <2>6. Answered'
      BY <1>2, <1>6, <1>13, <2>1, <2>2, <2>3, <2>4, <2>5
      DEF Answered, AuthSent, AuthTaken, NoKeys
  <2> QED BY <1>7, <1>8, <2>6 DEF KeysInv
<1>14. CASE Connected
  <2>1. ASSUME NEW x \in Ends
        PROVE  egress'[x] \in Keys /\ Begins(ingress[Other(x)].mac, egress'[x].mac)
    <3>1. CASE x = e
      <4>1. ingress[o].mac \in Seq(Macs) /\ Begins(ingress[o].mac, egress[e].mac)
          BY <1>14, EndsFacts DEF Connected, Keys
      <4> QED BY <1>6, <1>9, <1>11, <3>1, <4>1
    <3>2. CASE x # e
        BY <1>9, <1>14, <3>2 DEF Connected
    <3> QED BY <3>1, <3>2
  <2>2. ASSUME NEW x \in Ends, NEW i \in 1 .. Len(wire'[x])
        PROVE  wire'[x][i] \in Tagged /\ Begins(wire'[x][i].tag, egress'[Other(x)].mac)
    <3>1. CASE x = o
      <4>1. Other(x) = e
          BY <3>1, EndsFacts
      <4>2. i <= Len(wire[o]) =>
              wire[o][i] \in Tagged /\ Begins(wire[o][i].tag, egress[e].mac)
        <5>1. Len(wire[o]) \in Nat /\ i \in Nat /\ i >= 1 /\ o \in Ends
            BY <1>10, EndsFacts
        <5> QED BY <1>14, <3>1, <4>1, <5>1 DEF Connected
      <4> QED BY <1>9, <1>12, <3>1, <4>1, <4>2
    <3>2. CASE x # o
      <4>1. wire'[x] = wire[x] /\ Other(x) # e /\ Other(x) \in Ends
          BY <1>10, <3>2, EndsFacts
      <4> QED BY <1>9, <1>14, <4>1 DEF Connected
    <3> QED BY <3>1, <3>2
  <2>3. Connected'
      BY <1>2, <1>14, <2>1, <2>2 DEF Connected
  <2> QED BY <1>7, <1>8, <2>3 DEF KeysInv
<1> QED BY <1>4, <1>13, <1>14

(***************************************************************************)
(* The invariant holds initially.                                          *)
(***************************************************************************)
LEMMA InitKeysInv == Init => KeysInv
<1> SUFFICES ASSUME Init PROVE KeysInv
    OBVIOUS
<1>1. Types
  <2>1. <<>> \in Seq(Datas)
      OBVIOUS
  <2> QED BY <2>1 DEF Init, Types
<1>2. Stream
  <2>1. <<>> \in Seq(Pieces)
      OBVIOUS
  <2> QED BY <2>1, BytesEmpty DEF Init, Stream
<1>3. Greeting
    BY EndsFacts DEF Init, Greeting, NoKeys
<1> QED BY <1>1, <1>2, <1>3 DEF KeysInv

(***************************************************************************)
(* Every step keeps the invariant.                                         *)
(***************************************************************************)
LEMMA NextKeysInv == KeysInv /\ [Next]_vars => KeysInv'
<1> SUFFICES ASSUME KeysInv, [Next]_vars PROVE KeysInv'
    OBVIOUS
<1>1. ASSUME NEW size \in AuthSizes, SendAuth(size) PROVE KeysInv'
    BY <1>1, SendAuthInv
<1>2. CASE SendAck
    BY <1>2, SendAckInv
<1>3. ASSUME NEW e \in Ends, Transfer(e) PROVE KeysInv'
    BY <1>3, TransferInv
<1>4. ASSUME NEW e \in Ends, Alter(e) PROVE KeysInv'
    BY <1>4, AlterInv
<1>5. ASSUME NEW e \in Ends, Close(e) PROVE KeysInv'
    BY <1>5, LeaveInv DEF Close, Ended, network
<1>6. ASSUME NEW e \in Ends, Decode(e) PROVE KeysInv'
  <2>1. ASSUME DecodeEnd(e) PROVE KeysInv'
    <3>1. PICK how \in {"closed", "failed"} : Leave(e, how)
        BY <2>1 DEF DecodeEnd
    <3> QED BY <2>1, <3>1, LeaveInv DEF DecodeEnd, Ended, network
  <2> QED BY <1>6, <2>1, DecodeAuthInv, DecodeAckInv, DecodeHeaderInv, DecodeBodyInv DEF Decode
<1>7. ASSUME NEW e \in Ends, NEW len \in Lengths, StartSend(e, len) PROVE KeysInv'
    BY <1>7, StartSendInv
<1>8. CASE Cut \/ UNCHANGED vars
    BY <1>8, EndsFacts, TransferInv
<1> QED BY <1>1, <1>2, <1>3, <1>4, <1>5, <1>6, <1>7, <1>8 DEF Next

(***************************************************************************)
(* Two ends that have keys are the two ends that mean each other, with the *)
(* same secrets, and what one end's MAC has checked is a beginning of what *)
(* the other end's MAC has tagged, whatever is altered on the way          *)
(* (algorithm.rs:287-460, proto.rs:214).                                   *)
(***************************************************************************)
THEOREM KeysAlwaysAgree == Spec => []KeysAgree
<1>1. KeysInv => KeysAgree
  <2> SUFFICES ASSUME KeysInv, NEW e \in Ends, egress[e] # None, ingress[Other(e)] # None
               PROVE  /\ remote[e].id = Other(e) /\ dialed = Server
                      /\ egress[e].aes = ingress[Other(e)].aes
                      /\ IsPrefix(ingress[Other(e)].mac, egress[e].mac)
      BY DEF KeysAgree
  <2>1. Connected
      BY EndsFacts DEF KeysInv, Greeting, Greeted, Answered, NoKeys
  <2>2. remote[e].id = Other(e) /\ dialed = Server
      BY <2>1, EndsFacts DEF Connected
  <2>3. egress[e] \in Keys /\ ingress[Other(e)] \in Keys
        /\ Begins(ingress[Other(e)].mac, egress[e].mac)
      BY <2>1, EndsFacts DEF Connected
  <2>4. /\ egress[e].aes = Secret /\ ingress[Other(e)].aes = Secret
        /\ egress[e].mac \in Seq(Macs) /\ ingress[Other(e)].mac \in Seq(Macs)
      BY <2>3 DEF Keys
  <2> QED BY <2>2, <2>3, <2>4, BeginsFacts
<1> QED BY <1>1, InitKeysInv, NextKeysInv, PTL DEF Spec

-----------------------------------------------------------------------------
(* Frames on their way.                                                     *)

\* Where the key stream is after k frames.
Offset(mac, k) ==
    IF k = 0 THEN 0 ELSE mac[2 * k + 1].pos + Padded(mac[2 * k + 1].data.len)

\* Keys that encrypted and absorbed a header and a body for each of the frames.
Written(half, frames) ==
    /\ Len(half.mac) = 2 * Len(frames) + 1
    /\ half.pos = Offset(half.mac, Len(frames))
    /\ \A k \in 1 .. Len(frames) :
         /\ half.mac[2 * k].data = Header(frames[k].len)
         /\ half.mac[2 * k].pos = Offset(half.mac, k - 1)
         /\ half.mac[2 * k + 1].data = frames[k]
         /\ half.mac[2 * k + 1].pos = half.mac[2 * k].pos + Block

\* Keys that read as far as n frames, and the header of the next one or not.
AtHeader(half, mac, n) == Len(half.mac) = 2 * n + 1 /\ half.pos = Offset(mac, n)
AtBody(half, mac, n, size) ==
    /\ Len(half.mac) = 2 * n + 2 /\ half.pos = mac[2 * n + 2].pos + Block
    /\ size = mac[2 * n + 2].data.len

Flow ==
    /\ sent \in [Ends -> Seq([no : Nat, len : Nat])] /\ received \in [Ends -> Seq(Datas)]
    /\ \A e \in Ends :
         /\ egress[e] = None => sent[e] = <<>> /\ received[Other(e)] = <<>>
         /\ ingress[e] = None => received[e] = <<>>
         /\ egress[e] # None => Written(egress[e], sent[e])
         /\ ingress[e] # None /\ egress[Other(e)] # None =>
              LET mac == egress[Other(e)].mac
                  n   == Len(received[e])
              IN \/ state[e] = "Header" /\ AtHeader(ingress[e], mac, n)
                 \/ state[e] = "Body" /\ AtBody(ingress[e], mac, n, body_size[e])

\* How much of what the other end's MAC absorbed was read.
Read(e) == IF ingress[e] = None THEN 0 ELSE Len(ingress[e].mac)

\* The n-th entry of the MAC, as it was written.
InPlace(piece, mac, n) ==
    /\ Len(piece.tag) = n /\ piece.cipher = mac[n]
    /\ piece.size = IF mac[n].data.no = -1 THEN header_len ELSE body_len(mac[n].data.len)

\* Nothing is lost on the way to an end that reads, and unless pieces are
\* altered they are what was written.
Intact ==
    /\ altered \in Nat
    /\ \A e \in Ends :
         /\ ~Gone(e) /\ egress[Other(e)] # None =>
              Read(e) + Len(wire[e]) = Len(egress[Other(e)].mac)
         /\ altered = 0 =>
              /\ ingress[e] = None /\ wire[e] # <<>> =>
                   wire[e][1] = IF e = Client THEN Ack ELSE remote[Client].init_msg
              /\ \A i \in 1 .. Len(wire[e]) :
                   egress[Other(e)] # None /\ Read(e) + i >= 2 =>
                     InPlace(wire[e][i], egress[Other(e)].mac, Read(e) + i)

-----------------------------------------------------------------------------
(* Frames, step by step.                                                    *)

(***************************************************************************)
(* Who has keys.                                                           *)
(***************************************************************************)
LEMMA KeyedFacts ==
    ASSUME KeysInv
    PROVE  /\ Fresh(Seed(Client, Ack)) # None
           /\ \A e \in Ends : /\ ingress[e] # None <=> egress[e] # None
                              /\ ingress[e] # None => ingress[e] \in Keys /\ egress[e] \in Keys
           /\ ingress[Client] # None => Connected
           /\ Connected => ingress[Client] # None /\ ingress[Server] # None
           /\ Answered => NoKeys(Client) /\ ingress[Server] # None
           /\ Greeting \/ Greeted => NoKeys(Client) /\ NoKeys(Server)
           /\ ingress[Server] # None => Answered \/ Connected
<1>1. Fresh(Seed(Client, Ack)) \in Keys
    BY FreshKeys DEF Seeds
<1>2. Answered => ingress[Server] \in Keys
  <2> SUFFICES ASSUME Answered PROVE ingress[Server] \in Keys
      OBVIOUS
  <2>1. PICK size \in AuthSizes : remote[Client].init_msg = Auth(dialed, size)
      BY DEF Answered, AuthSent
  <2>2. remote[Client].init_msg \in Auths
      BY <2>1 DEF KeysInv, Types, Auths
  <2> QED BY <2>2, FreshKeys DEF Answered, Seeds
<1>3. CASE Greeting \/ Greeted
    BY <1>1, <1>3, <1>2, NoneAssumption, EndsFacts DEF Greeting, Greeted, Answered, NoKeys, Connected
<1>4. CASE Answered
    BY <1>1, <1>2, <1>4, NoneAssumption, EndsFacts DEF Greeting, Greeted, Answered, NoKeys, Connected
<1>5. CASE Connected
    BY <1>1, <1>5, NoneAssumption, EndsFacts DEF Greeting, Greeted, Answered, NoKeys, Connected
<1> QED BY <1>3, <1>4, <1>5 DEF KeysInv

(***************************************************************************)
(* One more frame is written.                                              *)
(***************************************************************************)
LEMMA WrittenAppend ==
    ASSUME NEW half \in Keys, NEW frames \in Seq([no : Nat, len : Nat]), Written(half, frames),
           NEW frame \in [no : Nat, len : Nat]
    PROVE  LET f == Framed(half, frame)
               n == Len(half.mac)
           IN /\ Written(f.half, Append(frames, frame))
              /\ Len(f.half.mac) = n + 2
              /\ \A j \in 1 .. n : f.half.mac[j] = half.mac[j]
              /\ \A k \in 0 .. Len(frames) : Offset(f.half.mac, k) = Offset(half.mac, k)
              /\ Len(f.pieces[1].tag) = n + 1 /\ Len(f.pieces[2].tag) = n + 2
              /\ InPlace(f.pieces[1], f.half.mac, n + 1)
              /\ InPlace(f.pieces[2], f.half.mac, n + 2)
<1> DEFINE f == Framed(half, frame)
           n == Len(half.mac)
           N == Len(frames)
           c == Cipher(half, Header(frame.len))
           d == [key |-> Secret, pos |-> half.pos + Block, data |-> frame]
           old == half.mac
           new == f.half.mac
           more == Append(frames, frame)
<1>1. frame \in Datas /\ frame.len \in Nat /\ frame.no \in Nat
    BY DEF Datas
<1>2. /\ f.half \in Keys /\ f.half.pos = half.pos + Block + Padded(frame.len)
      /\ c \in Ciphers /\ d \in Ciphers
      /\ new = Append(Append(old, c), d)
      /\ f.pieces[1].tag = Append(old, c)
      /\ f.pieces[1].cipher = c /\ f.pieces[1].size = header_len
      /\ f.pieces[2].tag = new
      /\ f.pieces[2].cipher = d /\ f.pieces[2].size = body_len(frame.len)
  <2>1. f.half \in Keys /\ f.half.pos = half.pos + Block + Padded(frame.len)
      BY <1>1, FramedFacts, ZenonT(60)
  <2>2. c \in Ciphers /\ d \in Ciphers
      BY <1>1, FramedFacts
  <2>3. new = Append(Append(old, c), d)
      BY <1>1, FramedFacts
  <2>4. /\ f.pieces[1].tag = Append(old, c)
        /\ f.pieces[1].cipher = c /\ f.pieces[1].size = header_len
    <3>1. f.pieces[1].tag = Append(old, c)
        BY <1>1, FramedFacts, ZenonT(60)
    <3>2. f.pieces[1].cipher = c
        BY <1>1, FramedFacts, ZenonT(60)
    <3>3. f.pieces[1].size = header_len
        BY <1>1, FramedFacts, ZenonT(60)
    <3> QED BY <3>1, <3>2, <3>3
  <2>5. /\ f.pieces[2].tag = new
        /\ f.pieces[2].cipher = d /\ f.pieces[2].size = body_len(frame.len)
      BY <1>1, FramedFacts
  <2> QED BY <2>1, <2>2, <2>3, <2>4, <2>5
<1>3. c = [key |-> half.aes, pos |-> half.pos, data |-> Header(frame.len)]
    BY DEF Cipher
<1>4. /\ c.pos = half.pos /\ c.data = Header(frame.len)
      /\ d.pos = half.pos + Block /\ d.data = frame
    BY <1>3
<1> HIDE DEF f, c, d
<1>5. old \in Seq(Macs) /\ c \in Macs /\ d \in Macs /\ half.pos \in Nat
    BY <1>2 DEF Keys, Macs
<1>6. /\ n \in Nat /\ Len(new) = n + 2 /\ new[n + 1] = c /\ new[n + 2] = d
      /\ \A j \in 1 .. n : new[j] = old[j]
      /\ Len(Append(old, c)) = n + 1
    BY <1>2, <1>5
<1>7. N \in Nat /\ n = 2 * N + 1 /\ half.pos = Offset(old, N)
    BY DEF Written
<1>8. Len(more) = N + 1 /\ more[N + 1] = frame /\ \A k \in 1 .. N : more[k] = frames[k]
    OBVIOUS
<1> HIDE DEF n, N, old, new, more
<1>9. ASSUME NEW k \in 0 .. N PROVE Offset(new, k) = Offset(old, k)
  <2>1. k # 0 => 2 * k + 1 \in 1 .. n
      BY <1>7
  <2> QED BY <1>6, <2>1 DEF Offset
<1>10. N + 1 # 0 /\ 2 * (N + 1) = n + 1 /\ 2 * (N + 1) + 1 = n + 2 /\ (N + 1) - 1 = N
    BY <1>7
<1>11. f.half.pos = Offset(new, N + 1)
  <2>1. Offset(new, N + 1) = d.pos + Padded(d.data.len)
      BY <1>6, <1>10 DEF Offset
  <2> QED BY <1>2, <1>4, <2>1
<1>12. ASSUME NEW k \in 1 .. N + 1
       PROVE  /\ new[2 * k].data = Header(more[k].len)
              /\ new[2 * k].pos = Offset(new, k - 1)
              /\ new[2 * k + 1].data = more[k]
              /\ new[2 * k + 1].pos = new[2 * k].pos + Block
  <2>1. CASE k = N + 1
    <3>1. Offset(new, N) = half.pos
        BY <1>7, <1>9
    <3> QED BY <1>4, <1>6, <1>8, <1>10, <2>1, <3>1
  <2>2. CASE k \in 1 .. N
    <3>1. 2 * k \in 1 .. n /\ 2 * k + 1 \in 1 .. n /\ k - 1 \in 0 .. N
        BY <1>7, <2>2
    <3>2. /\ old[2 * k].data = Header(frames[k].len)
          /\ old[2 * k].pos = Offset(old, k - 1)
          /\ old[2 * k + 1].data = frames[k]
          /\ old[2 * k + 1].pos = old[2 * k].pos + Block
        BY <2>2 DEF Written, N, old
    <3> QED BY <1>6, <1>8, <1>9, <2>2, <3>1, <3>2
  <2> QED BY <1>7, <2>1, <2>2
<1>13. Written(f.half, more)
  <2>1. Len(new) = 2 * Len(more) + 1
    <3>1. Len(new) = n + 2 /\ Len(more) = N + 1
        BY <1>6, <1>8
    <3> QED BY <1>10, <3>1
  <2>2. f.half.pos = Offset(new, Len(more))
      BY <1>8, <1>11
  <2>3. \A k \in 1 .. Len(more) :
          /\ new[2 * k].data = Header(more[k].len)
          /\ new[2 * k].pos = Offset(new, k - 1)
          /\ new[2 * k + 1].data = more[k]
          /\ new[2 * k + 1].pos = new[2 * k].pos + Block
      BY <1>8, <1>12
  <2> QED BY <2>1, <2>2, <2>3, Zenon DEF Written, new
<1>14. Header(frame.len).no = -1 /\ Header(frame.len).len = frame.len /\ frame.no # -1
    BY <1>1 DEF Header
<1>15. InPlace(f.pieces[1], new, n + 1)
    BY <1>2, <1>4, <1>6, <1>14 DEF InPlace
<1>16. InPlace(f.pieces[2], new, n + 2)
    BY <1>2, <1>4, <1>6, <1>14 DEF InPlace
<1> QED BY <1>2, <1>6, <1>9, <1>13, <1>15, <1>16 DEF f, n, N, old, new, more

(***************************************************************************)
(* Whatever leaves keys and histories alone, and the decoders of those     *)
(* that have keys.                                                         *)
(***************************************************************************)
LEMMA FlowQuiet ==
    ASSUME Flow, UNCHANGED <<ingress, egress, sent, received>>,
           \A e \in Ends : ingress[e] # None =>
              state'[e] = state[e] /\ body_size'[e] = body_size[e]
    PROVE  Flow'
BY DEF Flow

(***************************************************************************)
(* A frame is sent.                                                        *)
(***************************************************************************)
LEMMA FlowSend ==
    ASSUME KeysInv, Flow, NEW e \in Ends, NEW len \in Lengths, StartSend(e, len)
    PROVE  Flow'
<1> DEFINE frame == [no |-> Len(sent[e]) + 1, len |-> len]
           f == Framed(egress[e], frame)
           o == Other(e)
           mac == egress[e].mac
<1>1. Types /\ o \in Ends /\ o # e /\ Other(o) = e
    BY EndsFacts DEF KeysInv
<1>2. /\ at[e] = "open"
      /\ egress' = [egress EXCEPT ![e] = f.half]
      /\ sent' = [sent EXCEPT ![e] = Append(sent[e], frame)]
      /\ UNCHANGED <<state, ingress, body_size, received>>
    BY DEF StartSend, Encode
<1>3. sent[e] \in Seq([no : Nat, len : Nat]) /\ frame \in [no : Nat, len : Nat]
    BY EciesAssumption DEF Flow
<1>4. egress[e] # None /\ ingress[e] # None /\ egress[e] \in Keys
  <2>1. (Answered /\ e = Server) \/ Connected
      BY <1>2, EndsFacts DEF KeysInv, Greeting, Greeted, Answered, AuthSent, Ended
  <2>2. ingress[e] # None
      BY <2>1, KeyedFacts, EndsFacts
  <2> QED BY <2>2, KeyedFacts
<1>5. Written(egress[e], sent[e])
    BY <1>4 DEF Flow
<1> HIDE DEF frame
<1>6. /\ Written(f.half, Append(sent[e], frame))
      /\ Len(f.half.mac) = Len(mac) + 2
      /\ \A j \in 1 .. Len(mac) : f.half.mac[j] = mac[j]
      /\ \A k \in 0 .. Len(sent[e]) : Offset(f.half.mac, k) = Offset(mac, k)
    BY <1>3, <1>4, <1>5, WrittenAppend
<1>7. f.half \in Keys
  <2>1. frame \in Datas
      BY <1>3 DEF Datas
  <2> QED BY <1>4, <2>1, FramedFacts
<1> HIDE DEF f
<1>8. /\ egress'[e] = f.half /\ \A x \in Ends : x # e => egress'[x] = egress[x]
      /\ sent'[e] = Append(sent[e], frame) /\ \A x \in Ends : x # e => sent'[x] = sent[x]
    BY <1>1, <1>2 DEF Types
<1>9. egress'[e] # None
    BY <1>7, <1>8, NoneAssumption
<1>10. sent' \in [Ends -> Seq([no : Nat, len : Nat])]
    BY <1>2, <1>3 DEF Flow
<1>11. ASSUME ingress[o] # None
       PROVE  LET n == Len(received[o])
              IN \/ state[o] = "Header" /\ AtHeader(ingress[o], f.half.mac, n)
                 \/ state[o] = "Body" /\ AtBody(ingress[o], f.half.mac, n, body_size[o])
  <2> DEFINE n == Len(received[o])
             N == Len(sent[e])
  <2>1. \/ state[o] = "Header" /\ AtHeader(ingress[o], mac, n)
        \/ state[o] = "Body" /\ AtBody(ingress[o], mac, n, body_size[o])
      BY <1>1, <1>4, <1>11 DEF Flow
  <2>2. n \in Nat /\ N \in Nat /\ Len(mac) = 2 * N + 1
      BY <1>1, <1>3, <1>5 DEF Flow, Written
  <2>3. Len(ingress[o].mac) <= Len(mac)
    <3>1. Connected
        BY <1>1, <1>4, <1>11, KeyedFacts, EndsFacts
    <3> QED BY <1>1, <3>1 DEF Connected, Begins
  <2> HIDE DEF n, N
  <2>4. AtHeader(ingress[o], mac, n) => AtHeader(ingress[o], f.half.mac, n)
    <3> SUFFICES ASSUME AtHeader(ingress[o], mac, n)
                 PROVE  AtHeader(ingress[o], f.half.mac, n)
        OBVIOUS
    <3>1. Len(ingress[o].mac) = 2 * n + 1
        BY DEF AtHeader
    <3>2. n \in 0 .. N
        BY <2>2, <2>3, <3>1
    <3> QED BY <1>6, <3>2 DEF AtHeader, N
  <2>5. AtBody(ingress[o], mac, n, body_size[o]) =>
          AtBody(ingress[o], f.half.mac, n, body_size[o])
    <3> SUFFICES ASSUME AtBody(ingress[o], mac, n, body_size[o])
                 PROVE  AtBody(ingress[o], f.half.mac, n, body_size[o])
        OBVIOUS
    <3>1. Len(ingress[o].mac) = 2 * n + 2
        BY DEF AtBody
    <3>2. 2 * n + 2 \in 1 .. Len(mac)
        BY <2>2, <2>3, <3>1
    <3> QED BY <1>6, <3>2 DEF AtBody
  <2> QED BY <2>1, <2>4, <2>5 DEF n
<1>12. ASSUME NEW x \in Ends
       PROVE  /\ egress'[x] = None => sent'[x] = <<>> /\ received[Other(x)] = <<>>
              /\ ingress[x] = None => received[x] = <<>>
              /\ egress'[x] # None => Written(egress'[x], sent'[x])
              /\ ingress[x] # None /\ egress'[Other(x)] # None =>
                   LET m == egress'[Other(x)].mac
                       n == Len(received[x])
                   IN \/ state[x] = "Header" /\ AtHeader(ingress[x], m, n)
                      \/ state[x] = "Body" /\ AtBody(ingress[x], m, n, body_size[x])
  <2>1. CASE x = e
    <3>1. Other(x) = o /\ egress'[Other(x)] = egress[Other(x)]
        BY <1>1, <1>8, <2>1
    <3> QED BY <1>6, <1>8, <1>9, <2>1, <3>1 DEF Flow
  <2>2. CASE x = o
    <3>1. Other(x) = e /\ egress'[Other(x)] = f.half /\ egress'[x] = egress[x] /\ sent'[x] = sent[x]
        BY <1>1, <1>8, <2>2
    <3> QED BY <1>11, <2>2, <3>1 DEF Flow
  <2> QED BY <1>1, <2>1, <2>2, EndsFacts
<1> QED BY <1>2, <1>10, <1>12 DEF Flow

(***************************************************************************)
(* A piece that passes the check is the next entry of the writer's MAC.    *)
(***************************************************************************)
LEMMA NextEntry ==
    ASSUME Stream, Connected, NEW e \in Ends, NEW piece \in Tagged, wire[e] # <<>>,
           piece = wire[e][1], CheckMac(ingress[e], piece)
    PROVE  LET mac == egress[Other(e)].mac
               j   == Len(ingress[e].mac) + 1
           IN /\ j \in 1 .. Len(mac) /\ mac[j] = piece.cipher
              /\ piece.cipher = [key |-> Secret, pos |-> piece.cipher.pos,
                                 data |-> piece.cipher.data]
<1> DEFINE mac == egress[Other(e)].mac
           half == ingress[e]
           j == Len(half.mac) + 1
<1>1. half.mac \in Seq(Macs) /\ piece.cipher \in Ciphers /\ piece.cipher \in Macs
    BY DEF Connected, Keys, Tagged, Macs
<1>2. wire[e] \in Seq(Pieces)
    BY DEF Stream
<1>3. Begins(piece.tag, mac)
    BY <1>2 DEF Connected
<1>4. piece.tag = Append(half.mac, piece.cipher)
    BY DEF CheckMac
<1> HIDE DEF mac, half
<1>5. j \in Nat /\ j >= 1 /\ Len(piece.tag) = j /\ piece.tag[j] = piece.cipher
    BY <1>1, <1>4
<1>6. mac \in Seq(Macs)
    BY EndsFacts DEF Connected, Keys, mac
<1>7. j \in 1 .. Len(mac) /\ mac[j] = piece.cipher
    BY <1>3, <1>5, <1>6 DEF Begins
<1>8. piece.cipher = [key |-> Secret, pos |-> piece.cipher.pos, data |-> piece.cipher.data]
    BY <1>1 DEF Ciphers
<1> QED BY <1>7, <1>8 DEF mac, half

(***************************************************************************)
(* A header that passes the check is the header of the next frame.         *)
(***************************************************************************)
LEMMA HeaderRead ==
    ASSUME KeysInv, Flow, NEW e \in Ends, Connected, state[e] = "Header",
           got[e] >= header_len, CheckMac(ingress[e], Taken(e, header_len)),
           ingress' = [ingress EXCEPT ![e] =
                         Absorb(ingress[e], Taken(e, header_len).cipher, Block)],
           body_size' = [body_size EXCEPT ![e] =
                           Decipher(ingress[e], Taken(e, header_len).cipher).len],
           state' = [state EXCEPT ![e] = "Body"],
           Split(e, header_len), UNCHANGED <<dialed, at, remote, egress, sent, received>>
    PROVE  Flow' /\ Len(ingress'[e].mac) = Len(ingress[e].mac) + 1 /\ wire[e] # <<>>
<1> DEFINE piece == Taken(e, header_len)
           half == ingress[e]
           c == piece.cipher
           mac == egress[Other(e)].mac
           frames == sent[Other(e)]
           n == Len(received[e])
           o == Other(e)
<1>1. Types /\ Stream /\ o \in Ends /\ o # e /\ Other(o) = e
    BY EndsFacts DEF KeysInv
<1>2. \A x \in Ends : state'[x] \in {"Header", "Body"}
    BY <1>1 DEF Connected, Types
<1>3. piece = wire[e][1] /\ piece \in Tagged
    BY <1>1, <1>2, PaddedFacts, ReadInv
<1>4. wire[e] # <<>>
  <2>1. got[e] >= 1
      BY <1>1, PaddedFacts DEF Stream
  <2> QED BY <1>1, <2>1, PieceThere
<1> HIDE DEF piece
<1>5. /\ Len(half.mac) + 1 \in 1 .. Len(mac) /\ mac[Len(half.mac) + 1] = c
      /\ c = [key |-> Secret, pos |-> c.pos, data |-> c.data]
    BY <1>1, <1>3, <1>4, NextEntry DEF piece
<1>6. half \in Keys /\ half.aes = Secret /\ half.pos \in Nat /\ c \in Ciphers
    BY <1>3 DEF Connected, Keys, Tagged
<1>7. ingress[e] # None /\ egress[o] # None /\ egress[e] # None /\ ingress[o] # None
    BY <1>1, KeyedFacts, EndsFacts
<1>8. AtHeader(half, mac, n) /\ Written(egress[o], frames)
    BY <1>1, <1>7 DEF Flow
<1>9. n \in Nat /\ Len(frames) \in Nat
    BY <1>1 DEF Flow
<1>10. Len(half.mac) = 2 * n + 1 /\ half.pos = Offset(mac, n) /\ Len(mac) = 2 * Len(frames) + 1
    BY <1>8 DEF AtHeader, Written
<1>11. n + 1 \in 1 .. Len(frames) /\ 2 * (n + 1) = Len(half.mac) + 1 /\ (n + 1) - 1 = n
    BY <1>5, <1>9, <1>10
<1>12. mac[2 * (n + 1)].pos = Offset(mac, n)
    BY <1>8, <1>11 DEF Written
<1>13. Decipher(half, c) = c.data
  <2>1. c.pos = half.pos
      BY <1>5, <1>10, <1>11, <1>12
  <2> QED BY <1>5, <1>6, <2>1 DEF Decipher, Cipher
<1> DEFINE half2 == Absorb(half, c, Block)
<1>14. half2.pos = half.pos + Block /\ half2.mac = Append(half.mac, c) /\ half2 \in Keys
    BY <1>6, PaddedFacts, AbsorbFacts
<1>15. Len(half2.mac) = Len(half.mac) + 1
    BY <1>6, <1>14 DEF Keys, Macs
<1> HIDE DEF half2
<1>16. /\ ingress'[e] = half2 /\ body_size'[e] = c.data.len /\ state'[e] = "Body"
       /\ ingress'[o] = ingress[o] /\ body_size'[o] = body_size[o] /\ state'[o] = state[o]
    BY <1>1, <1>13 DEF Types, half2, piece
<1>17. AtBody(half2, mac, n, c.data.len)
  <2>1. 2 * n + 2 = Len(half.mac) + 1
      BY <1>9, <1>10
  <2>2. mac[2 * n + 2] = c /\ c.pos = half.pos
      BY <1>5, <1>10, <1>11, <1>12, <2>1
  <2> QED BY <1>14, <1>15, <2>1, <2>2 DEF AtBody
<1>18. half2 # None
    BY <1>14, NoneAssumption
<1>19. ASSUME NEW x \in Ends
       PROVE  /\ egress[x] = None => sent[x] = <<>> /\ received[Other(x)] = <<>>
              /\ ingress'[x] = None => received[x] = <<>>
              /\ egress[x] # None => Written(egress[x], sent[x])
              /\ ingress'[x] # None /\ egress[Other(x)] # None =>
                   LET m == egress[Other(x)].mac
                       k == Len(received[x])
                   IN \/ state'[x] = "Header" /\ AtHeader(ingress'[x], m, k)
                      \/ state'[x] = "Body" /\ AtBody(ingress'[x], m, k, body_size'[x])
  <2>1. CASE x = e
      BY <1>16, <1>17, <1>18, <2>1 DEF Flow
  <2>2. CASE x = o
      BY <1>16, <2>2 DEF Flow
  <2> QED BY <1>1, <2>1, <2>2, EndsFacts
<1>20. Flow'
    BY <1>19 DEF Flow
<1> QED BY <1>4, <1>15, <1>16, <1>20

(***************************************************************************)
(* A body that passes the check is the next frame.                         *)
(***************************************************************************)
LEMMA BodyRead ==
    ASSUME KeysInv, Flow, NEW e \in Ends, Connected, state[e] = "Body",
           NEW size, size = body_len(body_size[e]),
           got[e] >= size, CheckMac(ingress[e], Taken(e, size)),
           ingress' = [ingress EXCEPT ![e] =
                         Absorb(ingress[e], Taken(e, size).cipher, size - Block)],
           received' = [received EXCEPT ![e] =
                          Append(received[e], Decipher(ingress[e], Taken(e, size).cipher))],
           body_size' = [body_size EXCEPT ![e] = None],
           state' = [state EXCEPT ![e] = "Header"],
           Split(e, size), UNCHANGED <<dialed, at, remote, egress, sent>>
    PROVE  LET n == Len(received[e])
           IN /\ Flow' /\ Len(ingress'[e].mac) = Len(ingress[e].mac) + 1 /\ wire[e] # <<>>
              /\ n + 1 <= Len(sent[Other(e)])
              /\ received' = [received EXCEPT ![e] =
                                Append(received[e], sent[Other(e)][n + 1])]
<1> DEFINE piece == Taken(e, size)
           half == ingress[e]
           c == piece.cipher
           mac == egress[Other(e)].mac
           frames == sent[Other(e)]
           n == Len(received[e])
           o == Other(e)
<1>1. Types /\ Stream /\ o \in Ends /\ o # e /\ Other(o) = e
    BY EndsFacts DEF KeysInv
<1>2. \A x \in Ends : state'[x] \in {"Header", "Body"}
    BY <1>1 DEF Connected, Types
<1>3. body_size[e] \in Nat /\ size = Padded(body_size[e]) + Block
      /\ Padded(body_size[e]) \in Nat /\ Block \in Nat /\ size \in Nat /\ size >= 1
    BY <1>1, PaddedFacts DEF Types, body_len
<1>4. size - Block = Padded(body_size[e])
    BY <1>3
<1>5. piece = wire[e][1] /\ piece \in Tagged
    BY <1>1, <1>2, <1>3, <1>4, ReadInv
<1>6. wire[e] # <<>>
  <2>1. got[e] >= 1
      BY <1>1, <1>3 DEF Stream
  <2> QED BY <1>1, <2>1, PieceThere
<1> HIDE DEF piece
<1>7. /\ Len(half.mac) + 1 \in 1 .. Len(mac) /\ mac[Len(half.mac) + 1] = c
      /\ c = [key |-> Secret, pos |-> c.pos, data |-> c.data]
    BY <1>1, <1>5, <1>6, NextEntry DEF piece
<1>8. half \in Keys /\ half.aes = Secret /\ half.pos \in Nat /\ c \in Ciphers
    BY <1>5 DEF Connected, Keys, Tagged
<1>9. ingress[e] # None /\ egress[o] # None /\ egress[e] # None /\ ingress[o] # None
    BY <1>1, KeyedFacts, EndsFacts
<1>10. AtBody(half, mac, n, body_size[e]) /\ Written(egress[o], frames)
    BY <1>1, <1>9 DEF Flow
<1>11. /\ n \in Nat /\ Len(frames) \in Nat /\ received[e] \in Seq(Datas)
       /\ frames \in Seq([no : Nat, len : Nat])
    BY <1>1 DEF Flow
<1>12. /\ Len(half.mac) = 2 * n + 2 /\ half.pos = mac[2 * n + 2].pos + Block
       /\ body_size[e] = mac[2 * n + 2].data.len /\ Len(mac) = 2 * Len(frames) + 1
    BY <1>10 DEF AtBody, Written
<1>13. /\ n + 1 \in 1 .. Len(frames) /\ 2 * (n + 1) + 1 = Len(half.mac) + 1
       /\ 2 * (n + 1) = 2 * n + 2
  <2> HIDE DEF n, mac, frames, half
  <2>1. \A a, b, x, y \in Nat :
          a = 2 * x + 2 /\ b = 2 * y + 1 /\ a + 1 <= b =>
            x + 1 \in 1 .. y /\ 2 * (x + 1) + 1 = a + 1 /\ 2 * (x + 1) = 2 * x + 2
      OBVIOUS
  <2>2. Len(half.mac) \in Nat /\ Len(mac) \in Nat /\ Len(half.mac) + 1 <= Len(mac)
    <3>1. 2 * n + 2 \in Nat /\ 2 * Len(frames) + 1 \in Nat
        BY <1>11
    <3> QED BY <1>7, <1>12, <3>1
  <2> QED BY <1>11, <1>12, <2>1, <2>2
<1>14. /\ mac[2 * (n + 1)].data = Header(frames[n + 1].len)
       /\ mac[2 * (n + 1) + 1].data = frames[n + 1]
       /\ mac[2 * (n + 1) + 1].pos = mac[2 * (n + 1)].pos + Block
    BY <1>10, <1>13 DEF Written
<1>15. c.data = frames[n + 1] /\ c.pos = half.pos /\ body_size[e] = frames[n + 1].len
  <2>1. Header(frames[n + 1].len).len = frames[n + 1].len
      BY DEF Header
  <2> QED BY <1>7, <1>12, <1>13, <1>14, <2>1, ZenonT(60)
<1>16. Decipher(half, c) = frames[n + 1]
    BY <1>7, <1>8, <1>15 DEF Decipher, Cipher
<1> DEFINE half2 == Absorb(half, c, size - Block)
<1>17. /\ half2.pos = half.pos + Padded(body_size[e]) /\ half2.mac = Append(half.mac, c)
       /\ half2 \in Keys
  <2>1. half2 = Absorb(half, c, Padded(body_size[e]))
      BY <1>4
  <2> HIDE DEF half2
  <2> QED BY <1>3, <1>8, <2>1, AbsorbFacts
<1>18. Len(half2.mac) = Len(half.mac) + 1
    BY <1>8, <1>17 DEF Keys, Macs
<1> HIDE DEF half2
<1>19. received' = [received EXCEPT ![e] = Append(received[e], frames[n + 1])]
    BY <1>16 DEF piece
<1>20. /\ ingress'[e] = half2 /\ state'[e] = "Header"
       /\ received'[e] = Append(received[e], frames[n + 1])
       /\ ingress'[o] = ingress[o] /\ body_size'[o] = body_size[o] /\ state'[o] = state[o]
       /\ received'[o] = received[o]
    BY <1>1, <1>19 DEF Types, Flow, half2, piece
<1>21. frames[n + 1] \in Datas
  <2>1. \A S, s : s \in Seq(S) => \A i \in 1 .. Len(s) : s[i] \in S
      OBVIOUS
  <2> HIDE DEF n, frames
  <2>2. frames[n + 1] \in [no : Nat, len : Nat]
      BY <1>11, <1>13, <2>1, Zenon
  <2> QED BY <2>2 DEF Datas
<1>22. received' \in [Ends -> Seq(Datas)] /\ Len(received'[e]) = n + 1
    BY <1>11, <1>19, <1>20, <1>21 DEF Flow
<1>23. AtHeader(half2, mac, n + 1)
  <2>1. Offset(mac, n + 1) = c.pos + Padded(c.data.len)
    <3>1. n + 1 # 0 /\ mac[2 * (n + 1) + 1] = c
        BY <1>7, <1>11, <1>13, SMTT(40)
    <3> QED BY <3>1 DEF Offset
  <2> QED BY <1>13, <1>15, <1>17, <1>18, <2>1 DEF AtHeader
<1>24. half2 # None
    BY <1>17, NoneAssumption
<1>25. ASSUME NEW x \in Ends
       PROVE  /\ egress[x] = None => sent[x] = <<>> /\ received'[Other(x)] = <<>>
              /\ ingress'[x] = None => received'[x] = <<>>
              /\ egress[x] # None => Written(egress[x], sent[x])
              /\ ingress'[x] # None /\ egress[Other(x)] # None =>
                   LET m == egress[Other(x)].mac
                       k == Len(received'[x])
                   IN \/ state'[x] = "Header" /\ AtHeader(ingress'[x], m, k)
                      \/ state'[x] = "Body" /\ AtBody(ingress'[x], m, k, body_size'[x])
  <2>1. CASE x = e
      BY <1>1, <1>9, <1>20, <1>22, <1>23, <1>24, <2>1 DEF Flow
  <2>2. CASE x = o
      BY <1>1, <1>9, <1>20, <2>2 DEF Flow
  <2> QED BY <1>1, <2>1, <2>2, EndsFacts
<1>26. Flow'
    BY <1>22, <1>25 DEF Flow
<1>27. n + 1 <= Len(frames)
    BY <1>11, <1>13
<1> QED BY <1>6, <1>18, <1>19, <1>20, <1>26, <1>27

-----------------------------------------------------------------------------
(* Pieces on their way, step by step.                                       *)

(***************************************************************************)
(* An end leaves.                                                          *)
(***************************************************************************)
LEMMA IntactLeave ==
    ASSUME KeysInv, Intact, NEW e \in Ends, NEW how \in Ended, Leave(e, how),
           UNCHANGED <<remote, ingress, egress, altered>>
    PROVE  Intact'
<1>1. /\ Gone(e)' /\ wire'[e] = <<>> /\ Len(wire'[e]) = 0
      /\ \A x \in Ends : x # e => wire'[x] = wire[x] /\ Gone(x)' = Gone(x)
    BY DEF KeysInv, Types, Stream, Leave, Gone, Ended
<1>2. \A x \in Ends : Read(x)' = Read(x)
    BY DEF Read
<1> QED BY <1>1, <1>2 DEF Intact

(***************************************************************************)
(* Steps without keys: the Auth is written, or read.                       *)
(***************************************************************************)
LEMMA IntactGreeting ==
    ASSUME altered' \in Nat, (Greeting \/ Greeted)',
           wire'[Server] = <<>> \/ wire'[Server] = <<remote'[Client].init_msg>>
    PROVE  Intact'
<1>1. egress'[Client] = None /\ egress'[Server] = None /\ wire'[Client] = <<>>
    BY DEF Greeting, Greeted, NoKeys
<1>2. \A x \in Ends : egress'[Other(x)] = None
    BY <1>1, EndsFacts
<1>3. wire'[Server] # <<>> => wire'[Server][1] = remote'[Client].init_msg
    OBVIOUS
<1> QED BY <1>1, <1>2, <1>3, EndsFacts DEF Intact

(***************************************************************************)
(* The Ack is written.                                                     *)
(***************************************************************************)
LEMMA IntactSendAck ==
    ASSUME KeysInv, Intact, SendAck
    PROVE  Intact'
<1>1. /\ ingress'[Client] = None /\ egress'[Server] = Fresh(Seed(Client, Ack))
      /\ egress'[Client] = None /\ wire'[Server] = <<>>
      /\ wire'[Client] = IF Gone(Client) THEN <<>> ELSE <<Ack>>
    BY SendAckInv
<1>2. UNCHANGED altered /\ (Gone(Client)' <=> Gone(Client))
    BY EndsFacts DEF SendAck, network, KeysInv, Types, Gone
<1>3. Len(egress'[Server].mac) = 1
    BY <1>1 DEF Fresh
<1>4. Read(Client)' = 0
    BY <1>1 DEF Read
<1>5. <<Ack>>[1] = Ack /\ Len(<<Ack>>) = 1 /\ Len(<<>>) = 0
    OBVIOUS
<1>6. /\ ~Gone(Client)' => Read(Client)' + Len(wire'[Client]) = Len(egress'[Server].mac)
      /\ wire'[Client] # <<>> => wire'[Client][1] = Ack
      /\ \A i \in 1 .. Len(wire'[Client]) : ~(Read(Client)' + i >= 2)
    BY <1>1, <1>2, <1>3, <1>4, <1>5
<1> QED BY <1>1, <1>2, <1>5, <1>6, EndsFacts DEF Intact

(***************************************************************************)
(* The first piece is read.                                                *)
(***************************************************************************)
LEMMA IntactTail ==
    ASSUME Stream, Intact, NEW e \in Ends, wire[e] # <<>>, wire'[e] = Tail(wire[e]),
           Read(e) \in Nat, Read(e)' = Read(e) + 1, ingress'[e] # None, ~Gone(e),
           egress[Other(e)] # None, egress'[Other(e)] = egress[Other(e)], UNCHANGED altered
    PROVE  LET mac == egress'[Other(e)].mac
           IN /\ Read(e)' + Len(wire'[e]) = Len(mac)
              /\ altered' = 0 =>
                   \A i \in 1 .. Len(wire'[e]) :
                      Read(e)' + i >= 2 => InPlace(wire'[e][i], mac, Read(e)' + i)
<1> DEFINE mac == egress[Other(e)].mac
           r == Read(e)
<1>1. wire[e] \in Seq(Pieces)
    BY DEF Stream
<1>2. r + Len(wire[e]) = Len(mac)
    BY DEF Intact
<1>3. /\ Len(wire[e]) \in Nat /\ Len(Tail(wire[e])) = Len(wire[e]) - 1
      /\ \A i \in 1 .. Len(wire[e]) - 1 : Tail(wire[e])[i] = wire[e][i + 1]
    BY <1>1
<1> HIDE DEF r
<1>4. Read(e)' + Len(wire'[e]) = Len(mac)
    BY <1>2, <1>3 DEF r
<1>5. ASSUME altered = 0, NEW i \in 1 .. Len(wire[e]) - 1, (r + 1) + i >= 2
      PROVE  InPlace(wire[e][i + 1], mac, (r + 1) + i)
  <2>1. i + 1 \in 1 .. Len(wire[e]) /\ (r + 1) + i = r + (i + 1) /\ r + (i + 1) >= 2
      BY <1>3, <1>5 DEF r
  <2>2. InPlace(wire[e][i + 1], mac, r + (i + 1))
      BY <1>5, <2>1 DEF Intact, r
  <2> QED BY <2>1, <2>2
<1>6. ASSUME altered = 0, NEW i \in 1 .. Len(wire'[e]), Read(e)' + i >= 2
      PROVE  InPlace(wire'[e][i], mac, Read(e)' + i)
  <2>1. i \in 1 .. Len(wire[e]) - 1 /\ wire'[e][i] = wire[e][i + 1]
      BY <1>3
  <2>2. Read(e)' = r + 1
      BY DEF r
  <2> QED BY <1>5, <1>6, <2>1, <2>2
<1> QED BY <1>4, <1>6

(***************************************************************************)
(* The Ack is read.                                                        *)
(***************************************************************************)
LEMMA IntactDecodeAck ==
    ASSUME KeysInv, Intact, DecodeAck, Decrypts(Client)
    PROVE  Intact'
<1>1. /\ Answered /\ Connected' /\ KeysInv'
      /\ ingress'[Client] = Fresh(Seed(Client, Ack))
      /\ egress'[Client] = ingress'[Server] /\ egress'[Server] = egress[Server]
      /\ ingress'[Server] = Fresh(Seed(Server, remote[Client].init_msg))
      /\ wire[Client] # <<>> /\ wire'[Client] = Tail(wire[Client]) /\ wire'[Server] = <<>>
    BY DecodeAckInv
<1>2. /\ ingress[Client] = None /\ egress[Server] # None
      /\ ingress'[Client] # None /\ ingress'[Server] # None
  <2>1. egress[Server] # None
      BY <1>1, NoneAssumption DEF Answered
  <2> QED BY <1>1, <2>1, NoneAssumption, EndsFacts DEF Answered, NoKeys, Connected
<1>3. UNCHANGED altered /\ ~Gone(Client) /\ Stream
    BY DEF DecodeAck, network, Polled, Gone, KeysInv
<1>4. Len(egress'[Client].mac) = 1 /\ Len(ingress'[Client].mac) = 1
    BY <1>1 DEF Fresh
<1>5. Read(Client) = 0 /\ Read(Client)' = 1 /\ Read(Server)' = 1
    BY <1>1, <1>2, <1>4 DEF Read
<1>6. /\ Read(Client)' + Len(wire'[Client]) = Len(egress'[Server].mac)
      /\ altered' = 0 =>
           \A i \in 1 .. Len(wire'[Client]) :
              Read(Client)' + i >= 2 =>
                InPlace(wire'[Client][i], egress'[Server].mac, Read(Client)' + i)
  <2>1. Read(Client) \in Nat /\ Read(Client)' = Read(Client) + 1
      BY <1>5
  <2> QED BY <1>1, <1>2, <1>3, <2>1, EndsFacts, IntactTail
<1>7. Len(wire'[Server]) = 0 /\ Read(Server)' + Len(wire'[Server]) = Len(egress'[Client].mac)
    BY <1>1, <1>4, <1>5
<1>8. ASSUME NEW x \in Ends
      PROVE  /\ ~Gone(x)' /\ egress'[Other(x)] # None =>
                  Read(x)' + Len(wire'[x]) = Len(egress'[Other(x)].mac)
             /\ altered' = 0 =>
                  /\ ingress'[x] = None /\ wire'[x] # <<>> =>
                       wire'[x][1] = IF x = Client THEN Ack ELSE remote'[Client].init_msg
                  /\ \A i \in 1 .. Len(wire'[x]) :
                       egress'[Other(x)] # None /\ Read(x)' + i >= 2 =>
                         InPlace(wire'[x][i], egress'[Other(x)].mac, Read(x)' + i)
  <2>1. CASE x = Client
      BY <1>2, <1>6, <2>1, EndsFacts
  <2>2. CASE x = Server
      BY <1>2, <1>7, <2>2, EndsFacts
  <2> QED BY <2>1, <2>2, EndsFacts
<1> QED BY <1>3, <1>8 DEF Intact

(***************************************************************************)
(* A piece of a frame is read.                                             *)
(***************************************************************************)
LEMMA IntactRead ==
    ASSUME KeysInv, Connected, Intact, NEW e \in Ends, Polled(e), wire[e] # <<>>,
           NEW n, Split(e, n), Connected', UNCHANGED <<at, remote, egress, altered>>,
           Len(ingress'[e].mac) = Len(ingress[e].mac) + 1,
           \A x \in Ends : x # e => ingress'[x] = ingress[x]
    PROVE  Intact'
<1>1. Stream /\ ~Gone(e)
    BY DEF KeysInv, Polled, Gone
<1>2. \A x \in Ends : ingress[x] # None /\ egress[x] # None /\ ingress'[x] # None
    BY NoneAssumption DEF Connected
<1>3. ingress[e].mac \in Seq(Macs) /\ Len(ingress[e].mac) \in Nat
    BY DEF Connected, Keys
<1>4. Read(e) \in Nat /\ Read(e)' = Read(e) + 1 /\ \A x \in Ends : x # e => Read(x)' = Read(x)
    BY <1>2, <1>3 DEF Read
<1>5. wire'[e] = Tail(wire[e]) /\ \A x \in Ends : x # e => wire'[x] = wire[x]
    BY <1>1 DEF Split, Stream
<1>6. /\ Read(e)' + Len(wire'[e]) = Len(egress'[Other(e)].mac)
      /\ altered' = 0 =>
           \A i \in 1 .. Len(wire'[e]) :
              Read(e)' + i >= 2 => InPlace(wire'[e][i], egress'[Other(e)].mac, Read(e)' + i)
    BY <1>1, <1>2, <1>4, <1>5, EndsFacts, IntactTail
<1>7. \A x \in Ends : Gone(x)' = Gone(x)
    BY DEF Gone
<1>8. ASSUME NEW x \in Ends
      PROVE  /\ ~Gone(x)' /\ egress'[Other(x)] # None =>
                  Read(x)' + Len(wire'[x]) = Len(egress'[Other(x)].mac)
             /\ altered' = 0 =>
                  /\ ingress'[x] = None /\ wire'[x] # <<>> =>
                       wire'[x][1] = IF x = Client THEN Ack ELSE remote'[Client].init_msg
                  /\ \A i \in 1 .. Len(wire'[x]) :
                       egress'[Other(x)] # None /\ Read(x)' + i >= 2 =>
                         InPlace(wire'[x][i], egress'[Other(x)].mac, Read(x)' + i)
  <2>1. CASE x = e
      BY <1>2, <1>6, <2>1
  <2>2. CASE x # e
      BY <1>2, <1>4, <1>5, <1>7, <2>2 DEF Intact
  <2> QED BY <2>1, <2>2
<1> QED BY <1>8 DEF Intact

(***************************************************************************)
(* A frame is sent.                                                        *)
(***************************************************************************)
LEMMA IntactSend ==
    ASSUME KeysInv, Flow, Intact, NEW e \in Ends, NEW len \in Lengths, StartSend(e, len)
    PROVE  Intact'
<1> DEFINE frame == [no |-> Len(sent[e]) + 1, len |-> len]
           f == Framed(egress[e], frame)
           o == Other(e)
           mac == egress[e].mac
           a == f.pieces[1]
           b == f.pieces[2]
<1>1. Types /\ Stream /\ o \in Ends /\ o # e /\ Other(o) = e
    BY EndsFacts DEF KeysInv
<1>2. /\ at[e] = "open"
      /\ egress' = [egress EXCEPT ![e] = f.half]
      /\ WriteTo(o, f.pieces)
      /\ UNCHANGED <<at, remote, ingress, altered>>
    BY DEF StartSend, Encode, network
<1>3. sent[e] \in Seq([no : Nat, len : Nat]) /\ frame \in [no : Nat, len : Nat]
      /\ frame \in Datas
    BY EciesAssumption DEF Flow, Datas
<1>4. egress[e] # None /\ egress[e] \in Keys /\ mac \in Seq(Macs)
  <2>1. (Answered /\ e = Server) \/ Connected
      BY <1>2, EndsFacts DEF KeysInv, Greeting, Greeted, Answered, AuthSent, Ended
  <2>2. ingress[e] # None
      BY <2>1, KeyedFacts, EndsFacts
  <2> QED BY <2>2, KeyedFacts DEF Keys
<1>5. Written(egress[e], sent[e])
    BY <1>4 DEF Flow
<1> HIDE DEF frame
<1>6. /\ Len(f.half.mac) = Len(mac) + 2
      /\ \A j \in 1 .. Len(mac) : f.half.mac[j] = mac[j]
      /\ InPlace(a, f.half.mac, Len(mac) + 1)
      /\ InPlace(b, f.half.mac, Len(mac) + 2)
    BY <1>3, <1>4, <1>5, WrittenAppend
<1>7. f.pieces = <<a, b>>
    BY <1>3, <1>4, FramedFacts, ZenonT(60)
<1> HIDE DEF f, a, b
<1>8. /\ egress'[e] = f.half /\ egress'[o] = egress[o]
      /\ wire'[e] = wire[e]
      /\ wire'[o] = IF Gone(o) THEN <<>> ELSE wire[o] \o <<a, b>>
    BY <1>1, <1>2, <1>7 DEF Types, Stream, WriteTo
<1>9. \A x \in Ends : Read(x)' = Read(x) /\ Gone(x)' = Gone(x)
    BY <1>2 DEF Read, Gone
<1>10. Read(o) \in Nat
    BY <1>1, KeyedFacts DEF Read, Keys
<1> DEFINE r == Read(o)
           L == Len(wire[o])
<1>11. CASE ~Gone(o)
  <2>1. wire[o] \in Seq(Pieces) /\ L \in Nat /\ Len(mac) \in Nat
      BY <1>1, <1>4 DEF Stream
  <2>2. r + L = Len(mac)
      BY <1>1, <1>4, <1>11 DEF Intact
  <2>3. wire'[o] = wire[o] \o <<a, b>>
      BY <1>8, <1>11
  <2>4. /\ Len(wire'[o]) = L + 2 /\ wire'[o][L + 1] = a /\ wire'[o][L + 2] = b
        /\ \A i \in 1 .. L : wire'[o][i] = wire[o][i]
    <3>1. \A S, s, x, y : s \in Seq(S) =>
            /\ Len(s \o <<x, y>>) = Len(s) + 2
            /\ (s \o <<x, y>>)[Len(s) + 1] = x /\ (s \o <<x, y>>)[Len(s) + 2] = y
            /\ \A i \in 1 .. Len(s) : (s \o <<x, y>>)[i] = s[i]
        OBVIOUS
    <3> DEFINE w == wire[o]
    <3>2. w \in Seq(Pieces)
        BY <2>1
    <3> HIDE DEF w
    <3>3. /\ Len(w \o <<a, b>>) = Len(w) + 2
          /\ (w \o <<a, b>>)[Len(w) + 1] = a /\ (w \o <<a, b>>)[Len(w) + 2] = b
          /\ \A i \in 1 .. Len(w) : (w \o <<a, b>>)[i] = w[i]
        BY <3>1, <3>2
    <3> QED BY <2>3, <3>3 DEF w
  <2>5. r \in Nat
      BY <1>10
  <2> HIDE DEF r, L, mac
  <2>6. r + Len(wire'[o]) = Len(f.half.mac)
    <3>1. \A k, l, m \in Nat : k + l = m => k + (l + 2) = m + 2
        OBVIOUS
    <3> QED BY <1>6, <2>1, <2>2, <2>4, <2>5, <3>1
  <2>7. ASSUME altered = 0, NEW i \in 1 .. Len(wire'[o]), r + i >= 2
        PROVE  InPlace(wire'[o][i], f.half.mac, r + i)
    <3>1. CASE i \in 1 .. L
      <4>1. InPlace(wire[o][i], mac, r + i)
          BY <1>1, <1>4, <2>7, <3>1 DEF Intact, r, L, mac
      <4>2. r + i \in 1 .. Len(mac)
          BY <2>1, <2>2, <2>5, <3>1
      <4> QED BY <1>6, <2>4, <3>1, <4>1, <4>2 DEF InPlace
    <3>2. CASE i = L + 1
      <4>1. r + i = Len(mac) + 1
          BY <2>1, <2>2, <2>5, <3>2
      <4> QED BY <1>6, <2>4, <3>2, <4>1
    <3>3. CASE i = L + 2
      <4>1. r + i = Len(mac) + 2
          BY <2>1, <2>2, <2>5, <3>3
      <4> QED BY <1>6, <2>4, <3>3, <4>1
    <3> QED BY <2>1, <2>4, <3>1, <3>2, <3>3
  <2>8. ASSUME altered = 0, ingress[o] = None
        PROVE  wire'[o][1] = IF o = Client THEN Ack ELSE remote[Client].init_msg
    <3>1. r = 0 /\ Len(mac) >= 1
        BY <1>3, <1>5, <2>8 DEF Read, Written, r, mac
    <3>2. 1 \in 1 .. L /\ wire[o] # <<>>
        BY <2>1, <2>2, <3>1 DEF L
    <3> QED BY <1>1, <2>4, <2>8, <3>2 DEF Intact
  <2>9. ASSUME NEW x \in Ends
        PROVE  /\ ~Gone(x)' /\ egress'[Other(x)] # None =>
                    Read(x)' + Len(wire'[x]) = Len(egress'[Other(x)].mac)
               /\ altered' = 0 =>
                    /\ ingress'[x] = None /\ wire'[x] # <<>> =>
                         wire'[x][1] = IF x = Client THEN Ack ELSE remote'[Client].init_msg
                    /\ \A i \in 1 .. Len(wire'[x]) :
                         egress'[Other(x)] # None /\ Read(x)' + i >= 2 =>
                           InPlace(wire'[x][i], egress'[Other(x)].mac, Read(x)' + i)
    <3>1. CASE x = o
        BY <1>1, <1>2, <1>8, <1>9, <2>6, <2>7, <2>8, <3>1 DEF r
    <3>2. CASE x = e
        BY <1>1, <1>2, <1>8, <1>9, <3>2 DEF Intact
    <3> QED BY <1>1, <3>1, <3>2, EndsFacts
  <2> QED BY <1>2, <2>9 DEF Intact
<1>12. CASE Gone(o)
  <2>1. wire'[o] = <<>> /\ Len(wire'[o]) = 0
      BY <1>8, <1>12
  <2> QED BY <1>1, <1>2, <1>8, <1>9, <1>12, <2>1, EndsFacts DEF Intact
<1> QED BY <1>11, <1>12

(***************************************************************************)
(* A piece is altered.                                                     *)
(***************************************************************************)
LEMMA IntactAlter ==
    ASSUME KeysInv, Intact, NEW e \in Ends, Alter(e)
    PROVE  Intact' /\ altered' > 0
<1>1. altered' \in Nat /\ altered' # 0 /\ altered' > 0
    BY DEF Alter, Intact
<1>2. UNCHANGED <<at, remote, ingress, egress>>
    BY DEF Alter
<1>3. CASE UNCHANGED wire
    BY <1>1, <1>2, <1>3 DEF Intact, Read, Gone
<1>3a. SUFFICES ASSUME NEW i \in 1 .. Len(wire[e]),
                      wire' = [wire EXCEPT ![e][i].cipher.data = Noise]
               PROVE  Intact'
    BY <1>1, <1>3 DEF Alter
<1>4. wire' = [wire EXCEPT ![e] = [wire[e] EXCEPT ![i] = Garbled(wire[e][i])]]
    BY <1>3a DEF Garbled
<1>5. \A x \in Ends : wire[x] \in Seq(Pieces)
    BY DEF KeysInv, Stream
<1>6. \A x \in Ends : Len(wire'[x]) = Len(wire[x])
  <2>1. Len([wire[e] EXCEPT ![i] = Garbled(wire[e][i])]) = Len(wire[e])
    <3>1. wire[e][i] \in Pieces
        BY <1>5
    <3>2. Garbled(wire[e][i]) \in Pieces
        BY <3>1, PieceFacts
    <3> QED BY <1>5, <3>2
  <2> QED BY <1>4, <2>1 DEF KeysInv, Stream
<1>7. \A x \in Ends : Read(x)' = Read(x) /\ Gone(x)' = Gone(x)
    BY <1>2 DEF Read, Gone
<1> QED BY <1>1, <1>2, <1>6, <1>7, EndsFacts DEF Intact

-----------------------------------------------------------------------------
(* The invariant of the frames, step by step.                               *)

\* The inductive invariant.
FlowInv == KeysInv /\ Flow /\ Intact

(***************************************************************************)
(* A piece that nobody altered passes the check.                           *)
(***************************************************************************)
LEMMA TagRight ==
    ASSUME KeysInv, Intact, Connected, NEW e \in Ends, ~Gone(e), wire[e] # <<>>,
           altered = 0, Len(ingress[e].mac) >= 1
    PROVE  LET mac == egress[Other(e)].mac
               j   == Len(ingress[e].mac) + 1
           IN /\ CheckMac(ingress[e], wire[e][1])
              /\ j \in 1 .. Len(mac)
              /\ InPlace(wire[e][1], mac, j)
<1> DEFINE mac == egress[Other(e)].mac
           half == ingress[e]
           m == Len(half.mac)
           piece == wire[e][1]
<1>1. Stream /\ Other(e) \in Ends
    BY EndsFacts DEF KeysInv
<1>2. ingress[e] # None /\ egress[Other(e)] # None
    BY <1>1, NoneAssumption DEF Connected
<1>3. half.mac \in Seq(Macs) /\ mac \in Seq(Macs) /\ m \in Nat /\ m >= 1 /\ Len(mac) \in Nat
    BY <1>1 DEF Connected, Keys
<1>4. wire[e] \in Seq(Pieces) /\ Len(wire[e]) \in Nat /\ Len(wire[e]) >= 1
    BY <1>1 DEF Stream
<1>5. piece \in Tagged /\ Begins(piece.tag, mac)
    BY <1>4 DEF Connected
<1>6. Read(e) = m
    BY <1>2 DEF Read
<1> HIDE DEF m, mac, piece
<1>7. m + Len(wire[e]) = Len(mac)
    BY <1>2, <1>6 DEF Intact, mac
<1>8. m + 1 >= 2 /\ m + 1 \in 1 .. Len(mac)
    BY <1>3, <1>4, <1>7
<1>9. InPlace(piece, mac, m + 1)
  <2>1. 1 \in 1 .. Len(wire[e])
      BY <1>4
  <2> QED BY <1>2, <1>6, <1>8, <2>1 DEF Intact, mac, piece
<1>10. piece.tag \in Seq(Macs) /\ piece.cipher \in Macs
    BY <1>5 DEF Tagged, Macs
<1>11. Len(piece.tag) = m + 1 /\ piece.cipher = mac[m + 1]
    BY <1>9 DEF InPlace
<1>12. piece.tag = Append(half.mac, piece.cipher)
  <2> DEFINE t == Append(half.mac, piece.cipher)
  <2>1. /\ t \in Seq(Macs) /\ Len(t) = m + 1 /\ t[m + 1] = piece.cipher
        /\ \A i \in 1 .. m : t[i] = half.mac[i]
      BY <1>3, <1>10 DEF m
  <2>2. \A i \in 1 .. m : half.mac[i] = mac[i]
    <3>1. Begins(half.mac, mac)
        BY <1>1, EndsFacts DEF Connected, mac
    <3> QED BY <3>1 DEF Begins, m
  <2>3. \A i \in 1 .. m + 1 : piece.tag[i] = mac[i]
      BY <1>5, <1>11 DEF Begins
  <2>4. \A i \in 1 .. m + 1 : t[i] = piece.tag[i]
    <3> SUFFICES ASSUME NEW i \in 1 .. m + 1 PROVE t[i] = piece.tag[i]
        OBVIOUS
    <3>1. i \in 1 .. m \/ i = m + 1
        BY <1>3
    <3> HIDE DEF t
    <3> QED BY <1>11, <2>1, <2>2, <2>3, <3>1
  <2> HIDE DEF t
  <2>5. t = piece.tag
      BY <1>10, <1>11, <2>1, <2>4, SeqEqual
  <2> QED BY <2>5 DEF t
<1> QED BY <1>8, <1>9, <1>12 DEF CheckMac, m, mac, piece

(***************************************************************************)
(* Unless something was altered, the decoder takes as many bytes off its   *)
(* buffer as the next piece has, and its tag is right.                     *)
(***************************************************************************)
LEMMA TakenRight ==
    ASSUME FlowInv, Connected, NEW e \in Ends, Polled(e), altered = 0,
           NEW size, size \in Nat, size >= 1, got[e] >= size,
           \/ state[e] = "Header" /\ size = header_len
           \/ state[e] = "Body" /\ size = body_len(body_size[e])
    PROVE  CheckMac(ingress[e], Taken(e, size))
<1> DEFINE mac == egress[Other(e)].mac
           half == ingress[e]
           frames == sent[Other(e)]
           n == Len(received[e])
           piece == wire[e][1]
           j == Len(half.mac) + 1
<1>1. KeysInv /\ Flow /\ Intact /\ Types /\ Stream /\ Other(e) \in Ends /\ ~Gone(e)
    BY EndsFacts DEF FlowInv, KeysInv, Polled, Gone
<1>2. wire[e] # <<>> /\ Head(wire[e]) = piece
  <2>1. got[e] >= 1
      BY <1>1 DEF Stream
  <2> QED BY <1>1, <2>1, PieceThere
<1>3. ingress[e] # None /\ egress[Other(e)] # None
    BY <1>1, KeyedFacts, EndsFacts
<1>4. /\ \/ state[e] = "Header" /\ AtHeader(half, mac, n)
         \/ state[e] = "Body" /\ AtBody(half, mac, n, body_size[e])
      /\ Written(egress[Other(e)], frames)
    BY <1>1, <1>3 DEF Flow
<1>5. n \in Nat /\ Len(frames) \in Nat /\ frames \in Seq([no : Nat, len : Nat])
    BY <1>1 DEF Flow
<1>6. Len(mac) = 2 * Len(frames) + 1
    BY <1>4 DEF Written
<1>7. Len(half.mac) >= 1
    BY <1>4, <1>5 DEF AtHeader, AtBody
<1>8. CheckMac(half, piece) /\ j \in 1 .. Len(mac) /\ InPlace(piece, mac, j)
    BY <1>1, <1>2, <1>7, TagRight
<1>9. piece.size = IF mac[j].data.no = -1 THEN header_len ELSE body_len(mac[j].data.len)
    BY <1>8 DEF InPlace
<1> HIDE DEF mac, frames, n, piece
<1>10. CASE state[e] = "Header"
  <2>1. Len(half.mac) = 2 * n + 1 /\ size = header_len
      BY <1>4, <1>10 DEF AtHeader
  <2>2. n + 1 \in 1 .. Len(frames) /\ 2 * (n + 1) = j
      BY <1>5, <1>6, <1>8, <2>1
  <2>3. mac[j].data = Header(frames[n + 1].len)
      BY <1>4, <2>2 DEF Written, mac
  <2>4. piece.size = header_len
      BY <1>9, <2>3 DEF Header
  <2> QED BY <1>2, <1>8, <2>1, <2>4 DEF Taken
<1>11. CASE state[e] = "Body"
  <2>1. Len(half.mac) = 2 * n + 2 /\ size = body_len(body_size[e])
        /\ body_size[e] = mac[2 * n + 2].data.len
      BY <1>4, <1>11 DEF AtBody
  <2>2. n + 1 \in 1 .. Len(frames) /\ 2 * (n + 1) + 1 = j /\ 2 * (n + 1) = 2 * n + 2
      BY <1>5, <1>6, <1>8, <2>1, SMTT(40)
  <2>3. mac[j].data = frames[n + 1] /\ mac[2 * n + 2].data = Header(frames[n + 1].len)
      BY <1>4, <2>2 DEF Written, mac
  <2>4. frames[n + 1].no \in Nat
    <3>1. \A S, s : s \in Seq(S) => \A i \in 1 .. Len(s) : s[i] \in S
        OBVIOUS
    <3>2. frames[n + 1] \in [no : Nat, len : Nat]
        BY <1>5, <2>2, <3>1, Zenon
    <3> QED BY <3>2
  <2>5. frames[n + 1].no # -1
      BY <2>4
  <2>6. piece.size = body_len(frames[n + 1].len)
      BY <1>9, <2>3, <2>5
  <2>7. body_size[e] = frames[n + 1].len
      BY <2>1, <2>3 DEF Header
  <2> QED BY <1>2, <1>8, <2>1, <2>6, <2>7 DEF Taken
<1> QED BY <1>10, <1>11

\* An end leaves and nothing else changes.
Departure(e, how) ==
    /\ Leave(e, how)
    /\ UNCHANGED <<dialed, resized, cut, altered, state, remote, ingress, egress, body_size,
                   sent, received>>

\* A handshake message is not accepted, and why.
Rejected(e, how) ==
    /\ Departure(e, how)
    /\ altered > 0 \/ dialed # Server \/ resized[e] # None
    /\ how = "panicked" => resized[e] # None /\ ingress[e] = None

(***************************************************************************)
(* An end leaves.                                                          *)
(***************************************************************************)
LEMMA FlowLeave ==
    ASSUME FlowInv, NEW e \in Ends, NEW how \in Ended, Departure(e, how)
    PROVE  FlowInv'
<1>1. KeysInv'
    BY LeaveInv DEF FlowInv, Departure
<1>2. Flow'
    BY FlowQuiet DEF FlowInv, Departure
<1>3. Intact'
    BY IntactLeave DEF FlowInv, Departure
<1> QED BY <1>1, <1>2, <1>3 DEF FlowInv

(***************************************************************************)
(* The Auth is read, unless it or its size was altered or it was meant for *)
(* another node.                                                           *)
(***************************************************************************)
LEMMA FlowDecodeAuth ==
    ASSUME FlowInv, DecodeAuth
    PROVE  /\ FlowInv' /\ UNCHANGED <<sent, received>>
           /\ \/ \E how \in {"failed", "panicked"} : Rejected(Server, how)
              \/ at' = [at EXCEPT ![Server] = "reply"] /\ UNCHANGED ingress
<1> DEFINE auth == Head(wire[Server])
<1>1. KeysInv /\ Flow /\ Intact /\ Types
    BY DEF FlowInv, KeysInv
<1>2. /\ KeysInv' /\ Greeting /\ (Decrypts(Server) => Greeted')
      /\ wire[Server] # <<>> /\ auth = wire[Server][1]
    BY <1>1, DecodeAuthInv
<1>3. UNCHANGED <<dialed, resized, cut, altered, ingress, egress, body_size, sent, received>>
    BY DEF DecodeAuth, network
<1>4. CASE ~Decrypts(Server)
  <2>1. PICK how \in {"failed", "panicked"} :
          Leave(Server, how) /\ (how = "panicked" => total_size(Server) < Fixed)
      BY <1>4 DEF DecodeAuth, DecryptFails
  <2>2. Departure(Server, how)
      BY <1>3, <1>4, <2>1 DEF DecodeAuth, Departure
  <2>3. FlowInv'
      BY <2>2, FlowLeave, EndsFacts DEF Ended
  <2>4. AuthSent /\ ingress[Server] = None
        /\ (auth = remote[Client].init_msg \/ auth = Garbled(remote[Client].init_msg))
    <3>1. \A a : <<a>>[1] = a
        OBVIOUS
    <3> QED BY <1>2, <3>1 DEF Greeting, NoKeys
  <2>5. PICK size \in AuthSizes : remote[Client].init_msg = Auth(dialed, size)
      BY <2>4 DEF AuthSent
  <2>6. auth.size = size /\ size \in Nat /\ size > Fixed /\ Fixed \in Nat
    <3>1. Auth(dialed, size) \in Auths /\ Auth(dialed, size).size = size
        BY <1>1, HandshakeMessages DEF Auths, Types, Auth, Message
    <3>2. Garbled(Auth(dialed, size)).size = size
        BY <3>1, HandshakeMessages, GarbledFacts
    <3> QED BY <2>4, <2>5, <3>1, <3>2, EciesAssumption
  <2>7. how = "panicked" => resized[Server] # None
      BY <2>1, <2>6 DEF total_size
  <2>8. altered > 0 \/ dialed # Server \/ resized[Server] # None
    <3> SUFFICES ASSUME altered = 0, dialed = Server, resized[Server] = None
                 PROVE  Decrypts(Server)
        BY <1>1, <1>4 DEF Intact
    <3>1. auth = remote[Client].init_msg
        BY <1>1, <1>2, <2>4, EndsFacts DEF Intact
    <3>2. auth.cipher.to = Server /\ auth.cipher.data = create_auth(Client, Server)
        BY <2>5, <3>1, HandshakeMessages
    <3>3. create_auth(Client, Server) # Noise
      <4>1. "sig" \in DOMAIN create_auth(Client, Server) /\ "sig" \notin DOMAIN Noise
          BY DEF create_auth, Noise
      <4> QED BY <4>1
    <3> QED BY <3>2, <3>3 DEF Opens, Decrypts, total_size
  <2>9. Rejected(Server, how)
      BY <2>2, <2>4, <2>7, <2>8 DEF Rejected
  <2> QED BY <1>3, <2>3, <2>9
<1>5. CASE Decrypts(Server)
  <2>1. /\ at' = [at EXCEPT ![Server] = "reply"] /\ state' = [state EXCEPT ![Server] = "Header"]
      BY <1>5 DEF DecodeAuth
  <2>2. Greeted' /\ altered' \in Nat
      BY <1>1, <1>2, <1>3, <1>5 DEF Intact
  <2>3. Intact'
      BY <2>2, IntactGreeting DEF Greeted
  <2>4. \A e \in Ends : ingress[e] = None
      BY <1>2, EndsFacts DEF Greeting, NoKeys
  <2>5. Flow'
      BY <1>1, <1>3, <2>4, FlowQuiet
  <2> QED BY <1>2, <1>3, <2>1, <2>3, <2>5 DEF FlowInv
<1> QED BY <1>4, <1>5

(***************************************************************************)
(* The Ack is written.                                                     *)
(***************************************************************************)
LEMMA FlowSendAck ==
    ASSUME FlowInv, SendAck
    PROVE  FlowInv' /\ ingress'[Server] # None
<1>1. KeysInv /\ Flow /\ Intact /\ Types
    BY DEF FlowInv, KeysInv
<1>2. /\ KeysInv' /\ Greeted
      /\ ingress'[Server] \in Keys /\ ingress'[Client] = None
      /\ egress'[Server] = Fresh(Seed(Client, Ack)) /\ egress'[Client] = None
    BY <1>1, SendAckInv
<1>3. Intact'
    BY <1>1, IntactSendAck
<1>4. UNCHANGED <<sent, received>>
    BY DEF SendAck
<1>5. \A e \in Ends : sent[e] = <<>> /\ received[e] = <<>>
    BY <1>1, <1>2, EndsFacts DEF Flow, Greeted, NoKeys
<1>6. Written(egress'[Server], sent'[Server])
  <2>1. egress'[Server].pos = 0 /\ Len(egress'[Server].mac) = 1
      BY <1>2 DEF Fresh
  <2>2. Len(sent'[Server]) = 0
      BY <1>4, <1>5, EndsFacts
  <2> QED BY <2>1, <2>2 DEF Written, Offset
<1>7. Flow'
    BY <1>1, <1>2, <1>4, <1>5, <1>6, EndsFacts DEF Flow
<1> QED BY <1>2, <1>3, <1>7, NoneAssumption DEF FlowInv

(***************************************************************************)
(* The Ack is read, unless it was altered.                                 *)
(***************************************************************************)
LEMMA FlowDecodeAck ==
    ASSUME FlowInv, DecodeAck
    PROVE  /\ FlowInv' /\ UNCHANGED <<sent, received>>
           /\ \/ \E how \in {"failed", "panicked"} : Rejected(Client, how)
              \/ /\ Answered /\ Connected'
                 /\ at' = [at EXCEPT ![Client] = "open"]
                 /\ ingress'[Server] = ingress[Server]
<1> DEFINE ack == Head(wire[Client])
<1>1. KeysInv /\ Flow /\ Intact /\ Types /\ Stream
    BY DEF FlowInv, KeysInv
<1>2. UNCHANGED <<dialed, resized, cut, altered, body_size, sent, received>>
    BY DEF DecodeAck, network
<1>3. CASE ~Decrypts(Client)
  <2>1. PICK how \in {"failed", "panicked"} :
          Leave(Client, how) /\ (how = "panicked" => total_size(Client) < Fixed)
      BY <1>3 DEF DecodeAck, DecryptFails
  <2>2. Departure(Client, how)
      BY <1>2, <1>3, <2>1 DEF DecodeAck, Departure
  <2>3. FlowInv'
      BY <2>2, FlowLeave, EndsFacts DEF Ended
  <2>4. got[Client] >= 1 /\ state[Client] = "Ack" /\ ~Gone(Client)
      BY <1>1, EndsFacts DEF DecodeAck, MessageArrived, Enough, Prefix, Stream, Polled, Gone
  <2>5. wire[Client] # <<>> /\ ack = wire[Client][1]
      BY <1>1, <2>4, EndsFacts, PieceThere
  <2>6. Answered
      BY <1>1, <2>4, <2>5, EndsFacts DEF KeysInv, Greeting, Greeted, Connected
  <2>7. ingress[Client] = None /\ ack \in {Ack, Garbled(Ack)}
      BY <2>4, <2>5, <2>6 DEF Answered, NoKeys
  <2>8. ack.size = AckSize /\ AckSize \in Nat /\ AckSize > Fixed /\ Fixed \in Nat
    <3>1. Ack.size = AckSize
        BY DEF Ack, Message
    <3>2. Garbled(Ack).size = AckSize
        BY <3>1, HandshakeMessages, GarbledFacts
    <3> QED BY <2>7, <3>1, <3>2, EciesAssumption
  <2>9. how = "panicked" => resized[Client] # None
      BY <2>1, <2>8 DEF total_size
  <2>10. altered > 0 \/ resized[Client] # None
    <3> SUFFICES ASSUME altered = 0, resized[Client] = None PROVE Decrypts(Client)
        BY <1>1, <1>3 DEF Intact
    <3>1. ack = Ack
        BY <1>1, <2>5, <2>7, EndsFacts DEF Intact
    <3>2. create_ack(Server) # Noise
      <4>1. "ephemeral" \in DOMAIN create_ack(Server) /\ "ephemeral" \notin DOMAIN Noise
          BY DEF create_ack, Noise
      <4> QED BY <4>1
    <3> QED BY <3>1, <3>2, HandshakeMessages DEF Opens, Decrypts, total_size
  <2>11. Rejected(Client, how)
      BY <2>2, <2>7, <2>9, <2>10 DEF Rejected
  <2> QED BY <1>2, <2>3, <2>11
<1>4. CASE Decrypts(Client)
  <2>1. /\ KeysInv' /\ Answered /\ Connected'
        /\ ingress'[Client] = Fresh(Seed(Client, Ack))
        /\ ingress'[Server] = Fresh(Seed(Server, remote[Client].init_msg))
        /\ egress'[Client] = ingress'[Server] /\ egress'[Server] = egress[Server]
        /\ state'[Client] = "Header" /\ state'[Server] = "Header"
      BY <1>1, <1>4, DecodeAckInv
  <2>2. Intact'
      BY <1>1, <1>4, IntactDecodeAck
  <2>3. at' = [at EXCEPT ![Client] = "open"]
      BY <1>4 DEF DecodeAck
  <2>4. /\ ingress[Client] = None /\ egress[Client] = None
        /\ ingress'[Client] # None /\ ingress'[Server] # None /\ egress[Server] # None
        /\ ingress'[Server] = ingress[Server]
      BY <2>1, NoneAssumption, EndsFacts DEF Answered, NoKeys, Connected
  <2>5. sent[Client] = <<>> /\ received[Server] = <<>> /\ received[Client] = <<>>
        /\ Written(egress[Server], sent[Server])
      BY <1>1, <2>4, EndsFacts DEF Flow
  <2>6. Written(egress'[Client], sent[Client])
    <3>1. egress'[Client].pos = 0 /\ Len(egress'[Client].mac) = 1
        BY <2>1 DEF Fresh
    <3>2. Len(sent[Client]) = 0
        BY <2>5
    <3> QED BY <3>1, <3>2 DEF Written, Offset
  <2>7. \A mac : AtHeader(ingress'[Client], mac, 0) /\ AtHeader(ingress'[Server], mac, 0)
      BY <2>1 DEF AtHeader, Fresh, Offset
  <2>8. Len(received[Client]) = 0 /\ Len(received[Server]) = 0
      BY <2>5
  <2>9. ASSUME NEW x \in Ends
        PROVE  /\ egress'[x] # None /\ ingress'[x] # None /\ egress'[Other(x)] # None
               /\ Written(egress'[x], sent[x])
               /\ state'[x] = "Header"
               /\ AtHeader(ingress'[x], egress'[Other(x)].mac, Len(received[x]))
    <3>1. CASE x = Client
        BY <2>1, <2>4, <2>6, <2>7, <2>8, <3>1, EndsFacts
    <3>2. CASE x = Server
        BY <2>1, <2>4, <2>5, <2>7, <2>8, <3>2, EndsFacts
    <3> QED BY <3>1, <3>2, EndsFacts
  <2>10. Flow'
      BY <1>1, <1>2, <2>9 DEF Flow
  <2> QED BY <1>2, <2>1, <2>2, <2>3, <2>4, <2>10 DEF FlowInv
<1> QED BY <1>3, <1>4

(***************************************************************************)
(* A header is read, unless something was altered; no unwrap panics.       *)
(***************************************************************************)
LEMMA FlowDecodeHeader ==
    ASSUME FlowInv, NEW e \in Ends, DecodeHeader(e)
    PROVE  /\ FlowInv' /\ UNCHANGED <<sent, received>>
           /\ \/ Departure(e, "failed") /\ altered > 0 /\ Connected
              \/ UNCHANGED at /\ Connected /\ Connected'
<1> DEFINE header == Taken(e, header_len)
           half == ingress[e]
<1>1. KeysInv /\ Flow /\ Intact /\ Types /\ Stream
    BY DEF FlowInv, KeysInv
<1>2. /\ Polled(e) /\ state[e] = "Header" /\ got[e] >= header_len
      /\ UNCHANGED <<dialed, resized, cut, altered, remote, egress, sent, received>>
    BY DEF DecodeHeader, Enough, network
<1>3. Connected
  <2>1. got[e] >= 1
      BY <1>1, <1>2, PaddedFacts DEF Stream
  <2> QED BY <1>1, <1>2, <2>1, ReadersConnected
<1>4. ingress[e] # None
    BY <1>3, NoneAssumption DEF Connected
<1>5. CASE ~CheckMac(half, header)
  <2>1. Departure(e, "failed")
      BY <1>2, <1>4, <1>5 DEF DecodeHeader, Departure
  <2>2. FlowInv'
      BY <2>1, FlowLeave DEF Ended
  <2>3. altered > 0
    <3>1. header_len \in Nat /\ header_len >= 1
        BY PaddedFacts
    <3>2. altered # 0
        BY <1>2, <1>3, <1>5, <3>1, TakenRight
    <3> QED BY <1>1, <3>2 DEF Intact
  <2> QED BY <1>2, <1>3, <2>1, <2>2, <2>3
<1>6. CASE CheckMac(half, header)
  <2>1. /\ ingress' = [ingress EXCEPT ![e] = Absorb(half, header.cipher, Block)]
        /\ body_size' = [body_size EXCEPT ![e] = Decipher(half, header.cipher).len]
        /\ state' = [state EXCEPT ![e] = "Body"]
        /\ Split(e, header_len) /\ UNCHANGED at
      BY <1>4, <1>6 DEF DecodeHeader
  <2>2. Flow' /\ Len(ingress'[e].mac) = Len(half.mac) + 1 /\ wire[e] # <<>>
      BY <1>1, <1>2, <1>3, <1>6, <2>1, HeaderRead
  <2>3. KeysInv'
      BY <1>1, DecodeHeaderInv
  <2>4. Connected'
    <3>1. \A x \in Ends : state'[x] \in {"Header", "Body"}
        BY <1>1, <1>3, <2>1 DEF Connected, Types
    <3> QED BY <1>1, <1>2, <1>3, <1>6, <2>1, <3>1, PaddedFacts, ReadInv
  <2>5. \A x \in Ends : x # e => ingress'[x] = ingress[x]
      BY <1>1, <2>1 DEF Types
  <2>6. Intact'
      BY <1>1, <1>2, <1>3, <2>1, <2>2, <2>4, <2>5, IntactRead
  <2> QED BY <1>2, <1>3, <2>1, <2>2, <2>3, <2>4, <2>6 DEF FlowInv
<1> QED BY <1>5, <1>6

(***************************************************************************)
(* The next frame is handed out, unless something was altered.             *)
(***************************************************************************)
LEMMA FlowDecodeBody ==
    ASSUME FlowInv, NEW e \in Ends, DecodeBody(e)
    PROVE  LET n == Len(received[e]) + 1 IN
           /\ FlowInv' /\ UNCHANGED sent
           /\ \/ Departure(e, "failed") /\ altered > 0 /\ Connected
              \/ /\ UNCHANGED at /\ Connected /\ Connected' /\ at[e] = "open"
                 /\ n <= Len(sent[Other(e)])
                 /\ received' = [received EXCEPT ![e] = Append(received[e], sent[Other(e)][n])]
<1> DEFINE size == body_len(body_size[e])
           body == Taken(e, size)
           half == ingress[e]
           n == Len(received[e]) + 1
<1>1. KeysInv /\ Flow /\ Intact /\ Types /\ Stream
    BY DEF FlowInv, KeysInv
<1>2. /\ Polled(e) /\ state[e] = "Body" /\ got[e] >= size
      /\ UNCHANGED <<dialed, resized, cut, altered, remote, egress, sent>>
    BY DEF DecodeBody, Enough, network
<1>3. body_size[e] \in Nat
    BY <1>1, <1>2 DEF Types
<1>4. size \in Nat /\ size >= 1 /\ size - Block \in Nat
  <2>1. size = Padded(body_size[e]) + Block /\ Padded(body_size[e]) \in Nat
      BY <1>3, PaddedFacts DEF body_len
  <2> HIDE DEF size
  <2> QED BY <2>1, PaddedFacts
<1>5. Connected /\ at[e] = "open"
  <2>1. got[e] >= 1
      BY <1>1, <1>2, <1>4 DEF Stream
  <2>2. Connected
      BY <1>1, <1>2, <2>1, ReadersConnected
  <2> QED BY <1>2, <2>2 DEF Connected, Polled, Ended
<1>6. CASE ~CheckMac(half, body)
  <2>1. Departure(e, "failed")
      BY <1>2, <1>6 DEF DecodeBody, Departure
  <2>2. FlowInv'
      BY <2>1, FlowLeave DEF Ended
  <2>3. altered > 0
    <3> HIDE DEF size
    <3>1. state[e] = "Body" /\ size = body_len(body_size[e])
        BY <1>2 DEF size
    <3> QED BY <1>1, <1>2, <1>4, <1>5, <1>6, <3>1, TakenRight DEF Intact
  <2> QED BY <1>2, <1>5, <2>1, <2>2, <2>3
<1>7. CASE CheckMac(half, body)
  <2>1. /\ ingress' = [ingress EXCEPT ![e] = Absorb(half, body.cipher, size - Block)]
        /\ received' = [received EXCEPT ![e] = Append(received[e], Decipher(half, body.cipher))]
        /\ body_size' = [body_size EXCEPT ![e] = None]
        /\ state' = [state EXCEPT ![e] = "Header"]
        /\ Split(e, size) /\ UNCHANGED at
      BY <1>7 DEF DecodeBody
  <2>2. size = body_len(body_size[e])
      OBVIOUS
  <2> HIDE DEF size
  <2>3. /\ Flow' /\ Len(ingress'[e].mac) = Len(half.mac) + 1 /\ wire[e] # <<>>
        /\ n <= Len(sent[Other(e)])
        /\ received' = [received EXCEPT ![e] = Append(received[e], sent[Other(e)][n])]
      BY <1>1, <1>2, <1>5, <1>7, <2>1, <2>2, BodyRead
  <2>4. KeysInv'
      BY <1>1, DecodeBodyInv
  <2>5. Connected'
    <3>1. \A x \in Ends : state'[x] \in {"Header", "Body"}
        BY <1>1, <1>5, <2>1 DEF Connected, Types
    <3> QED BY <1>1, <1>2, <1>4, <1>5, <1>7, <2>1, <3>1, ReadInv
  <2>6. \A x \in Ends : x # e => ingress'[x] = ingress[x]
      BY <1>1, <2>1 DEF Types
  <2>7. Intact'
      BY <1>1, <1>2, <1>5, <2>1, <2>3, <2>5, <2>6, IntactRead
  <2> QED BY <1>2, <1>5, <2>1, <2>3, <2>4, <2>5, <2>7 DEF FlowInv
<1> QED BY <1>6, <1>7

(***************************************************************************)
(* The end of the stream, or the owner's decision.                         *)
(***************************************************************************)
LEMMA FlowDecodeEnd ==
    ASSUME FlowInv, NEW e \in Ends, DecodeEnd(e) \/ Close(e)
    PROVE  /\ FlowInv' /\ ~Gone(e)
           /\ \/ Departure(e, "closed")
              \/ Departure(e, "failed") /\ (cut \/ Gone(Other(e)))
<1>1. CASE Close(e)
  <2>1. Departure(e, "closed") /\ ~Gone(e)
      BY <1>1 DEF Close, Departure, network
  <2> QED BY <2>1, FlowLeave DEF Ended
<1>2. CASE DecodeEnd(e)
  <2>1. Departure(e, "closed") \/ Departure(e, "failed")
      BY <1>2 DEF DecodeEnd, Departure, network
  <2>2. ~Gone(e) /\ (cut \/ Gone(Other(e)))
      BY <1>2 DEF DecodeEnd, Polled, Gone
  <2>3. FlowInv'
      BY <2>1, FlowLeave DEF Ended
  <2> QED BY <2>1, <2>2, <2>3
<1> QED BY <1>1, <1>2

(***************************************************************************)
(* The invariant holds initially.                                          *)
(***************************************************************************)
LEMMA InitFlowInv == Init => FlowInv
<1> SUFFICES ASSUME Init PROVE FlowInv
    OBVIOUS
<1>1. KeysInv
    BY InitKeysInv
<1>2. Flow
  <2>1. <<>> \in Seq([no : Nat, len : Nat]) /\ <<>> \in Seq(Datas)
      OBVIOUS
  <2> QED BY <2>1, EndsFacts DEF Init, Flow
<1>3. Intact
    BY EndsFacts DEF Init, Intact
<1> QED BY <1>1, <1>2, <1>3 DEF FlowInv

(***************************************************************************)
(* Every step keeps it.                                                    *)
(***************************************************************************)
LEMMA NextFlowInv == FlowInv /\ [Next]_vars => FlowInv'
<1> SUFFICES ASSUME FlowInv, [Next]_vars PROVE FlowInv'
    OBVIOUS
<1>1. KeysInv /\ Flow /\ Intact
    BY DEF FlowInv
<1>2. KeysInv'
    BY <1>1, NextKeysInv
<1>3. ASSUME NEW size \in AuthSizes, SendAuth(size) PROVE FlowInv'
  <2>1. /\ Greeting /\ Greeting'
        /\ wire'[Server] = <<>> \/ wire'[Server] = <<remote'[Client].init_msg>>
      BY <1>1, <1>3, SendAuthInv
  <2>2. UNCHANGED <<altered, ingress, egress, body_size, sent, received>>
      BY <1>3 DEF SendAuth, network
  <2>3. Intact'
      BY <1>1, <2>1, <2>2, IntactGreeting DEF Intact
  <2>4. \A e \in Ends : ingress[e] = None
      BY <2>1, EndsFacts DEF Greeting, NoKeys
  <2>5. Flow'
      BY <1>1, <2>2, <2>4, FlowQuiet
  <2> QED BY <1>2, <2>3, <2>5 DEF FlowInv
<1>4. CASE SendAck
    BY <1>4, FlowSendAck
<1>5. ASSUME NEW e \in Ends, Transfer(e) PROVE FlowInv'
  <2>1. UNCHANGED <<at, altered, state, remote, ingress, egress, body_size, wire, sent, received>>
      BY <1>5 DEF Transfer, network
  <2>2. Flow'
      BY <1>1, <2>1, FlowQuiet
  <2>3. Intact'
      BY <1>1, <2>1 DEF Intact, Read, Gone
  <2> QED BY <1>2, <2>2, <2>3 DEF FlowInv
<1>6. ASSUME NEW e \in Ends, Alter(e) PROVE FlowInv'
  <2>1. Flow'
      BY <1>1, <1>6, FlowQuiet DEF Alter
  <2> QED BY <1>1, <1>2, <1>6, <2>1, IntactAlter DEF FlowInv
<1>7. ASSUME NEW e \in Ends, Close(e) PROVE FlowInv'
    BY <1>7, FlowDecodeEnd
<1>8. ASSUME NEW e \in Ends, Decode(e) PROVE FlowInv'
    BY <1>8, FlowDecodeAuth, FlowDecodeAck, FlowDecodeHeader, FlowDecodeBody, FlowDecodeEnd
    DEF Decode
<1>9. ASSUME NEW e \in Ends, NEW len \in Lengths, StartSend(e, len) PROVE FlowInv'
    BY <1>1, <1>2, <1>9, FlowSend, IntactSend DEF FlowInv
<1>10. CASE Cut \/ UNCHANGED vars
  <2>1. UNCHANGED <<at, altered, state, remote, ingress, egress, body_size, wire, sent, received>>
      BY <1>10 DEF Cut, vars
  <2>2. Flow'
      BY <1>1, <2>1, FlowQuiet
  <2>3. Intact'
      BY <1>1, <2>1 DEF Intact, Read, Gone
  <2> QED BY <1>2, <2>2, <2>3 DEF FlowInv
<1> QED BY <1>3, <1>4, <1>5, <1>6, <1>7, <1>8, <1>9, <1>10 DEF Next

-----------------------------------------------------------------------------
(* Failures.                                                                *)

Reason ==
    \/ cut \/ altered > 0 \/ dialed # Server
    \/ \E o \in Ends : at[o] = "closed"

\* Only an alteration changes the size of a handshake message.
Resized ==
    /\ DOMAIN resized = Ends /\ altered \in Nat
    /\ altered = 0 => \A e \in Ends : resized[e] = None

(***************************************************************************)
(* Sizes change on the way only.                                           *)
(***************************************************************************)
LEMMA NextResized == Resized /\ [Next]_vars => Resized'
<1> SUFFICES ASSUME Resized, [Next]_vars PROVE Resized'
    OBVIOUS
<1>1. ASSUME NEW e \in Ends, Alter(e) PROVE Resized'
    BY <1>1 DEF Alter, Resized
<1>2. CASE UNCHANGED <<resized, altered>>
    BY <1>2 DEF Resized
<1>3. ASSUME NEW e \in Ends, Decode(e) PROVE UNCHANGED <<resized, altered>>
    BY <1>3 DEF Decode, DecodeAuth, DecodeAck, DecodeHeader, DecodeBody, DecodeEnd, network
<1> QED BY <1>1, <1>2, <1>3
    DEF Next, SendAuth, SendAck, Transfer, Close, StartSend, Cut, vars, network

\* An end that has gone keeps the keys that it had, an altered size is altered.
Kept(x) ==
    /\ Gone(x) => ingress'[x] = ingress[x]
    /\ resized[x] # None => resized'[x] # None

(***************************************************************************)
(* An end that leaves for a reason.                                        *)
(***************************************************************************)
LEMMA FailLeave ==
    ASSUME FlowInv, FailsForAReason, NEW e \in Ends, NEW how \in Ended,
           Departure(e, how), ~Gone(e), how = "failed" => Reason,
           how = "panicked" => resized[e] # None /\ ingress[e] = None
    PROVE  FailsForAReason'
<1>1. /\ at'[e] = how /\ \A x \in Ends : x # e => at'[x] = at[x]
      /\ UNCHANGED <<cut, altered, dialed, resized, ingress>>
    BY DEF FlowInv, KeysInv, Types, Departure, Leave
<1>2. Reason => Reason'
  <2>1. \A o \in Ends : at[o] = "closed" => at'[o] = "closed"
      BY <1>1 DEF Gone
  <2> QED BY <1>1, <2>1 DEF Reason
<1>3. how = "closed" => Reason'
    BY <1>1 DEF Reason
<1> QED BY <1>1, <1>2, <1>3 DEF FailsForAReason, Reason

(***************************************************************************)
(* A step after which nobody has left who had not before.                  *)
(***************************************************************************)
LEMMA FailQuiet ==
    ASSUME FlowInv, FailsForAReason, \A x \in Ends : Kept(x),
           \A x \in Ends : at'[x] = at[x] \/ (~Gone(x) /\ ~Gone(x)'),
           cut => cut', altered > 0 => altered' > 0, UNCHANGED dialed
    PROVE  FailsForAReason'
<1>1. Reason => Reason'
    BY DEF Reason, Gone
<1> QED BY <1>1 DEF FailsForAReason, Reason, Gone, Kept

(***************************************************************************)
(* Every step of an end, or of the network, gives a failure its reason.    *)
(***************************************************************************)
LEMMA NextFails == FlowInv /\ Resized /\ FailsForAReason /\ [Next]_vars => FailsForAReason'
<1> SUFFICES ASSUME FlowInv, Resized, FailsForAReason, [Next]_vars PROVE FailsForAReason'
    OBVIOUS
<1>1. Types /\ Intact
    BY DEF FlowInv, KeysInv
<1>2. \A x \in Ends : resized[x] # None => altered > 0
    BY DEF Resized
<1>3. ASSUME NEW size \in AuthSizes, SendAuth(size) PROVE FailsForAReason'
  <2>1. UNCHANGED <<cut, altered, dialed, resized, ingress>> /\ at[Client] = "start"
        /\ at' = [at EXCEPT ![Client] = "ack"]
      BY <1>3 DEF SendAuth, network
  <2> QED BY <1>1, <2>1, FailQuiet DEF Types, Gone, Kept
<1>4. CASE SendAck
  <2>1. UNCHANGED <<cut, altered, dialed, resized>> /\ at[Server] = "reply"
        /\ at' = [at EXCEPT ![Server] = "open"]
      BY <1>4 DEF SendAck, network
  <2>2. \A x \in Ends : x # Server => ingress'[x] = ingress[x]
      BY <1>1, <1>4 DEF SendAck, Types
  <2> QED BY <1>1, <2>1, <2>2, FailQuiet DEF Types, Gone, Kept
<1>5. ASSUME NEW e \in Ends, Transfer(e) PROVE FailsForAReason'
    BY <1>5, FailQuiet DEF Transfer, network, Kept
<1>6. ASSUME NEW e \in Ends, Alter(e) PROVE FailsForAReason'
  <2>1. altered' > 0
      BY <1>6, IntactAlter DEF FlowInv
  <2>2. \A x \in Ends : Kept(x)
      BY <1>6, NoneAssumption DEF Alter, Kept, Resized
  <2> QED BY <1>6, <2>1, <2>2, FailQuiet DEF Alter
<1>7. ASSUME NEW e \in Ends, DecodeEnd(e) \/ Close(e) PROVE FailsForAReason'
  <2>1. /\ ~Gone(e)
        /\ \/ Departure(e, "closed")
           \/ Departure(e, "failed") /\ (cut \/ Gone(Other(e)))
      BY <1>7, FlowDecodeEnd
  <2>2. Gone(Other(e)) => Reason
      BY <1>2, EndsFacts DEF Gone, FailsForAReason, Reason
  <2>3. cut => Reason
      BY DEF Reason
  <2> QED BY <2>1, <2>2, <2>3, FailLeave DEF Ended
<1>8. ASSUME NEW e \in Ends, NEW how \in {"failed", "panicked"}, Rejected(e, how), ~Gone(e)
      PROVE  FailsForAReason'
  <2>1. Reason
      BY <1>2, <1>8 DEF Rejected, Reason
  <2> QED BY <1>8, <2>1, FailLeave DEF Rejected, Ended
<1>9. CASE DecodeAuth
  <2>1. \/ \E how \in {"failed", "panicked"} : Rejected(Server, how)
        \/ at' = [at EXCEPT ![Server] = "reply"]
      BY <1>9, FlowDecodeAuth
  <2>2. ~Gone(Server) /\ UNCHANGED <<cut, altered, dialed, resized, ingress>>
      BY <1>9 DEF DecodeAuth, Polled, Gone, network
  <2>3. CASE at' = [at EXCEPT ![Server] = "reply"]
      BY <1>1, <2>2, <2>3, FailQuiet DEF Types, Gone, Kept
  <2> QED BY <1>8, <2>1, <2>2, <2>3, EndsFacts
<1>10. CASE DecodeAck
  <2>1. \/ \E how \in {"failed", "panicked"} : Rejected(Client, how)
        \/ at' = [at EXCEPT ![Client] = "open"] /\ ingress'[Server] = ingress[Server]
      BY <1>10, FlowDecodeAck
  <2>2. ~Gone(Client) /\ UNCHANGED <<cut, altered, dialed, resized>>
      BY <1>10 DEF DecodeAck, Polled, Gone, network
  <2>3. CASE at' = [at EXCEPT ![Client] = "open"] /\ ingress'[Server] = ingress[Server]
    <3>1. \A x \in Ends : Kept(x)
        BY <2>2, <2>3, EndsFacts DEF Kept
    <3> QED BY <1>1, <2>2, <2>3, <3>1, FailQuiet DEF Types, Gone
  <2> QED BY <1>8, <2>1, <2>2, <2>3, EndsFacts
<1>11. ASSUME NEW e \in Ends, DecodeHeader(e) \/ DecodeBody(e) PROVE FailsForAReason'
  <2>1. (Departure(e, "failed") /\ altered > 0) \/ UNCHANGED at
      BY <1>11, FlowDecodeHeader, FlowDecodeBody
  <2>2. ~Gone(e) /\ UNCHANGED <<cut, altered, dialed, resized>>
      BY <1>11 DEF DecodeHeader, DecodeBody, Polled, Gone, network
  <2>3. \A x \in Ends : x # e => ingress'[x] = ingress[x]
      BY <1>1, <1>11 DEF DecodeHeader, DecodeBody, Types
  <2>4. CASE UNCHANGED at
      BY <2>2, <2>3, <2>4, FailQuiet DEF Kept
  <2> QED BY <2>1, <2>2, <2>4, FailLeave DEF Reason, Ended
<1>12. ASSUME NEW e \in Ends, NEW len \in Lengths, StartSend(e, len) PROVE FailsForAReason'
    BY <1>12, FailQuiet DEF StartSend, network, Kept
<1>13. CASE Cut \/ UNCHANGED vars
    BY <1>13, FailQuiet DEF Cut, vars, Kept
<1> QED BY <1>3, <1>4, <1>5, <1>6, <1>7, <1>9, <1>10, <1>11, <1>12, <1>13 DEF Next, Decode

(***************************************************************************)
(* An end fails only for a reason, and panics only on an Auth or Ack whose *)
(* size was altered: the keys of both ends agree, and so do the            *)
(* boundaries, the MACs and the key streams, for messages of any length    *)
(* and in any portions (algorithm.rs:209-235, 400-559, proto.rs:72).       *)
(***************************************************************************)
THEOREM FailuresHaveReasons == Spec => []FailsForAReason
<1>1. Init => FailsForAReason /\ Resized
    BY EndsFacts DEF Init, FailsForAReason, Resized
<1> QED BY <1>1, InitFlowInv, NextFlowInv, NextResized, NextFails, PTL DEF Spec

-----------------------------------------------------------------------------
(* The stream is a channel of frames.                                       *)

\* An end, as the users of the stream see it.
Standing(e) ==
    CASE at[e] = "open" -> "up"
      [] Gone(e) -> IF ingress[e] = None THEN "failed" ELSE "left"
      [] OTHER -> "new"

Standings == [e \in Ends |-> Standing(e)]

(***************************************************************************)
(* It follows from where the end is.                                       *)
(***************************************************************************)
LEMMA StandingFacts ==
    ASSUME NEW e \in Ends
    PROVE  /\ at[e] = "open" => Standing(e) = "up"
           /\ at[e] \in {"start", "auth", "reply", "ack"} => Standing(e) = "new"
           /\ Gone(e) /\ ingress[e] = None => Standing(e) = "failed"
           /\ Gone(e) /\ ingress[e] # None => Standing(e) = "left"
BY DEF Standing, Gone

(***************************************************************************)
(* A step that changes one end.                                            *)
(***************************************************************************)
LEMMA StandingsChange ==
    ASSUME NEW e \in Ends, NEW v, Standing(e)' = v,
           \A x \in Ends : x # e => Standing(x)' = Standing(x)
    PROVE  Standings' = [Standings EXCEPT ![e] = v]
BY DEF Standings

(***************************************************************************)
(* An end leaves.                                                          *)
(***************************************************************************)
LEMMA ChannelLeave ==
    ASSUME FlowInv, FlowInv', NEW e \in Ends, NEW how \in Ended, Departure(e, how), ~Gone(e)
    PROVE  Channel!ChannelNext
<1>1. KeysInv /\ Types
    BY DEF FlowInv, KeysInv
<1>2. /\ at'[e] = how /\ Gone(e)' /\ \A x \in Ends : x # e => at'[x] = at[x]
      /\ UNCHANGED <<ingress, sent, received>>
    BY <1>1 DEF Types, Departure, Leave, Gone, Ended
<1>3. \A x \in Ends : x # e => Standing(x)' = Standing(x)
    BY <1>2 DEF Standing, Gone
<1>4. \/ at[e] = "open" /\ ingress[e] # None
      \/ at[e] \in {"start", "auth", "reply", "ack"} /\ ingress[e] = None
  <2>1. at[e] = "open" \/ at[e] \in {"start", "auth", "reply", "ack"}
      BY <1>1 DEF Types, Gone, Ended
  <2>2. at[e] = "open" => ingress[e] # None
    <3>1. at[e] = "open" => (Answered /\ e = Server) \/ Connected
        BY <1>1, EndsFacts DEF KeysInv, Greeting, Greeted, Answered, AuthSent, Ended
    <3> QED BY <1>1, <3>1, KeyedFacts, EndsFacts
  <2>3. at[e] \in {"start", "auth", "reply", "ack"} => ingress[e] = None
    <3>1. ingress[e] # None => (Answered /\ e = Server) \/ Connected
        BY <1>1, KeyedFacts, EndsFacts
    <3> QED BY <3>1, EndsFacts DEF Answered, Connected, Ended
  <2> QED BY <2>1, <2>2, <2>3
<1>5. \/ Standing(e) = "up" /\ Standing(e)' = "left"
      \/ Standing(e) = "new" /\ Standing(e)' = "failed"
    BY <1>2, <1>4 DEF Standing, Gone
<1>6. Standings[e] = Standing(e)
    BY DEF Standings
<1>7. Standings' = [Standings EXCEPT ![e] = IF Standings[e] = "up" THEN "left" ELSE "failed"]
    BY <1>3, <1>5, <1>6, StandingsChange
<1>8. Channel!Leave(e)
    BY <1>2, <1>5, <1>6, <1>7 DEF Channel!Leave, Standings, Standing
<1> QED BY <1>8 DEF Channel!ChannelNext, Channel!Ends, Ends

(***************************************************************************)
(* Every step is one of the channel or changes nothing there.              *)
(***************************************************************************)
LEMMA StepIsChannelStep ==
    ASSUME FlowInv, FlowInv', [Next]_vars
    PROVE  Channel!ChannelNext \/ UNCHANGED <<Standings, sent, received>>
<1>1. KeysInv /\ Types /\ Flow /\ KeysInv'
    BY DEF FlowInv, KeysInv
<1>2. ASSUME UNCHANGED <<at, ingress, sent, received>>
      PROVE  UNCHANGED <<Standings, sent, received>>
    BY <1>2 DEF Standings, Standing, Gone
<1>3. ASSUME UNCHANGED <<at, egress, sent, received>>, Connected, Connected'
      PROVE  UNCHANGED <<Standings, sent, received>>
  <2>1. \A x \in Ends : ingress[x] # None /\ ingress'[x] # None
      BY <1>3, NoneAssumption DEF Connected
  <2>2. \A x \in Ends : Standing(x)' = Standing(x)
      BY <1>3, <2>1 DEF Standing, Gone
  <2> QED BY <1>3, <2>2 DEF Standings
<1>4. ASSUME NEW size \in AuthSizes, SendAuth(size) PROVE UNCHANGED <<Standings, sent, received>>
  <2>1. at[Client] = "start" /\ at' = [at EXCEPT ![Client] = "ack"]
        /\ UNCHANGED <<ingress, sent, received>>
      BY <1>4 DEF SendAuth
  <2>2. \A x \in Ends : Standing(x)' = Standing(x)
      BY <1>1, <2>1 DEF Standing, Gone, Types
  <2> QED BY <2>1, <2>2 DEF Standings
<1>5. CASE SendAck
  <2>1. /\ at[Server] = "reply" /\ at' = [at EXCEPT ![Server] = "open"]
        /\ UNCHANGED <<sent, received>>
      BY <1>5 DEF SendAck
  <2>2. ingress'[Client] = ingress[Client]
      BY <1>1, <1>5, EndsFacts DEF SendAck, Types
  <2>3. at'[Server] = "open" /\ at'[Client] = at[Client]
      BY <1>1, <2>1, EndsFacts DEF Types
  <2>4. /\ Standing(Server) = "new" /\ Standing(Server)' = "up"
        /\ \A x \in Ends : x # Server => Standing(x)' = Standing(x)
      BY <2>1, <2>2, <2>3, EndsFacts DEF Standing, Gone
  <2>5. Standings' = [Standings EXCEPT ![Server] = "up"] /\ Standings[Server] = "new"
      BY <2>4, StandingsChange, EndsFacts DEF Standings
  <2>6. Channel!Open(Server)
      BY <2>1, <2>5, EndsFacts DEF Channel!Open, Standings, Standing
  <2> QED BY <2>6, EndsFacts DEF Channel!ChannelNext, Channel!Ends, Ends
<1>6. ASSUME NEW e \in Ends, Transfer(e) \/ Alter(e) PROVE UNCHANGED <<Standings, sent, received>>
    BY <1>2, <1>6 DEF Transfer, Alter
<1>7. ASSUME NEW e \in Ends, Close(e) \/ DecodeEnd(e) PROVE Channel!ChannelNext
    BY <1>7, FlowDecodeEnd, ChannelLeave DEF Ended
<1>8. CASE DecodeAuth
  <2>1. ~Gone(Server) /\ at[Server] \in {"auth", "ack", "open"} /\ state[Server] = "Auth"
      BY <1>8 DEF DecodeAuth, Polled, Gone
  <2>2. \/ \E how \in {"failed", "panicked"} : Rejected(Server, how)
        \/ at' = [at EXCEPT ![Server] = "reply"] /\ UNCHANGED <<ingress, sent, received>>
      BY <1>8, FlowDecodeAuth
  <2>3. ASSUME NEW how \in {"failed", "panicked"}, Rejected(Server, how)
        PROVE  Channel!ChannelNext
      BY <2>1, <2>3, ChannelLeave, EndsFacts DEF Rejected, Ended
  <2>4. CASE at' = [at EXCEPT ![Server] = "reply"] /\ UNCHANGED <<ingress, sent, received>>
    <3>1. at[Server] = "auth"
        BY <1>1, <2>1, EndsFacts DEF KeysInv, Greeting, Greeted, Answered, Connected, Ended
    <3>2. \A x \in Ends : Standing(x)' = Standing(x)
        BY <1>1, <2>4, <3>1 DEF Standing, Gone, Types
    <3> QED BY <2>4, <3>2 DEF Standings
  <2> QED BY <2>2, <2>3, <2>4
<1>9. CASE DecodeAck
  <2>1. ~Gone(Client) /\ at[Client] \in {"auth", "ack", "open"}
      BY <1>9 DEF DecodeAck, Polled, Gone
  <2>2. /\ UNCHANGED <<sent, received>>
        /\ \/ \E how \in {"failed", "panicked"} : Rejected(Client, how)
           \/ /\ Answered /\ Connected'
              /\ at' = [at EXCEPT ![Client] = "open"] /\ ingress'[Server] = ingress[Server]
      BY <1>9, FlowDecodeAck
  <2>3. ASSUME NEW how \in {"failed", "panicked"}, Rejected(Client, how)
        PROVE  Channel!ChannelNext
      BY <2>1, <2>3, ChannelLeave, EndsFacts DEF Rejected, Ended
  <2>4. CASE /\ Answered /\ Connected'
             /\ at' = [at EXCEPT ![Client] = "open"] /\ ingress'[Server] = ingress[Server]
    <3>1. at[Client] = "ack"
        BY <2>1, <2>4 DEF Answered, AuthSent, Ended
    <3>2. at'[Client] = "open" /\ at'[Server] = at[Server]
        BY <1>1, <2>4, EndsFacts DEF Types
    <3>3. /\ Standing(Client) = "new" /\ Standing(Client)' = "up"
          /\ \A x \in Ends : x # Client => Standing(x)' = Standing(x)
        BY <2>4, <3>1, <3>2, EndsFacts DEF Standing, Gone
    <3>4. Standing(Server) \in {"up", "left"}
      <4>1. ingress[Server] # None
          BY <1>1, <2>4, KeyedFacts
      <4>2. at[Server] = "open" \/ Gone(Server)
          BY <2>4 DEF Answered, Gone, Ended
      <4> QED BY <4>1, <4>2, StandingFacts, EndsFacts
    <3>5. /\ Standings' = [Standings EXCEPT ![Client] = "up"] /\ Standings[Client] = "new"
          /\ Standings[Server] \in {"up", "left"}
        BY <3>3, <3>4, StandingsChange, EndsFacts DEF Standings
    <3>6. Channel!Open(Client)
        BY <2>2, <3>5, EndsFacts DEF Channel!Open, Standings, Standing
    <3> QED BY <3>6, EndsFacts DEF Channel!ChannelNext, Channel!Ends, Ends
  <2> QED BY <2>2, <2>3, <2>4
<1>10. ASSUME NEW e \in Ends, DecodeHeader(e)
       PROVE  Channel!ChannelNext \/ UNCHANGED <<Standings, sent, received>>
  <2>1. ~Gone(e) /\ UNCHANGED egress
      BY <1>10 DEF DecodeHeader, Polled, Gone
  <2>2. /\ UNCHANGED <<sent, received>>
        /\ Departure(e, "failed") \/ (UNCHANGED at /\ Connected /\ Connected')
      BY <1>10, FlowDecodeHeader
  <2> QED BY <1>3, <2>1, <2>2, ChannelLeave DEF Ended
<1>11. ASSUME NEW e \in Ends, DecodeBody(e)
       PROVE  Channel!ChannelNext
  <2> DEFINE n == Len(received[e]) + 1
  <2>1. ~Gone(e) /\ UNCHANGED egress
      BY <1>11 DEF DecodeBody, Polled, Gone
  <2>2. /\ UNCHANGED sent
        /\ \/ Departure(e, "failed")
           \/ /\ UNCHANGED at /\ Connected /\ Connected' /\ at[e] = "open"
              /\ n <= Len(sent[Other(e)])
              /\ received' = [received EXCEPT ![e] = Append(received[e], sent[Other(e)][n])]
      BY <1>11, FlowDecodeBody
  <2>3. CASE Departure(e, "failed")
      BY <2>1, <2>3, ChannelLeave DEF Ended
  <2>4. CASE /\ UNCHANGED at /\ Connected /\ Connected' /\ at[e] = "open"
             /\ n <= Len(sent[Other(e)])
             /\ received' = [received EXCEPT ![e] = Append(received[e], sent[Other(e)][n])]
    <3>1. \A x \in Ends : ingress[x] # None /\ ingress'[x] # None
        BY <2>4, NoneAssumption DEF Connected
    <3>2. \A x \in Ends : Standing(x)' = Standing(x)
        BY <2>4, <3>1 DEF Standing, Gone
    <3>3. UNCHANGED Standings /\ Standings[e] = "up"
        BY <2>4, <3>2, StandingFacts DEF Standings
    <3>4. Channel!Receive(e)
        BY <2>2, <2>4, <3>3 DEF Channel!Receive, Channel!Other, Other, Standings, Standing
    <3> QED BY <3>4 DEF Channel!ChannelNext, Channel!Ends, Ends
  <2> QED BY <2>2, <2>3, <2>4
<1>12. ASSUME NEW e \in Ends, NEW len \in Lengths, StartSend(e, len)
       PROVE  Channel!ChannelNext
  <2> DEFINE frame == [no |-> Len(sent[e]) + 1, len |-> len]
  <2>1. /\ at[e] = "open" /\ Len(sent[e]) < MaxFrames[e]
        /\ sent' = [sent EXCEPT ![e] = Append(sent[e], frame)]
        /\ UNCHANGED <<at, ingress, received>>
      BY <1>12 DEF StartSend
  <2>2. UNCHANGED Standings /\ Standings[e] = "up"
      BY <2>1, StandingFacts DEF Standings, Standing, Gone
  <2>3. frame \in Frames
    <3>1. Len(sent[e]) \in Nat /\ MaxFrames[e] \in Nat
        BY <1>1, EciesAssumption DEF Flow
    <3>2. Len(sent[e]) + 1 \in 1 .. MaxFrames[e]
        BY <2>1, <3>1
    <3>3. frame \in [no : 1 .. MaxFrames[e], len : Lengths]
        BY <3>2
    <3> QED BY <3>3 DEF Frames
  <2>4. Channel!Send(e, frame)
      BY <2>1, <2>2 DEF Channel!Send, Standings, Standing
  <2> QED BY <2>3, <2>4 DEF Channel!ChannelNext, Channel!Ends, Ends
<1>13. CASE Cut \/ UNCHANGED vars
    BY <1>2, <1>13 DEF Cut, vars
<1> QED BY <1>4, <1>5, <1>6, <1>7, <1>8, <1>9, <1>10, <1>11, <1>12, <1>13 DEF Next, Decode

(***************************************************************************)
(* However the bytes are cut up and even if some are altered, the stream   *)
(* hands out what was handed in, once and in order: it implements the      *)
(* channel of frames (proto.rs:72-161, 246-276).                           *)
(***************************************************************************)
THEOREM StreamImplementsChannel == Spec => ImplementsChannel
<1>1. Init => Channel!ChannelInit
  <2> SUFFICES ASSUME Init PROVE Channel!ChannelInit
      OBVIOUS
  <2>1. \A e \in Ends : Standing(e) = "new"
      BY StandingFacts, EndsFacts DEF Init
  <2>2. Standings = [e \in Ends |-> "new"]
      BY <2>1 DEF Standings
  <2> QED BY <2>2 DEF Init, Channel!ChannelInit, Channel!Ends, Ends, Standings, Standing
<1>2. FlowInv /\ FlowInv' /\ [Next]_vars => [Channel!ChannelNext]_<<Standings, sent, received>>
    BY StepIsChannelStep
<1>3. FlowInv /\ FlowInv' /\ [Next]_vars =>
        [Channel!ChannelNext]_<<[e \in Ends |-> CASE at[e] = "open" -> "up"
                                  [] Gone(e) -> IF ingress[e] = None THEN "failed" ELSE "left"
                                  [] OTHER -> "new"], sent, received>>
    BY <1>2 DEF Standings, Standing
<1> QED BY <1>1, <1>3, InitFlowInv, NextFlowInv, PTL
        DEF Spec, ImplementsChannel, Channel!ChannelSpec

==============================================================================
