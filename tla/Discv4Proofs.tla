----------------------------- MODULE Discv4Proofs -----------------------------
(***************************************************************************)
(* Proofs about Discv4 for any nodes, bucket sizes, numbers of lookups,    *)
(* distances, answers and length of time.  The first part is about the     *)
(* operations of a bucket, the second about the node that calls them.      *)
(***************************************************************************)
EXTENDS Discv4, Induction, SequenceTheorems

-----------------------------------------------------------------------------
(* RemoveFirst takes out one element.                                       *)

LEMMA RemoveAtFacts ==
    ASSUME NEW S, NEW s \in Seq(S), NEW j \in 1 .. Len(s)
    PROVE  /\ RemoveAt(s, j) \in Seq(S)
           /\ Len(RemoveAt(s, j)) = Len(s) - 1
           /\ \A i \in 1 .. Len(s) :
                i # j => \E m \in 1 .. Len(s) - 1 : RemoveAt(s, j)[m] = s[i]
  <1> DEFINE a == SubSeq(s, 1, j - 1)
             b == SubSeq(s, j + 1, Len(s))
  <1>1. a \in Seq(S) /\ Len(a) = j - 1 /\ \A i \in 1 .. j - 1 : a[i] = s[i]
    OBVIOUS
  <1>2. /\ b \in Seq(S) /\ Len(b) = Len(s) - j
        /\ \A i \in 1 .. Len(s) - j : b[i] = s[i + j]
    OBVIOUS
  <1>0. Len(s) \in Nat /\ j \in Nat
    OBVIOUS
  <1> HIDE DEF a, b
  <1>3. a \o b \in Seq(S) /\ Len(a \o b) = Len(s) - 1
    <2>1. a \o b \in Seq(S) /\ Len(a \o b) = Len(a) + Len(b)
      BY <1>1, <1>2, ConcatProperties
    <2> QED
      BY <1>0, <1>1, <1>2, <2>1
  <1>4. ASSUME NEW i \in 1 .. Len(s), i # j
        PROVE  \E m \in 1 .. Len(s) - 1 : (a \o b)[m] = s[i]
    <2>0. /\ i \in Nat /\ i >= 1 /\ i <= Len(s)
          /\ \A m \in 1 .. Len(a) + Len(b) :
               (a \o b)[m] = IF m <= Len(a) THEN a[m] ELSE b[m - Len(a)]
      BY <1>0, <1>1, <1>2, ConcatProperties
    <2>3. i < j \/ i > j
      BY <1>0, <1>4, <2>0
    <2>1. CASE i < j
      <3>1. i \in 1 .. Len(s) - 1 /\ i \in 1 .. j - 1 /\ i \in 1 .. Len(a) + Len(b)
        BY <1>0, <1>1, <1>2, <2>0, <2>1
      <3>2. (a \o b)[i] = a[i] /\ a[i] = s[i]
        BY <1>0, <1>1, <2>0, <3>1
      <3> QED
        BY <3>1, <3>2
    <2>2. CASE i > j
      <3>1. /\ i - 1 \in 1 .. Len(s) - 1 /\ i - 1 \in 1 .. Len(a) + Len(b)
            /\ ~ (i - 1 <= Len(a)) /\ i - j \in 1 .. Len(s) - j
            /\ i - 1 - Len(a) = i - j
        BY <1>0, <1>1, <1>2, <2>0, <2>2
      <3>2. (a \o b)[i - 1] = b[i - j] /\ b[i - j] = s[(i - j) + j] /\ (i - j) + j = i
        BY <1>0, <1>2, <2>0, <3>1
      <3> QED
        BY <3>1, <3>2
    <2> QED
      BY <2>1, <2>2, <2>3
  <1> QED
    BY <1>3, <1>4 DEF RemoveAt, a, b

LEMMA RemoveFirstFacts ==
    ASSUME NEW S, NEW s \in Seq(S), NEW e \in ToSet(s)
    PROVE  /\ RemoveFirst(s, e) \in Seq(S)
           /\ Len(RemoveFirst(s, e)) = Len(s) - 1
           /\ ToSet(s) \subseteq ToSet(RemoveFirst(s, e)) \cup {e}
  <1> DEFINE I == {i \in 1 .. Len(s) : s[i] = e}
             j == Min(I)
  <1>1. I # {} /\ I \in SUBSET Nat
    BY DEF ToSet
  <1>2. j \in I
    BY <1>1, LeastElement DEF Min
  <1>3. RemoveFirst(s, e) = RemoveAt(s, j)
    BY <1>1 DEF RemoveFirst, SelectInSeq
  <1> HIDE DEF j
  <1>4. j \in 1 .. Len(s) /\ s[j] = e
    BY <1>2
  <1> DEFINE r == RemoveAt(s, j)
  <1>5. /\ r \in Seq(S) /\ Len(r) = Len(s) - 1
        /\ \A i \in 1 .. Len(s) : i # j => \E m \in 1 .. Len(s) - 1 : r[m] = s[i]
    BY <1>4, RemoveAtFacts
  <1> HIDE DEF r
  <1>6. ToSet(s) \subseteq ToSet(r) \cup {e}
    <2>1. DOMAIN s = 1 .. Len(s) /\ DOMAIN r = 1 .. Len(s) - 1
      BY <1>5
    <2> SUFFICES ASSUME NEW i \in 1 .. Len(s) PROVE s[i] \in ToSet(r) \cup {e}
      BY <2>1 DEF ToSet
    <2>2. CASE i = j
      BY <1>4, <2>2
    <2>3. CASE i # j
      <3>1. PICK m \in 1 .. Len(s) - 1 : r[m] = s[i]
        BY <1>5, <2>3
      <3> QED
        BY <2>1, <3>1 DEF ToSet
    <2> QED
      BY <2>2, <2>3
  <1> QED
    BY <1>3, <1>5, <1>6 DEF r

LEMMA RemoveFirstAbsent ==
    ASSUME NEW S, NEW s \in Seq(S), NEW e, e \notin ToSet(s)
    PROVE  RemoveFirst(s, e) = s
  BY DEF RemoveFirst, ToSet

LEMMA AppendToSet ==
    ASSUME NEW S, NEW s \in Seq(S), NEW e \in S
    PROVE  ToSet(Append(s, e)) = ToSet(s) \cup {e}
  <1>1. /\ Len(s) \in Nat /\ DOMAIN s = 1 .. Len(s)
        /\ DOMAIN Append(s, e) = 1 .. Len(s) + 1
        /\ \A i \in 1 .. Len(s) : Append(s, e)[i] = s[i]
        /\ Append(s, e)[Len(s) + 1] = e
    OBVIOUS
  <1>2. \A i : i \in 1 .. Len(s) + 1 <=> i \in 1 .. Len(s) \/ i = Len(s) + 1
    BY <1>1
  <1> QED
    BY <1>1, <1>2 DEF ToSet

LEMMA PushFront ==
    ASSUME NEW S, NEW s \in Seq(S), NEW e \in S
    PROVE  /\ <<e>> \o s \in Seq(S)
           /\ Len(<<e>> \o s) = Len(s) + 1
           /\ ToSet(<<e>> \o s) = ToSet(s) \cup {e}
  <1> DEFINE f == <<e>>
             t == f \o s
  <1>1. f \in Seq(S) /\ Len(f) = 1 /\ f[1] = e
    OBVIOUS
  <1> HIDE DEF f
  <1>2. /\ t \in Seq(S) /\ Len(t) = 1 + Len(s)
        /\ \A i \in 1 .. 1 + Len(s) : t[i] = IF i <= 1 THEN f[i] ELSE s[i - 1]
    <2>1. /\ t \in Seq(S) /\ Len(t) = Len(f) + Len(s)
          /\ \A i \in 1 .. Len(f) + Len(s) :
               t[i] = IF i <= Len(f) THEN f[i] ELSE s[i - Len(f)]
      BY <1>1, ConcatProperties
    <2> HIDE DEF t
    <2> QED
      BY <1>1, <2>1
  <1> HIDE DEF t
  <1>3. Len(s) \in Nat /\ DOMAIN s = 1 .. Len(s) /\ DOMAIN t = 1 .. Len(s) + 1
    BY <1>2
  <1>4. t[1] = e
    BY <1>1, <1>2, <1>3
  <1>5. \A i \in 1 .. Len(s) : i + 1 \in 1 .. Len(s) + 1 /\ t[i + 1] = s[i]
    BY <1>2, <1>3
  <1>6. \A i \in 1 .. Len(s) + 1 : i = 1 \/ (i - 1 \in 1 .. Len(s) /\ t[i] = s[i - 1])
    BY <1>2, <1>3
  <1>7. ToSet(t) \subseteq ToSet(s) \cup {e}
    BY <1>3, <1>4, <1>6 DEF ToSet
  <1>8. ToSet(s) \cup {e} \subseteq ToSet(t)
    BY <1>3, <1>4, <1>5, SMTT(40) DEF ToSet
  <1> QED
    BY <1>2, <1>3, <1>7, <1>8 DEF t, f

-----------------------------------------------------------------------------
(* The bucket.                                                              *)

Buckets == [bucket : Seq(Nodes), replacements : Seq(Nodes)]

(***************************************************************************)
(* QueuesBounded and ReplacementsWaitForRoom, of a bucket k.  Neither      *)
(* property is kept without the other: a known node that is verified finds *)
(* room because the bucket was not too long, and the bucket does not fall  *)
(* short because it did.                                                   *)
(***************************************************************************)
GoodBucket(k) ==
    /\ k \in Buckets
    /\ Len(k.bucket) <= BucketSize
    /\ Len(k.replacements) <= ReplacementsSize
    /\ k.replacements # <<>> => Len(k.bucket) = BucketSize

\* Nothing leaves the bucket.
Keeps(k, k2) ==
    /\ Len(k2.bucket) >= Len(k.bucket)
    /\ ToSet(k.bucket) \subseteq ToSet(k2.bucket)

LEMMA PushReplacementGood ==
    ASSUME NEW k, GoodBucket(k), NEW node \in Nodes, Len(k.bucket) = BucketSize
    PROVE  GoodBucket(PushReplacement(k, node)) /\ Keeps(k, PushReplacement(k, node))
  <1>1. CASE Len(k.replacements) < ReplacementsSize
    <2>1. PushReplacement(k, node) =
            [bucket |-> k.bucket, replacements |-> Append(k.replacements, node)]
      BY <1>1 DEF PushReplacement, GoodBucket, Buckets
    <2>2. /\ Append(k.replacements, node) \in Seq(Nodes)
          /\ Len(Append(k.replacements, node)) = Len(k.replacements) + 1
      BY DEF GoodBucket, Buckets
    <2> QED
      BY <1>1, <2>1, <2>2, SizesAssumption DEF GoodBucket, Buckets, Keeps
  <1>2. CASE ~ (Len(k.replacements) < ReplacementsSize)
    BY <1>2, SizesAssumption DEF PushReplacement, GoodBucket, Buckets, Keeps
  <1> QED
    BY <1>1, <1>2

(***************************************************************************)
(* add_verified: a known node only moves (kad.rs:134-147).                 *)
(***************************************************************************)
LEMMA AddVerifiedGood ==
    ASSUME NEW k, GoodBucket(k), NEW node \in Nodes
    PROVE  GoodBucket(AddVerified(k, node)) /\ Keeps(k, AddVerified(k, node))
  <1> DEFINE b == RemoveFirst(k.bucket, node)
             rest == [k EXCEPT !.bucket = b]
  <1>1. /\ k.bucket \in Seq(Nodes) /\ k.replacements \in Seq(Nodes)
        /\ k = [bucket |-> k.bucket, replacements |-> k.replacements]
        /\ Len(k.bucket) \in Nat
    BY DEF GoodBucket, Buckets
  <1>2. rest = [bucket |-> b, replacements |-> k.replacements]
    BY <1>1
  <1>3. AddVerified(k, node) = IF Len(b) < BucketSize
                               THEN [bucket |-> <<node>> \o b, replacements |-> k.replacements]
                               ELSE PushReplacement(rest, node)
    <2>1. AddVerified(k, node) = IF Len(rest.bucket) < BucketSize
                                 THEN [rest EXCEPT !.bucket = <<node>> \o rest.bucket]
                                 ELSE PushReplacement(rest, node)
      BY DEF AddVerified
    <2> HIDE DEF rest, b
    <2>2. rest.bucket = b
      BY <1>2
    <2> DEFINE r == <<node>> \o b
    <2>3. <<node>> \o rest.bucket = r
      BY <2>2
    <2> HIDE DEF r
    <2>4. [rest EXCEPT !.bucket = r] = [bucket |-> r, replacements |-> k.replacements]
      BY <1>2
    <2>5. AddVerified(k, node) = IF Len(b) < BucketSize
                                 THEN [bucket |-> r, replacements |-> k.replacements]
                                 ELSE PushReplacement(rest, node)
      BY <2>1, <2>2, <2>3, <2>4
    <2> QED
      BY <2>5 DEF r
  <1>4. CASE node \in ToSet(k.bucket)
    <2>1. /\ b \in Seq(Nodes) /\ Len(b) = Len(k.bucket) - 1
          /\ ToSet(k.bucket) \subseteq ToSet(b) \cup {node}
      BY <1>1, <1>4, RemoveFirstFacts
    <2>2. /\ <<node>> \o b \in Seq(Nodes) /\ Len(<<node>> \o b) = Len(b) + 1
          /\ ToSet(<<node>> \o b) = ToSet(b) \cup {node}
      BY <2>1, PushFront
    <2>3. Len(b) < BucketSize
      BY <1>1, <2>1, SizesAssumption DEF GoodBucket
    <2> DEFINE r == <<node>> \o b
    <2>4. AddVerified(k, node) = [bucket |-> r, replacements |-> k.replacements]
      BY <1>3, <2>3
    <2>5. /\ r \in Seq(Nodes) /\ Len(r) = Len(k.bucket)
          /\ ToSet(k.bucket) \subseteq ToSet(r)
      BY <1>1, <2>1, <2>2
    <2> HIDE DEF r, b
    <2> QED
      BY <1>1, <2>4, <2>5 DEF GoodBucket, Buckets, Keeps
  <1>5. CASE node \notin ToSet(k.bucket)
    <2>1. b = k.bucket /\ rest = k
      BY <1>1, <1>2, <1>5, RemoveFirstAbsent
    <2> DEFINE r == <<node>> \o k.bucket
    <2>2. /\ r \in Seq(Nodes) /\ Len(r) = Len(k.bucket) + 1
          /\ ToSet(r) = ToSet(k.bucket) \cup {node}
      BY <1>1, PushFront
    <2>3. CASE Len(k.bucket) < BucketSize
      <3>1. AddVerified(k, node) = [bucket |-> r, replacements |-> k.replacements]
        BY <1>3, <2>1, <2>3
      <3> HIDE DEF r
      <3>2. k.replacements = <<>> /\ Len(r) <= BucketSize
        BY <1>1, <2>2, <2>3, SizesAssumption DEF GoodBucket
      <3>3. Keeps(k, [bucket |-> r, replacements |-> k.replacements])
        BY <1>1, <2>2 DEF Keeps
      <3> QED
        BY <1>1, <2>2, <3>1, <3>2, <3>3 DEF GoodBucket, Buckets
    <2>4. CASE ~ (Len(k.bucket) < BucketSize)
      <3>1. AddVerified(k, node) = PushReplacement(k, node)
        BY <1>3, <2>1, <2>4
      <3>2. Len(k.bucket) = BucketSize
        BY <1>1, <2>4, SizesAssumption DEF GoodBucket
      <3> QED
        BY <3>1, <3>2, PushReplacementGood
    <2> QED
      BY <2>3, <2>4
  <1> QED
    BY <1>4, <1>5

(***************************************************************************)
(* add_seen: a known node stays where it is (kad.rs:158-171).              *)
(***************************************************************************)
LEMMA AddSeenGood ==
    ASSUME NEW k, GoodBucket(k), NEW node \in Nodes
    PROVE  GoodBucket(AddSeen(k, node)) /\ Keeps(k, AddSeen(k, node))
  <1>1. /\ k.bucket \in Seq(Nodes) /\ k.replacements \in Seq(Nodes)
        /\ k = [bucket |-> k.bucket, replacements |-> k.replacements]
        /\ Len(k.bucket) \in Nat
    BY DEF GoodBucket, Buckets
  <1>2. CASE InBucket(k, node)
    BY <1>1, <1>2 DEF AddSeen, Keeps
  <1>3. CASE ~InBucket(k, node) /\ Len(k.bucket) < BucketSize
    <2> DEFINE r == Append(k.bucket, node)
    <2>1. r \in Seq(Nodes) /\ Len(r) = Len(k.bucket) + 1
      BY <1>1
    <2>2. ToSet(r) = ToSet(k.bucket) \cup {node}
      BY <1>1, AppendToSet
    <2>3. AddSeen(k, node) = [k EXCEPT !.bucket = r]
      BY <1>3 DEF AddSeen
    <2> HIDE DEF r
    <2>4. AddSeen(k, node) = [bucket |-> r, replacements |-> k.replacements]
      BY <1>1, <2>3
    <2>5. k.replacements = <<>> /\ Len(r) <= BucketSize
      BY <1>1, <1>3, <2>1, SizesAssumption DEF GoodBucket
    <2>6. Keeps(k, [bucket |-> r, replacements |-> k.replacements])
      BY <1>1, <2>1, <2>2 DEF Keeps
    <2> QED
      BY <1>1, <2>1, <2>4, <2>5, <2>6 DEF GoodBucket, Buckets
  <1>4. CASE ~InBucket(k, node) /\ ~ (Len(k.bucket) < BucketSize)
    <2>1. AddSeen(k, node) = PushReplacement(k, node)
      BY <1>4 DEF AddSeen
    <2>2. Len(k.bucket) = BucketSize
      BY <1>1, <1>4, SizesAssumption DEF GoodBucket
    <2> QED
      BY <2>1, <2>2, PushReplacementGood
  <1> QED
    BY <1>2, <1>3, <1>4

(***************************************************************************)
(* remove: the node leaves only in exchange for a replacement              *)
(* (kad.rs:178-195).                                                       *)
(***************************************************************************)
LEMMA RemoveNodeGood ==
    ASSUME NEW k, GoodBucket(k), NEW node
    PROVE  /\ GoodBucket(RemoveNode(k, node))
           /\ Len(RemoveNode(k, node).bucket) = Len(k.bucket)
           /\ ToSet(k.bucket) \ ToSet(RemoveNode(k, node).bucket) \subseteq {node}
  <1>1. /\ k.bucket \in Seq(Nodes) /\ k.replacements \in Seq(Nodes)
        /\ Len(k.bucket) \in Nat /\ Len(k.replacements) \in Nat
    BY DEF GoodBucket, Buckets
  <1>2. CASE k.replacements # <<>> /\ InBucket(k, node)
    <2> DEFINE b == RemoveFirst(k.bucket, node)
               h == Head(k.replacements)
               t == Tail(k.replacements)
               r == Append(b, h)
    <2>1. /\ b \in Seq(Nodes) /\ Len(b) = Len(k.bucket) - 1
          /\ ToSet(k.bucket) \subseteq ToSet(b) \cup {node}
      BY <1>1, <1>2, RemoveFirstFacts DEF InBucket
    <2>2. h \in Nodes /\ t \in Seq(Nodes) /\ Len(t) = Len(k.replacements) - 1
      BY <1>1, <1>2, HeadTailProperties
    <2>3. RemoveNode(k, node) = [bucket |-> r, replacements |-> t]
      BY <1>2 DEF RemoveNode
    <2> HIDE DEF b, h, t
    <2>4. r \in Seq(Nodes) /\ Len(r) = Len(b) + 1
      BY <2>1, <2>2
    <2>5. ToSet(r) = ToSet(b) \cup {h}
      BY <2>1, <2>2, AppendToSet
    <2> HIDE DEF r
    <2>6. Len(r) = Len(k.bucket) /\ ToSet(k.bucket) \ ToSet(r) \subseteq {node}
      BY <1>1, <2>1, <2>4, <2>5
    <2>7. Len(t) <= ReplacementsSize /\ Len(k.bucket) = BucketSize
      BY <1>1, <1>2, <2>2, SizesAssumption DEF GoodBucket
    <2> QED
      BY <2>2, <2>3, <2>4, <2>6, <2>7, SizesAssumption DEF GoodBucket, Buckets
  <1>3. CASE ~ (k.replacements # <<>> /\ InBucket(k, node))
    BY <1>3 DEF RemoveNode
  <1> QED
    BY <1>2, <1>3

-----------------------------------------------------------------------------
(* Lists of nodes are added one after the other.  The functions of Discv4   *)
(* that do it are recursive; that they exist, and what they compute, is     *)
(* shown by induction on the position in the list.                          *)

(***************************************************************************)
(* The bootstrap nodes make a good bucket, however many there are.         *)
(***************************************************************************)
LEMMA AddBootstrapGood ==
    ASSUME NEW nodes \in Seq(Nodes)
    PROVE  GoodBucket(AddBootstrap(nodes))
  <1> DEFINE N == Len(nodes)
             Step(g, i) == IF i = 0 THEN EmptyBucket ELSE AddVerified(g[i - 1], nodes[i])
             P == {n \in Nat : \E g : g = [i \in 0 .. n |-> Step(g, i)]}
             table == CHOOSE g : g = [i \in 0 .. N |-> Step(g, i)]
  <1>1. N \in Nat /\ \A i \in 1 .. N : nodes[i] \in Nodes
    OBVIOUS
  <1>2. 0 \in P
    <2> DEFINE g == [i \in 0 .. 0 |-> EmptyBucket]
    <2>1. g = [i \in 0 .. 0 |-> Step(g, i)]
      OBVIOUS
    <2> QED
      BY <2>1
  <1>3. ASSUME NEW n \in Nat, n \in P PROVE n + 1 \in P
    <2>1. PICK g : g = [i \in 0 .. n |-> Step(g, i)]
      BY <1>3
    <2> DEFINE h == [i \in 0 .. n + 1 |->
                       IF i = n + 1 THEN AddVerified(g[n], nodes[n + 1]) ELSE g[i]]
    <2>2. ASSUME NEW i \in 0 .. n + 1 PROVE h[i] = Step(h, i)
      <3>1. CASE i = n + 1
        BY <3>1
      <3>2. CASE i # n + 1 /\ i # 0
        <4>1. i \in 0 .. n /\ i - 1 \in 0 .. n /\ i - 1 # n + 1
          BY <3>2
        <4>2. h[i] = g[i] /\ h[i - 1] = g[i - 1]
          BY <3>2, <4>1
        <4>3. g[i] = AddVerified(g[i - 1], nodes[i])
          BY <2>1, <3>2, <4>1
        <4> QED
          BY <3>2, <4>2, <4>3
      <3>3. CASE i = 0
        BY <2>1, <3>3
      <3> QED
        BY <3>1, <3>2, <3>3
    <2>3. h = [i \in 0 .. n + 1 |-> h[i]]
      OBVIOUS
    <2> HIDE DEF h
    <2>4. h = [i \in 0 .. n + 1 |-> Step(h, i)]
      BY <2>2, <2>3
    <2>5. \E f : f = [i \in 0 .. n + 1 |-> Step(f, i)]
      BY <2>4, Zenon
    <2>6. n + 1 \in Nat
      OBVIOUS
    <2> QED
      BY <2>5, <2>6, Zenon
  <1>4. Nat \subseteq P
    <2> HIDE DEF P
    <2> QED
      BY <1>2, <1>3, NatSetInduction
  <1>5. table = [i \in 0 .. N |-> Step(table, i)]
    BY <1>1, <1>4
  <1>6. AddBootstrap(nodes) = table[N]
    BY DEF AddBootstrap
  <1> HIDE DEF table
  <1> DEFINE Q == {n \in Nat : n <= N => GoodBucket(table[n])}
  <1>7. 0 \in Q
    <2>1. table[0] = EmptyBucket
      BY <1>1, <1>5
    <2>2. GoodBucket(EmptyBucket)
      BY SizesAssumption DEF GoodBucket, Buckets, EmptyBucket
    <2> QED
      BY <2>1, <2>2
  <1>8. ASSUME NEW n \in Nat, n \in Q PROVE n + 1 \in Q
    <2> SUFFICES ASSUME n + 1 <= N PROVE GoodBucket(table[n + 1])
      OBVIOUS
    <2>1. GoodBucket(table[n]) /\ nodes[n + 1] \in Nodes
      BY <1>1, <1>8
    <2>2. table[n + 1] = AddVerified(table[n], nodes[n + 1])
      BY <1>1, <1>5
    <2> QED
      BY <2>1, <2>2, AddVerifiedGood
  <1>9. Nat \subseteq Q
    <2> HIDE DEF Q
    <2> QED
      BY <1>7, <1>8, NatSetInduction
  <1> QED
    BY <1>1, <1>6, <1>9

(***************************************************************************)
(* A Neighbours message, however long, puts nobody out of the bucket.      *)
(***************************************************************************)
LEMMA AddAllSeenGood ==
    ASSUME NEW k, GoodBucket(k), NEW nodes \in Seq(Ids)
    PROVE  GoodBucket(AddAllSeen(k, nodes)) /\ Keeps(k, AddAllSeen(k, nodes))
  <1> DEFINE N == Len(nodes)
             Step(g, i) == IF i = 0 THEN k
                           ELSE IF nodes[i] = Self THEN g[i - 1]
                           ELSE AddSeen(g[i - 1], nodes[i])
             P == {n \in Nat : \E g : g = [i \in 0 .. n |-> Step(g, i)]}
             table == CHOOSE g : g = [i \in 0 .. N |-> Step(g, i)]
  <1>1. N \in Nat /\ \A i \in 1 .. N : nodes[i] \in Ids
    OBVIOUS
  <1>2. 0 \in P
    <2> DEFINE g == [i \in 0 .. 0 |-> k]
    <2>1. g = [i \in 0 .. 0 |-> Step(g, i)]
      OBVIOUS
    <2> QED
      BY <2>1
  <1>3. ASSUME NEW n \in Nat, n \in P PROVE n + 1 \in P
    <2>1. PICK g : g = [i \in 0 .. n |-> Step(g, i)]
      BY <1>3
    <2> DEFINE h == [i \in 0 .. n + 1 |->
                       IF i = n + 1 THEN Step(g, n + 1) ELSE g[i]]
    <2>2. ASSUME NEW i \in 0 .. n + 1 PROVE h[i] = Step(h, i)
      <3>1. CASE i = n + 1
        BY <3>1
      <3>2. CASE i # n + 1 /\ i # 0
        <4>1. i \in 0 .. n /\ i - 1 \in 0 .. n /\ i - 1 # n + 1
          BY <3>2
        <4>2. h[i] = g[i] /\ h[i - 1] = g[i - 1]
          BY <3>2, <4>1
        <4>3. g[i] = Step(g, i)
          BY <2>1, <3>2, <4>1
        <4> QED
          BY <3>2, <4>2, <4>3
      <3>3. CASE i = 0
        BY <2>1, <3>3
      <3> QED
        BY <3>1, <3>2, <3>3
    <2>3. h = [i \in 0 .. n + 1 |-> h[i]]
      OBVIOUS
    <2> HIDE DEF h
    <2>4. h = [i \in 0 .. n + 1 |-> Step(h, i)]
      BY <2>2, <2>3
    <2>5. \E f : f = [i \in 0 .. n + 1 |-> Step(f, i)]
      BY <2>4, Zenon
    <2>6. n + 1 \in Nat
      OBVIOUS
    <2> QED
      BY <2>5, <2>6, Zenon
  <1>4. Nat \subseteq P
    <2> HIDE DEF P
    <2> QED
      BY <1>2, <1>3, NatSetInduction
  <1>5. table = [i \in 0 .. N |-> Step(table, i)]
    BY <1>1, <1>4
  <1>6. AddAllSeen(k, nodes) = table[N]
    BY DEF AddAllSeen
  <1> HIDE DEF table
  <1> DEFINE Q == {n \in Nat : n <= N => GoodBucket(table[n]) /\ Keeps(k, table[n])}
  <1>7. 0 \in Q
    <2>1. table[0] = k
      BY <1>1, <1>5
    <2>2. Keeps(k, k)
      BY DEF Keeps, GoodBucket, Buckets
    <2> QED
      BY <2>1, <2>2
  <1>8. ASSUME NEW n \in Nat, n \in Q PROVE n + 1 \in Q
    <2> SUFFICES ASSUME n + 1 <= N
                 PROVE  GoodBucket(table[n + 1]) /\ Keeps(k, table[n + 1])
      OBVIOUS
    <2>1. GoodBucket(table[n]) /\ Keeps(k, table[n])
      BY <1>1, <1>8
    <2>2. table[n + 1] = IF nodes[n + 1] = Self THEN table[n]
                         ELSE AddSeen(table[n], nodes[n + 1])
      BY <1>1, <1>5
    <2>3. CASE nodes[n + 1] = Self
      BY <2>1, <2>2, <2>3
    <2>4. CASE nodes[n + 1] # Self
      <3> DEFINE k2 == AddSeen(table[n], nodes[n + 1])
      <3>1. nodes[n + 1] \in Nodes
        BY <1>1, <2>4 DEF Ids
      <3>2. GoodBucket(k2) /\ Keeps(table[n], k2)
        BY <2>1, <3>1, AddSeenGood
      <3> HIDE DEF k2
      <3>3. Keeps(k, k2)
        BY <2>1, <3>2 DEF Keeps, GoodBucket, Buckets
      <3> QED
        BY <2>2, <2>4, <3>2, <3>3 DEF k2
    <2> QED
      BY <2>3, <2>4
  <1>9. Nat \subseteq Q
    <2> HIDE DEF Q
    <2> QED
      BY <1>7, <1>8, NatSetInduction
  <1> QED
    BY <1>1, <1>6, <1>9

-----------------------------------------------------------------------------
(* The table.                                                               *)

TableInv == GoodBucket(connected)

(***************************************************************************)
(* Every step leaves the table alone, adds to it, or evicts the node of a  *)
(* ping whose time is over.                                                *)
(***************************************************************************)
Evicts(hash) ==
    /\ hash \in timers /\ clock > hash[2] /\ hash \in DOMAIN inflight
    /\ connected' = RemoveNode(connected, hash[1])

LEMMA TableSteps ==
    ASSUME TableInv, [Next]_vars
    PROVE  \/ UNCHANGED connected
           \/ GoodBucket(connected') /\ Keeps(connected, connected')
           \/ \E hash \in Hashes : Evicts(hash)
  <1>1. ASSUME NEW node \in Nodes, RecvPing(node)
        PROVE  GoodBucket(connected') /\ Keeps(connected, connected')
    BY <1>1, AddVerifiedGood DEF RecvPing, TableInv
  <1>2. ASSUME NEW node \in Nodes, NEW nodes \in Answers, RecvNeighbours(node, nodes)
        PROVE  GoodBucket(connected') /\ Keeps(connected, connected')
    <2>1. nodes \in Seq(Ids)
      BY ListsAssumption
    <2>2. connected' = AddAllSeen(connected, nodes)
      BY <1>2 DEF RecvNeighbours
    <2> QED
      BY <2>1, <2>2, AddAllSeenGood DEF TableInv
  <1>3. ASSUME NEW hash \in Hashes, PingTimeout(hash)
        PROVE  UNCHANGED connected \/ Evicts(hash)
    BY <1>3 DEF PingTimeout, Evicts
  <1>4. Tick \/ EgressSelf \/ EgressPing \/ EgressReply => UNCHANGED connected
    BY DEF Tick, EgressSelf, EgressPing, EgressReply
  <1>5. ASSUME NEW node \in Nodes, RecvFindNode(node) PROVE UNCHANGED connected
    BY <1>5 DEF RecvFindNode, router
  <1>6. ASSUME NEW hash \in Hashes, RecvPong(hash) PROVE UNCHANGED connected
    BY <1>6 DEF RecvPong
  <1>7. IngressPong \/ IngressNeighbours \/ (\E q \in Queries : IngressDeliver(q))
          => UNCHANGED connected
    BY DEF IngressPong, IngressNeighbours, IngressDeliver, router
  <1>8. ASSUME NEW q \in Queries, Query(q) PROVE UNCHANGED connected
    BY <1>8 DEF Query, QueryPing, QueryPonged, QueryAdd, QueryFindNode, QueryRecv,
                QuerySome, QueryNone, QueryTimeout, QueryEnd, Local
  <1>9. ASSUME NEW l \in Lookups, Lookup(l) PROVE UNCHANGED connected
    BY <1>9 DEF Lookup, LookupStart, LookupPick, LookupJoin, router
  <1>10. PingerPick \/ PingerPing \/ PingerSleep => UNCHANGED connected
    BY DEF PingerPick, PingerPing, PingerSleep, Rest
  <1>11. UNCHANGED vars => UNCHANGED connected
    BY DEF vars
  <1> QED
    BY <1>1, <1>2, <1>3, <1>4, <1>5, <1>6, <1>7, <1>8, <1>9, <1>10, <1>11
    DEF Next, Egress, Ingress

(***************************************************************************)
(* The bucket and its replacements are good in every reachable state.      *)
(***************************************************************************)
THEOREM TableAlwaysGood == Spec => []TableInv
  <1>1. Init => TableInv
    <2> SUFFICES ASSUME Init PROVE TableInv
      OBVIOUS
    <2>1. PICK nodes \in Bootstraps : connected = AddBootstrap(nodes)
      BY DEF Init
    <2>2. nodes \in Seq(Nodes)
      BY ListsAssumption
    <2> QED
      BY <2>1, <2>2, AddBootstrapGood DEF TableInv
  <1>2. TableInv /\ [Next]_vars => TableInv'
    <2> SUFFICES ASSUME TableInv, [Next]_vars PROVE TableInv'
      OBVIOUS
    <2>1. ASSUME NEW hash \in Hashes, Evicts(hash) PROVE GoodBucket(connected')
      BY <2>1, RemoveNodeGood DEF Evicts, TableInv
    <2>2. UNCHANGED connected => GoodBucket(connected')
      BY DEF TableInv
    <2> QED
      BY <2>1, <2>2, TableSteps DEF TableInv
  <1> QED
    BY <1>1, <1>2, PTL DEF Spec

(***************************************************************************)
(* Neither queue outgrows its size, whatever pings, answers and timeouts   *)
(* do to the table, so neighbours() never overflows its ArrayVec           *)
(* (kad.rs:199-213).                                                       *)
(***************************************************************************)
THEOREM QueuesAlwaysBounded == Spec => []QueuesBounded
  <1>1. TableInv => QueuesBounded
    BY DEF TableInv, GoodBucket, Buckets, QueuesBounded
  <1> QED
    BY <1>1, TableAlwaysGood, PTL

(***************************************************************************)
(* Nobody waits as a replacement while the bucket has room                 *)
(* (kad.rs:134-147, 178-193).                                              *)
(***************************************************************************)
THEOREM ReplacementsAlwaysWaitForRoom == Spec => []ReplacementsWaitForRoom
  <1>1. TableInv => ReplacementsWaitForRoom
    BY DEF TableInv, GoodBucket, ReplacementsWaitForRoom
  <1> QED
    BY <1>1, TableAlwaysGood, PTL

(***************************************************************************)
(* The table never shrinks and loses at most one node in a step            *)
(* (kad.rs:126-197).                                                       *)
(***************************************************************************)
THEOREM TableNeverRunsDry == Spec => NeverRunsDry
  <1> DEFINE Dry == /\ Len(connected'.bucket) >= Len(connected.bucket)
                    /\ \A m, n \in ToSet(connected.bucket) \ ToSet(connected'.bucket) : m = n
  <1>1. ASSUME TableInv, [Next]_vars PROVE Dry \/ UNCHANGED connected
    <2>1. ASSUME NEW hash \in Hashes, Evicts(hash) PROVE Dry
      <3>1. /\ Len(connected'.bucket) = Len(connected.bucket)
            /\ ToSet(connected.bucket) \ ToSet(connected'.bucket) \subseteq {hash[1]}
        BY <1>1, <2>1, RemoveNodeGood DEF Evicts, TableInv
      <3>2. Len(connected.bucket) \in Nat
        BY <1>1 DEF TableInv, GoodBucket, Buckets
      <3> QED
        BY <3>1, <3>2
    <2>2. ASSUME Keeps(connected, connected') PROVE Dry
      BY <2>2 DEF Keeps
    <2> QED
      BY <1>1, <2>1, <2>2, TableSteps
  <1> QED
    BY <1>1, TableAlwaysGood, PTL DEF Spec, NeverRunsDry

-----------------------------------------------------------------------------
(* Pings.                                                                   *)

(***************************************************************************)
(* A timer belongs to a ping that went out, and what is in flight has not  *)
(* been answered.  A timer may outlive its entry, and an entry may have    *)
(* none or an older one, so nothing relates the two.                       *)
(***************************************************************************)
PingInv ==
    /\ clock \in Nat
    /\ timers \subseteq sent
    /\ \A hash \in DOMAIN inflight : hash \notin answered

pingVars == <<clock, inflight, timers, sent, answered>>

LEMMA PingStep ==
    ASSUME PingInv, [Next]_vars
    PROVE  PingInv'
  <1> USE DEF PingInv
  <1>1. CASE Tick
    BY <1>1 DEF Tick
  <1>2. CASE EgressPing
    <2> DEFINE hash == <<Head(egress).node, Head(egress).second>>
               cb == Head(egress).cb
    <2>1. /\ UNCHANGED clock
          /\ \/ /\ hash \in DOMAIN inflight
                /\ inflight' = [inflight EXCEPT ![hash] = inflight[hash] \cup {cb}]
                /\ UNCHANGED <<timers, sent, answered>>
             \/ /\ DOMAIN inflight' = DOMAIN inflight \cup {hash}
                /\ answered' = answered \ {hash}
                /\ \/ timers' = timers \cup {hash} /\ sent' = sent \cup {hash}
                   \/ UNCHANGED <<timers, sent>>
      BY <1>2 DEF EgressPing
    <2> HIDE DEF hash, cb
    <2> QED
      BY <2>1
  <1>3. ASSUME NEW hash \in Hashes, PingTimeout(hash) PROVE PingInv'
    <2>1. DOMAIN inflight' \subseteq DOMAIN inflight
      BY <1>3 DEF PingTimeout, Restrict
    <2> QED
      BY <1>3, <2>1 DEF PingTimeout
  <1>4. ASSUME NEW hash \in Hashes, RecvPong(hash) PROVE PingInv'
    <2>1. DOMAIN inflight' = DOMAIN inflight \ {hash}
      BY <1>4 DEF RecvPong, Restrict
    <2> QED
      BY <1>4, <2>1 DEF RecvPong
  <1>5. CASE UNCHANGED pingVars
    BY <1>5 DEF pingVars
  <1>6. EgressSelf \/ EgressReply => UNCHANGED pingVars
    BY DEF EgressSelf, EgressReply, pingVars
  <1>7. ASSUME NEW node \in Nodes,
               \/ RecvPing(node) \/ RecvFindNode(node)
               \/ \E nodes \in Answers : RecvNeighbours(node, nodes)
        PROVE  UNCHANGED pingVars
    BY <1>7 DEF RecvPing, RecvFindNode, RecvNeighbours, router, pingVars
  <1>8. IngressPong \/ IngressNeighbours \/ (\E q \in Queries : IngressDeliver(q))
          => UNCHANGED pingVars
    BY DEF IngressPong, IngressNeighbours, IngressDeliver, router, pingVars
  <1>9. ASSUME NEW q \in Queries, Query(q) PROVE UNCHANGED pingVars
    BY <1>9 DEF Query, QueryPing, QueryPonged, QueryAdd, QueryFindNode, QueryRecv,
                QuerySome, QueryNone, QueryTimeout, QueryEnd, Local, pingVars
  <1>10. ASSUME NEW l \in Lookups, Lookup(l) PROVE UNCHANGED pingVars
    BY <1>10 DEF Lookup, LookupStart, LookupPick, LookupJoin, router, pingVars
  <1>11. PingerPick \/ PingerPing \/ PingerSleep => UNCHANGED pingVars
    BY DEF PingerPick, PingerPing, PingerSleep, Rest, pingVars
  <1>12. UNCHANGED vars => UNCHANGED pingVars
    BY DEF vars, pingVars
  <1> QED
    BY <1>1, <1>2, <1>3, <1>4, <1>5, <1>6, <1>7, <1>8, <1>9, <1>10, <1>11, <1>12
    DEF Next, Egress, Ingress

(***************************************************************************)
(* Whoever loses its place did not answer: for any number of lookups that  *)
(* ping the same nodes within the same second, any order of pongs, timers  *)
(* and retries, and any failures of the socket (node.rs:383-391, 499-510). *)
(***************************************************************************)
THEOREM OnlyUnansweredEvicted == Spec => EvictedUnanswered
  <1>1. Init => PingInv
    BY DEF Init, PingInv
  <1>2. PingInv /\ [Next]_vars => PingInv'
    BY PingStep
  <1>3. ASSUME TableInv, PingInv, [Next]_vars,
               NEW n \in ToSet(connected.bucket) \ ToSet(connected'.bucket)
        PROVE  \E s \in 0 .. MaxClock :
                 s < clock /\ <<n, s>> \in sent /\ <<n, s>> \notin answered
    <2>1. PICK hash \in Hashes : Evicts(hash)
      BY <1>3, TableSteps DEF Keeps
    <2>2. n = hash[1]
      BY <1>3, <2>1, RemoveNodeGood DEF Evicts, TableInv
    <2>3. hash = <<hash[1], hash[2]>> /\ hash[2] \in 0 .. MaxClock
      BY DEF Hashes
    <2>4. clock > hash[2] /\ hash \in sent /\ hash \notin answered
      BY <1>3, <2>1 DEF Evicts, PingInv
    <2>5. hash[2] < clock
      BY <1>3, <2>3, <2>4, ClockAssumption DEF PingInv
    <2> QED
      BY <2>2, <2>3, <2>4, <2>5
  <1>4. ASSUME TableInv, PingInv, [Next]_vars
        PROVE  \A n \in ToSet(connected.bucket) \ ToSet(connected'.bucket) :
                 \E s \in 0 .. MaxClock : /\ s < clock /\ <<n, s>> \in sent
                                          /\ <<n, s>> \notin answered
    BY <1>3, <1>4
  <1> QED
    BY <1>1, <1>2, <1>4, TableAlwaysGood, PTL DEF Spec, EvictedUnanswered

-----------------------------------------------------------------------------
(* Queries.                                                                 *)

QueryStates ==
    {"idle", "ping", "pong", "ponged", "pongless", "await", "find", "waiting",
     "collecting", "some", "none"}

LookupRecords ==
    [at : {"idle", "pick", "round", "ended"}, nearest : SUBSET Ids,
     queried : SUBSET Ids, responded : SUBSET Ids]

Deliveries == [at : {"deliver"}, cbs : SUBSET Queries, nodes : SUBSET Ids]

\* Wherever nodes are kept, they are ids.
NodesInv ==
    /\ ingress \in {Idle} \cup [at : {"pong", "neighbours"}, node : Nodes] \cup Deliveries
    /\ channels \in [Queries -> Seq(SUBSET Ids)]
    /\ found \in [Queries -> SUBSET Ids]
    /\ lookup \in [Lookups -> LookupRecords]

\* A lookup has queries only during a round, which waits for all of them.
RoundOwnsQueries ==
    \A l \in Lookups : lookup[l].at # "round" => \A n \in Ids : at[<<l, n>>] = "idle"

QueriesInv ==
    /\ at \in [Queries -> QueryStates]
    /\ expected \subseteq Queries
    /\ RoundOwnsQueries /\ RequestsOwned /\ ExpectedOwned

nodesVars == <<ingress, channels, found, lookup>>

LEMMA NodesStep ==
    ASSUME NodesInv, TableInv, requests \subseteq Queries, [Next]_vars
    PROVE  NodesInv'
  <1> USE DEF NodesInv
  <1>1. ASSUME NEW node \in Nodes, RecvPing(node) \/ RecvFindNode(node) PROVE NodesInv'
    BY <1>1 DEF RecvPing, RecvFindNode
  <1>2. ASSUME NEW node \in Nodes, NEW nodes \in Answers, RecvNeighbours(node, nodes)
        PROVE  NodesInv'
    <2>1. ToSet(nodes) \subseteq Ids
      BY ListsAssumption DEF ToSet
    <2>2. ingress' \in Deliveries
      BY <1>2, <2>1 DEF RecvNeighbours, Deliveries
    <2> QED
      BY <1>2, <2>2 DEF RecvNeighbours
  <1>3. CASE IngressPong \/ IngressNeighbours
    BY <1>3 DEF IngressPong, IngressNeighbours
  <1>4. ASSUME NEW q \in Queries, IngressDeliver(q) PROVE NodesInv'
    <2>1. ingress \in Deliveries
      BY <1>4 DEF IngressDeliver, Idle
    <2>2. ingress' \in {Idle} \cup Deliveries
      BY <1>4, <2>1 DEF IngressDeliver, Deliveries
    <2>3. ingress.nodes \in SUBSET Ids
      BY <2>1 DEF Deliveries
    <2>4. channels' \in [Queries -> Seq(SUBSET Ids)]
      <3> DEFINE C == Seq(SUBSET Ids)
                 m == <<ingress.nodes>>
      <3>1. m \in C /\ channels \in [Queries -> C]
        BY <2>3
      <3>2. channels' = channels \/ channels' = [channels EXCEPT ![q] = m]
        BY <1>4 DEF IngressDeliver
      <3> HIDE DEF C, m
      <3>3. channels' \in [Queries -> C]
        BY <3>1, <3>2
      <3> QED
        BY <3>3 DEF C
    <2> QED
      BY <1>4, <2>2, <2>4 DEF IngressDeliver
  <1>5. ASSUME NEW q \in Queries, QueryRecv(q) PROVE NodesInv'
    <2>1. Head(channels[q]) \in SUBSET Ids
      BY <1>5 DEF QueryRecv
    <2>2. found' \in [Queries -> SUBSET Ids]
      BY <1>5, <2>1 DEF QueryRecv
    <2> QED
      BY <1>5, <2>2 DEF QueryRecv, Local
  <1>6. ASSUME NEW q \in Queries, NEW outcome, QueryEnd(q, outcome) PROVE NodesInv'
    <2>1. found' \in [Queries -> SUBSET Ids]
      BY <1>6 DEF QueryEnd
    <2> QED
      BY <1>6, <2>1 DEF QueryEnd, Local
  <1>7. ASSUME NEW l \in Lookups, LookupStart(l) PROVE NodesInv'
    <2>1. Nearest(l, ToSet(connected.bucket)) \in SUBSET Ids
      BY DEF Nearest, TableInv, GoodBucket, Buckets, ToSet, Ids
    <2>2. lookup' \in [Lookups -> LookupRecords]
      BY <1>7, <2>1, ZenonT(60) DEF LookupStart, LookupRecords
    <2> QED
      BY <1>7, <2>2 DEF LookupStart
  <1>8. ASSUME NEW l \in Lookups, LookupPick(l) PROVE NodesInv'
    <2> DEFINE picked == Nearest(l, lookup[l].nearest) \ lookup[l].queried
    <2>1. picked \in SUBSET Ids
      BY DEF Nearest, LookupRecords
    <2>2. lookup' \in [Lookups -> LookupRecords]
      <3>1. \/ lookup' = [lookup EXCEPT ![l].at = "ended"]
            \/ lookup' = [lookup EXCEPT ![l].at = "round",
                                        ![l].queried = lookup[l].queried \cup picked]
        BY <1>8 DEF LookupPick
      <3> DEFINE u == lookup[l].queried \cup picked
      <3>2. u \in SUBSET Ids
        BY <2>1 DEF LookupRecords
      <3> HIDE DEF u
      <3>3. CASE lookup' = [lookup EXCEPT ![l].at = "ended"]
        BY <3>3 DEF LookupRecords
      <3>4. CASE lookup' = [lookup EXCEPT ![l].at = "round", ![l].queried = u]
        BY <3>2, <3>4, ZenonT(60) DEF LookupRecords
      <3> QED
        BY <3>1, <3>3, <3>4 DEF u
    <2> QED
      BY <1>8, <2>2 DEF LookupPick
  <1>9. ASSUME NEW l \in Lookups, LookupJoin(l) PROVE NodesInv'
    <2> DEFINE ok == {n \in Ids : at[<<l, n>>] = "some"}
               new == UNION {found[<<l, n>>] : n \in ok}
    <2>1. ok \in SUBSET Ids /\ new \in SUBSET Ids
      BY DEF Queries
    <2>2. lookup' = [lookup EXCEPT ![l].at = "pick",
                                   ![l].responded = lookup[l].responded \cup ok,
                                   ![l].nearest = lookup[l].nearest \cup new]
      BY <1>9 DEF LookupJoin
    <2> HIDE DEF ok, new
    <2>3. lookup' \in [Lookups -> LookupRecords]
      <3> DEFINE u == lookup[l].responded \cup ok
                 w == lookup[l].nearest \cup new
      <3>1. u \in SUBSET Ids /\ w \in SUBSET Ids
        BY <2>1 DEF LookupRecords
      <3> DEFINE r == [lookup[l] EXCEPT !.at = "pick", !.responded = u, !.nearest = w]
      <3>2. lookup' = [lookup EXCEPT ![l] = r]
        BY <2>2
      <3> HIDE DEF u, w
      <3>3. lookup[l] \in LookupRecords
        OBVIOUS
      <3>4. r \in LookupRecords
        BY <3>1, <3>3 DEF LookupRecords
      <3> HIDE DEF r, LookupRecords
      <3> QED
        BY <3>2, <3>4
    <2>4. found' \in [Queries -> SUBSET Ids]
      BY <1>9 DEF LookupJoin
    <2> QED
      BY <1>9, <2>3, <2>4 DEF LookupJoin
  <1>10. CASE UNCHANGED nodesVars
    BY <1>10 DEF nodesVars
  <1>11. Tick \/ EgressSelf \/ EgressPing \/ EgressReply => UNCHANGED nodesVars
    BY DEF Tick, EgressSelf, EgressPing, EgressReply, nodesVars
  <1>12. ASSUME NEW hash \in Hashes, PingTimeout(hash) \/ RecvPong(hash)
         PROVE  UNCHANGED nodesVars
    BY <1>12 DEF PingTimeout, RecvPong, nodesVars
  <1>13. ASSUME NEW q \in Queries,
                QueryPing(q) \/ QueryPonged(q) \/ QueryAdd(q) \/ QueryFindNode(q)
         PROVE  UNCHANGED nodesVars
    BY <1>13 DEF QueryPing, QueryPonged, QueryAdd, QueryFindNode, Local, nodesVars
  <1>14. PingerPick \/ PingerPing \/ PingerSleep => UNCHANGED nodesVars
    BY DEF PingerPick, PingerPing, PingerSleep, Rest, nodesVars
  <1>15. UNCHANGED vars => UNCHANGED nodesVars
    BY DEF vars, nodesVars
  <1>16. ASSUME NEW q \in Queries, Query(q) PROVE NodesInv'
    BY <1>5, <1>6, <1>10, <1>13, <1>16 DEF Query, QuerySome, QueryNone, QueryTimeout
  <1> QED
    BY <1>1, <1>2, <1>3, <1>4, <1>7, <1>8, <1>9, <1>10, <1>11, <1>12, <1>14, <1>15, <1>16
    DEF Next, Egress, Ingress, Lookup

queryVars == <<at, expected, requests, lookup>>

\* A query whose ping is answered or given up goes on; it was not listening.
LEMMA ResolveStep ==
    ASSUME QueriesInv, NEW cbs, NEW outcome \in {"ponged", "pongless"},
           Resolve(cbs, outcome), UNCHANGED <<expected, requests, lookup>>
    PROVE  QueriesInv'
  <1>1. /\ at \in [Queries -> QueryStates] /\ expected \subseteq Queries
        /\ RoundOwnsQueries /\ RequestsOwned /\ ExpectedOwned
    BY DEF QueriesInv
  <1>2. /\ at' \in [Queries -> QueryStates]
        /\ \A q \in Queries : at'[q] = at[q] \/ (at[q] = "pong" /\ at'[q] = outcome)
    BY <1>1 DEF Resolve, QueryStates
  <1>3. RoundOwnsQueries'
    BY <1>1, <1>2 DEF RoundOwnsQueries, Queries
  <1>4. RequestsOwned'
    BY <1>1, <1>2 DEF RequestsOwned, Listening
  <1>5. ExpectedOwned'
    BY <1>1, <1>2 DEF ExpectedOwned, Busy
  <1> QED
    BY <1>1, <1>2, <1>3, <1>4, <1>5 DEF QueriesInv

\* A query that takes a step of its own runs in a round, and goes to state s.
LEMMA QueryStep ==
    ASSUME QueriesInv, NEW q \in Queries, NEW s \in QueryStates, at[q] # "idle",
           at' = [at EXCEPT ![q] = s], UNCHANGED lookup,
           requests' = IF s \in {"find", "waiting", "collecting"}
                       THEN requests \cup {q} ELSE requests \ {q},
           expected' = expected \/ expected' = expected \ {q},
           s \in {"idle", "some", "none"} => q \notin expected'
    PROVE  QueriesInv'
  <1>1. /\ at \in [Queries -> QueryStates] /\ expected \subseteq Queries
        /\ RoundOwnsQueries /\ RequestsOwned /\ ExpectedOwned
    BY DEF QueriesInv
  <1>2. /\ at' \in [Queries -> QueryStates]
        /\ \A r \in Queries : at'[r] = IF r = q THEN s ELSE at[r]
    BY <1>1
  <1>3. RoundOwnsQueries'
    <2> SUFFICES ASSUME NEW l \in Lookups, lookup[l].at # "round", NEW n \in Ids
                 PROVE  at'[<<l, n>>] = "idle"
      BY DEF RoundOwnsQueries
    <2>1. <<l, n>> \in Queries /\ at[<<l, n>>] = "idle"
      BY <1>1 DEF RoundOwnsQueries, Queries
    <2> QED
      BY <1>2, <2>1
  <1>4. RequestsOwned'
    <2>1. \A r \in Queries : r # q => (Listening(r)' <=> Listening(r))
      BY <1>2 DEF Listening
    <2>2. Listening(q)' <=> s \in {"find", "waiting", "collecting"}
      BY <1>2 DEF Listening
    <2> QED
      BY <1>1, <2>1, <2>2 DEF RequestsOwned
  <1>5. ExpectedOwned'
    BY <1>1, <1>2 DEF ExpectedOwned, Busy
  <1> QED
    BY <1>1, <1>2, <1>3, <1>4, <1>5 DEF QueriesInv

LEMMA QueriesStep ==
    ASSUME QueriesInv, NodesInv, [Next]_vars
    PROVE  QueriesInv'
  <1>0. /\ at \in [Queries -> QueryStates] /\ expected \subseteq Queries
        /\ RoundOwnsQueries /\ RequestsOwned /\ ExpectedOwned
        /\ lookup \in [Lookups -> LookupRecords]
    BY DEF QueriesInv, NodesInv
  <1>1. CASE EgressSelf
    BY <1>1, ResolveStep DEF EgressSelf
  <1>2. ASSUME NEW hash \in Hashes, PingTimeout(hash) PROVE QueriesInv'
    <2>1. CASE hash \in DOMAIN inflight
      BY <1>2, <2>1, ResolveStep DEF PingTimeout
    <2>2. CASE hash \notin DOMAIN inflight
      BY <1>2, <2>2 DEF PingTimeout, QueriesInv, RoundOwnsQueries, RequestsOwned,
                        ExpectedOwned, Listening, Busy
    <2> QED
      BY <2>1, <2>2
  <1>3. ASSUME NEW hash \in Hashes, RecvPong(hash) PROVE QueriesInv'
    BY <1>3, ResolveStep DEF RecvPong
  <1>4. CASE IngressPong
    <2>1. expected' \subseteq expected /\ UNCHANGED <<at, requests, lookup>>
      BY <1>4 DEF IngressPong
    <2> QED
      BY <1>0, <2>1 DEF QueriesInv, RoundOwnsQueries, RequestsOwned, ExpectedOwned,
                        Listening, Busy
  <1>5. ASSUME NEW q \in Queries, Query(q) PROVE QueriesInv'
    <2>0. q \in requests <=> at[q] \in {"find", "waiting", "collecting"}
      BY <1>0 DEF RequestsOwned, Listening
    <2>1. CASE QueryPing(q)
      <3>1. /\ at[q] = "ping" /\ at' = [at EXCEPT ![q] = "pong"]
            /\ UNCHANGED <<lookup, requests, expected>>
        BY <2>1 DEF QueryPing, Local
      <3>2. requests' = requests \ {q}
        BY <2>0, <3>1
      <3> QED
        BY <3>1, <3>2, QueryStep DEF QueryStates
    <2>2. CASE QueryPonged(q)
      <3>1. /\ at[q] = "ponged" /\ at' = [at EXCEPT ![q] = "await"]
            /\ UNCHANGED <<lookup, requests, expected>>
        BY <2>2 DEF QueryPonged, Local
      <3>2. requests' = requests \ {q}
        BY <2>0, <3>1
      <3> QED
        BY <3>1, <3>2, QueryStep DEF QueryStates
    <2>3. CASE QueryAdd(q)
      BY <2>3, QueryStep DEF QueryAdd, Local, QueryStates
    <2>4. CASE QueryFindNode(q)
      <3>1. /\ at[q] = "find" /\ at' = [at EXCEPT ![q] = "waiting"]
            /\ UNCHANGED <<lookup, requests, expected>>
        BY <2>4 DEF QueryFindNode, Local
      <3>2. requests' = requests \cup {q}
        BY <2>0, <3>1
      <3> QED
        BY <3>1, <3>2, QueryStep DEF QueryStates
    <2>5. CASE QueryRecv(q)
      <3>1. /\ at[q] \in {"waiting", "collecting"} /\ at' = [at EXCEPT ![q] = "collecting"]
            /\ UNCHANGED <<lookup, requests, expected>>
        BY <2>5 DEF QueryRecv, Local
      <3>2. requests' = requests \cup {q}
        BY <2>0, <3>1
      <3> QED
        BY <3>1, <3>2, QueryStep DEF QueryStates
    <2>6. ASSUME at[q] # "idle", NEW outcome \in {"some", "none"}, QueryEnd(q, outcome)
          PROVE  QueriesInv'
      BY <2>6, QueryStep DEF QueryEnd, Local, QueryStates
    <2>7. CASE QuerySome(q) \/ QueryNone(q) \/ QueryTimeout(q)
      BY <2>6, <2>7 DEF QuerySome, QueryNone, QueryTimeout
    <2> QED
      BY <1>5, <2>1, <2>2, <2>3, <2>4, <2>5, <2>7 DEF Query
  <1>6. ASSUME NEW l \in Lookups, LookupStart(l) PROVE QueriesInv'
    <2>1. UNCHANGED <<at, expected, requests>> /\ lookup[l].at = "idle"
      BY <1>6 DEF LookupStart
    <2>2. \A k \in Lookups : k # l => lookup'[k] = lookup[k]
      BY <1>0, <1>6 DEF LookupStart
    <2>3. RoundOwnsQueries'
      BY <1>0, <2>1, <2>2 DEF RoundOwnsQueries
    <2> QED
      BY <1>0, <2>1, <2>3 DEF QueriesInv, RequestsOwned, ExpectedOwned, Listening, Busy
  <1>7. ASSUME NEW l \in Lookups, LookupPick(l) PROVE QueriesInv'
    <2> DEFINE picked == Nearest(l, lookup[l].nearest) \ lookup[l].queried
    <2>1. \A n \in Ids : at[<<l, n>>] = "idle"
      BY <1>0, <1>7 DEF LookupPick, RoundOwnsQueries
    <2>2. picked \subseteq Ids
      BY <1>0 DEF Nearest, LookupRecords
    <2>3. \A k \in Lookups : k # l => lookup'[k] = lookup[k]
      BY <1>0, <1>7 DEF LookupPick
    <2>4. requests' = requests
      BY <1>7 DEF LookupPick
    <2>5. CASE picked = {}
      <3>1. UNCHANGED <<at, expected>>
        BY <1>7, <2>5 DEF LookupPick
      <3>2. RoundOwnsQueries'
        BY <1>0, <2>1, <2>3, <3>1 DEF RoundOwnsQueries
      <3> QED
        BY <1>0, <2>4, <3>1, <3>2 DEF QueriesInv, RequestsOwned, ExpectedOwned, Listening, Busy
    <2>6. CASE picked # {}
      <3>1. /\ lookup' = [lookup EXCEPT ![l].at = "round",
                                        ![l].queried = lookup[l].queried \cup picked]
            /\ expected' = expected \cup ({l} \X picked)
            /\ at' = [q \in Queries |-> IF q \in {l} \X picked THEN "ping" ELSE at[q]]
        BY <1>7, <2>6 DEF LookupPick
      <3> HIDE DEF picked
      <3>2. lookup'[l].at = "round"
        BY <1>0, <3>1 DEF LookupRecords
      <3>3. {l} \X picked \subseteq Queries
        BY <2>2 DEF Queries
      <3>4. \A q \in {l} \X picked : at[q] = "idle" /\ at'[q] = "ping"
        BY <2>1, <2>2, <3>1, <3>3
      <3>5. \A q \in Queries : q \notin {l} \X picked => at'[q] = at[q]
        BY <3>1
      <3>6. at' \in [Queries -> QueryStates]
        BY <1>0, <3>1 DEF QueryStates
      <3>7. RoundOwnsQueries'
        BY <1>0, <2>3, <3>2, <3>5 DEF RoundOwnsQueries, Queries
      <3>8. RequestsOwned'
        BY <1>0, <2>4, <3>4, <3>5 DEF RequestsOwned, Listening
      <3>9. ExpectedOwned'
        BY <1>0, <3>1, <3>4, <3>5 DEF ExpectedOwned, Busy
      <3> QED
        BY <1>0, <3>1, <3>3, <3>6, <3>7, <3>8, <3>9 DEF QueriesInv
    <2> QED
      BY <2>5, <2>6
  <1>8. ASSUME NEW l \in Lookups, LookupJoin(l) PROVE QueriesInv'
    <2>1. /\ \A n \in Ids : at[<<l, n>>] \in {"idle", "some", "none"}
          /\ at' = [q \in Queries |-> IF q[1] = l THEN "idle" ELSE at[q]]
          /\ UNCHANGED <<expected, requests>>
      BY <1>8 DEF LookupJoin
    <2>2. \A k \in Lookups : k # l => lookup'[k] = lookup[k]
      BY <1>0, <1>8 DEF LookupJoin
    <2>3. \A q \in Queries : q[1] = l => at[q] \in {"idle", "some", "none"}
      BY <2>1 DEF Queries
    <2>4. \A q \in Queries : at'[q] = at[q] \/ (q[1] = l /\ at'[q] = "idle")
      BY <2>1
    <2>5. at' \in [Queries -> QueryStates]
      BY <1>0, <2>1 DEF QueryStates
    <2>6. RoundOwnsQueries'
      BY <1>0, <2>1, <2>2 DEF RoundOwnsQueries, Queries
    <2>7. RequestsOwned'
      BY <1>0, <2>1, <2>3, <2>4 DEF RequestsOwned, Listening
    <2>8. ExpectedOwned'
      BY <1>0, <2>1, <2>3, <2>4 DEF ExpectedOwned, Busy
    <2> QED
      BY <1>0, <2>1, <2>5, <2>6, <2>7, <2>8 DEF QueriesInv
  <1>9. CASE UNCHANGED queryVars
    BY <1>0, <1>9 DEF queryVars, QueriesInv, RoundOwnsQueries, RequestsOwned, ExpectedOwned,
                      Listening, Busy
  <1>10. Tick \/ EgressPing \/ EgressReply => UNCHANGED queryVars
    BY DEF Tick, EgressPing, EgressReply, queryVars
  <1>11. ASSUME NEW node \in Nodes,
                \/ RecvPing(node) \/ RecvFindNode(node)
                \/ \E nodes \in Answers : RecvNeighbours(node, nodes)
         PROVE  UNCHANGED queryVars
    BY <1>11 DEF RecvPing, RecvFindNode, RecvNeighbours, router, queryVars
  <1>12. IngressNeighbours \/ (\E q \in Queries : IngressDeliver(q)) => UNCHANGED queryVars
    BY DEF IngressNeighbours, IngressDeliver, queryVars
  <1>13. PingerPick \/ PingerPing \/ PingerSleep => UNCHANGED queryVars
    BY DEF PingerPick, PingerPing, PingerSleep, Rest, queryVars
  <1>14. UNCHANGED vars => UNCHANGED queryVars
    BY DEF vars, queryVars
  <1> QED
    BY <1>1, <1>2, <1>3, <1>4, <1>5, <1>6, <1>7, <1>8, <1>9, <1>10, <1>11, <1>12, <1>13,
       <1>14 DEF Next, Egress, Ingress, Lookup

(***************************************************************************)
(* Queries, their registrations and the nodes they carry, at every step.   *)
(***************************************************************************)
THEOREM QueriesInvHolds == Spec => [](NodesInv /\ QueriesInv)
  <1>1. Init => NodesInv /\ QueriesInv
    <2> SUFFICES ASSUME Init PROVE NodesInv /\ QueriesInv
      OBVIOUS
    <2>1. NodesInv
      BY DEF Init, NodesInv, LookupRecords
    <2>2. QueriesInv
      BY DEF Init, QueriesInv, QueryStates, RoundOwnsQueries, RequestsOwned, ExpectedOwned,
             Listening, Queries
    <2> QED
      BY <2>1, <2>2
  <1>2. TableInv /\ NodesInv /\ QueriesInv /\ [Next]_vars => NodesInv' /\ QueriesInv'
    <2>1. QueriesInv => requests \subseteq Queries
      BY DEF QueriesInv, RequestsOwned
    <2> QED
      BY <2>1, NodesStep, QueriesStep
  <1> QED
    BY <1>1, <1>2, TableAlwaysGood, PTL DEF Spec

(***************************************************************************)
(* However many lookups query the same node at once, and whichever of them *)
(* ends first, the guard of each finds its own registration (the assertion *)
(* of node.rs:181 holds).                                                  *)
(***************************************************************************)
THEOREM RequestsAlwaysOwned == Spec => []RequestsOwned
  <1>1. QueriesInv => RequestsOwned
    BY DEF QueriesInv
  <1> QED
    BY <1>1, QueriesInvHolds, PTL

(***************************************************************************)
(* No expected ping outlives its query (node.rs:811-817).                  *)
(***************************************************************************)
THEOREM ExpectedAlwaysOwned == Spec => []ExpectedOwned
  <1>1. QueriesInv => ExpectedOwned
    BY DEF QueriesInv
  <1> QED
    BY <1>1, QueriesInvHolds, PTL

==============================================================================
