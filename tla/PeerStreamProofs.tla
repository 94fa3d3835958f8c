--------------------------- MODULE PeerStreamProofs ---------------------------
(***************************************************************************)
(* Proofs that the two ends of a connection agree on the best capabilities *)
(* they share, whatever they registered, and that messages of a single     *)
(* shared capability arrive as they were sent.                             *)
(***************************************************************************)
EXTENDS PeerStream, Induction, SequenceTheorems, FiniteSetTheorems

\* The highest version of every name.
Best(common) ==
    {c \in common : \A d \in common : Name(c) = Name(d) => Version(c) >= Version(d)}

-----------------------------------------------------------------------------
(* Lists of capabilities.                                                   *)

(***************************************************************************)
(* The order of capabilities.                                              *)
(***************************************************************************)
LEMMA BeforeOrder ==
    ASSUME NEW c \in Capabilities, NEW d \in Capabilities
    PROVE  /\ ~Before(c, c)
           /\ ~(Before(c, d) /\ Before(d, c))
           /\ Name(c) = Name(d) /\ Version(c) = Version(d) => c = d
           /\ Name(c) \in Nat /\ Version(c) \in Nat
BY CapabilitiesAssumption DEF Before, Name, Version

(***************************************************************************)
(* A list that goes on with something greater still ascends.               *)
(***************************************************************************)
LEMMA AppendAscending ==
    ASSUME NEW S, NEW list \in Seq(S), Ascending(list), NEW x \in S,
           \A y \in ToSet(list) : Before(y, x)
    PROVE  /\ Append(list, x) \in Seq(S) /\ Ascending(Append(list, x))
           /\ ToSet(Append(list, x)) = ToSet(list) \cup {x}
<1> DEFINE more == Append(list, x)
           n == Len(list)
<1>1. /\ more \in Seq(S) /\ Len(more) = n + 1 /\ more[n + 1] = x
      /\ \A i \in 1 .. n : more[i] = list[i]
    BY AppendProperties
<1>2. n \in Nat /\ DOMAIN list = 1 .. n /\ DOMAIN more = 1 .. n + 1
    BY <1>1, LenProperties
<1> HIDE DEF more, n
<1>3. \A i \in 1 .. n : list[i] \in ToSet(list)
    BY <1>2 DEF ToSet
<1>4. ASSUME NEW i \in 1 .. n + 1, NEW j \in 1 .. n + 1, i < j PROVE Before(more[i], more[j])
  <2>1. i \in 1 .. n
      BY <1>2, <1>4
  <2>2. CASE j = n + 1
      BY <1>1, <1>3, <2>1, <2>2
  <2>3. CASE j # n + 1
    <3>1. j \in 1 .. n
        BY <1>2, <2>3
    <3>2. Before(list[i], list[j])
        BY <1>2, <1>4, <2>1, <3>1 DEF Ascending
    <3> QED BY <1>1, <2>1, <3>1, <3>2
  <2> QED BY <2>2, <2>3
<1>5. Ascending(more)
    BY <1>2, <1>4 DEF Ascending
<1>6. ToSet(more) = ToSet(list) \cup {x}
  <2>1. ASSUME NEW i \in 1 .. n + 1 PROVE more[i] \in ToSet(list) \cup {x}
    <3>1. i = n + 1 \/ i \in 1 .. n
        BY <1>2
    <3> QED BY <1>1, <1>3, <3>1
  <2>2. ASSUME NEW y \in ToSet(list) \cup {x} PROVE \E i \in 1 .. n + 1 : more[i] = y
    <3>1. CASE y = x
      <4>1. n + 1 \in 1 .. n + 1
          BY <1>2
      <4> QED BY <1>1, <3>1, <4>1
    <3>2. CASE y \in ToSet(list)
      <4>1. PICK i \in 1 .. n : y = list[i]
          BY <1>2, <3>2 DEF ToSet
      <4>2. i \in 1 .. n + 1
          BY <1>2
      <4> QED BY <1>1, <4>1, <4>2
    <3> QED BY <3>1, <3>2
  <2> QED BY <1>2, <2>1, <2>2 DEF ToSet
<1> QED BY <1>1, <1>5, <1>6 DEF more

(***************************************************************************)
(* What is kept of an ascending list.                                      *)
(***************************************************************************)
LEMMA KeepFacts ==
    ASSUME NEW S, NEW list \in Seq(S), Ascending(list), NEW those
    PROVE  /\ Keep(list, those) \in Seq(S) /\ Ascending(Keep(list, those))
           /\ ToSet(Keep(list, those)) = ToSet(list) \cap those
<1> DEFINE N == Len(list)
           More(k, i) == IF list[i] \in those THEN Append(k, list[i]) ELSE k
           Step(g, i) == IF i = 0 THEN <<>>
                         ELSE IF list[i] \in those THEN Append(g[i - 1], list[i]) ELSE g[i - 1]
           kept == CHOOSE g : g = [i \in 0 .. N |-> Step(g, i)]
           step == [x \in Seq(S) \X Nat |-> IF x[2] \in 1 .. N THEN More(x[1], x[2]) ELSE x[1]]
<1>1. N \in Nat /\ DOMAIN list = 1 .. N /\ \A i \in 1 .. N : list[i] \in S
    BY LenProperties, ElementOfSeq
<1>2. \E g : g = [i \in 0 .. N |-> Step(g, i)]
  <2>1. <<>> \in Seq(S) /\ step \in [Seq(S) \X Nat -> Seq(S)]
    <3>1. ASSUME NEW k \in Seq(S), NEW i \in 1 .. N PROVE More(k, i) \in Seq(S)
        BY <1>1, <3>1, AppendProperties
    <3> HIDE DEF More
    <3> QED BY <3>1, EmptySeq
  <2> DEFINE T == Seq(S)
             base == <<>>
  <2>2. Steps(T, base, step, N)
      BY <1>1, <2>1 DEF Steps
  <2> HIDE DEF T, base, N, step
  <2>3. \E g : StepByStep(g, T, base, step, N)
      BY <2>2, RecursiveFunction
  <2> USE DEF T, base, step
  <2>4. PICK g \in [0 .. N -> Seq(S)] :
          g[0] = <<>> /\ \A i \in 1 .. N : g[i] = step[<<g[i - 1], i>>]
      BY <2>3 DEF StepByStep
  <2>5. ASSUME NEW i \in 0 .. N PROVE g[i] = Step(g, i)
    <3>1. CASE i = 0
        BY <2>4, <3>1
    <3>2. CASE i # 0
      <4>1. i \in 1 .. N /\ i \in Nat /\ i - 1 \in 0 .. N
          BY <1>1, <3>2
      <4>2. <<g[i - 1], i>> \in Seq(S) \X Nat
          BY <4>1
      <4>3. g[i] = More(g[i - 1], i)
          BY <2>4, <4>1, <4>2
      <4> QED BY <3>2, <4>3
    <3> QED BY <3>1, <3>2
  <2>6. g = [i \in 0 .. N |-> g[i]]
      BY <2>4
  <2> HIDE DEF Step
  <2>7. g = [i \in 0 .. N |-> Step(g, i)]
      BY <2>5, <2>6
  <2> QED BY <2>7
<1>3. kept = [i \in 0 .. N |-> Step(kept, i)]
  <2> HIDE DEF Step
  <2> QED BY <1>2
<1>4. Keep(list, those) = kept[N]
    BY DEF Keep
<1> HIDE DEF kept, step
<1>5. kept[0] = <<>> /\ \A i \in 1 .. N : kept[i] = More(kept[i - 1], i)
  <2>1. ASSUME NEW i \in 1 .. N PROVE kept[i] = More(kept[i - 1], i)
    <3>1. i \in 0 .. N /\ i # 0
        BY <1>1
    <3>2. kept[i] = Step(kept, i)
        BY <1>3, <3>1
    <3> QED BY <3>1, <3>2
  <2>2. kept[0] = Step(kept, 0)
      BY <1>1, <1>3
  <2> QED BY <2>1, <2>2
<1> DEFINE Begin(n) == {list[j] : j \in 1 .. n}
           Q == {n \in Nat : n <= N => /\ kept[n] \in Seq(S) /\ Ascending(kept[n])
                                       /\ ToSet(kept[n]) = Begin(n) \cap those}
<1>6. 0 \in Q
  <2>1. <<>> \in Seq(S) /\ ToSet(<<>>) = {} /\ Ascending(<<>>)
      BY EmptySeq DEF ToSet, Ascending
  <2>2. Begin(0) = {}
      OBVIOUS
  <2> QED BY <1>5, <2>1, <2>2
<1>7. ASSUME NEW n \in Nat, n \in Q PROVE n + 1 \in Q
  <2> SUFFICES ASSUME n + 1 <= N
               PROVE  /\ kept[n + 1] \in Seq(S) /\ Ascending(kept[n + 1])
                      /\ ToSet(kept[n + 1]) = Begin(n + 1) \cap those
      OBVIOUS
  <2>1. /\ kept[n] \in Seq(S) /\ Ascending(kept[n]) /\ ToSet(kept[n]) = Begin(n) \cap those
        /\ n + 1 \in 1 .. N /\ (n + 1) - 1 = n
      BY <1>1, <1>7
  <2>2. kept[n + 1] = More(kept[n], n + 1)
    <3> HIDE DEF More
    <3> QED BY <1>5, <2>1
  <2>3. Begin(n + 1) = Begin(n) \cup {list[n + 1]}
      OBVIOUS
  <2>4. \A y \in Begin(n) : Before(y, list[n + 1])
    <3>1. ASSUME NEW j \in 1 .. n PROVE Before(list[j], list[n + 1])
      <4>1. j \in DOMAIN list /\ n + 1 \in DOMAIN list /\ j < n + 1
          BY <1>1, <2>1
      <4> QED BY <4>1 DEF Ascending
    <3> QED BY <3>1
  <2>5. list[n + 1] \in S
      BY <1>1, <2>1
  <2> HIDE DEF Begin
  <2>6. CASE list[n + 1] \in those
    <3>1. kept[n + 1] = Append(kept[n], list[n + 1])
        BY <2>2, <2>6
    <3>2. \A y \in ToSet(kept[n]) : Before(y, list[n + 1])
        BY <2>1, <2>4
    <3>3. /\ kept[n + 1] \in Seq(S) /\ Ascending(kept[n + 1])
          /\ ToSet(kept[n + 1]) = ToSet(kept[n]) \cup {list[n + 1]}
        BY <2>1, <2>5, <3>1, <3>2, AppendAscending
    <3> QED BY <2>1, <2>3, <2>6, <3>3
  <2>7. CASE list[n + 1] \notin those
      BY <2>1, <2>2, <2>3, <2>7
  <2> QED BY <2>6, <2>7
<1>8. Nat \subseteq Q
  <2> HIDE DEF Q
  <2> QED BY <1>6, <1>7, NatSetInduction
<1>9. Begin(N) = ToSet(list)
    BY <1>1 DEF ToSet
<1> HIDE DEF Begin
<1> QED BY <1>1, <1>4, <1>8, <1>9

\* What the capability set of an end may be.
CapabilityLists == {list \in Seq(Capabilities) : Ascending(list)}

(***************************************************************************)
(* What retain() leaves of a list.                                         *)
(***************************************************************************)
LEMMA RetainFacts ==
    ASSUME NEW list \in CapabilityLists, NEW cap
    PROVE  /\ Retain(list, cap) \in CapabilityLists
           /\ ToSet(Retain(list, cap)) =
                {v \in ToSet(list) : Name(v) # Name(cap) \/ Version(v) >= Version(cap)}
<1> DEFINE those == {v \in ToSet(list) : Name(v) # Name(cap) \/ Version(v) >= Version(cap)}
<1>1. Retain(list, cap) = Keep(list, those)
    BY DEF Retain
<1>2. those = ToSet(list) \cap those
    OBVIOUS
<1> HIDE DEF those
<1>3. /\ Keep(list, those) \in Seq(Capabilities) /\ Ascending(Keep(list, those))
      /\ ToSet(Keep(list, those)) = ToSet(list) \cap those
    BY KeepFacts DEF CapabilityLists
<1>4. Keep(list, those) \in CapabilityLists /\ ToSet(Keep(list, those)) = those
    BY <1>2, <1>3 DEF CapabilityLists
<1> QED BY <1>1, <1>4 DEF those

(***************************************************************************)
(* Going through all capabilities leaves the highest version of each name. *)
(***************************************************************************)
LEMMA HighestFacts ==
    ASSUME NEW matching \in CapabilityLists
    PROVE  /\ Highest(matching) \in CapabilityLists
           /\ ToSet(Highest(matching)) = Best(ToSet(matching))
<1> DEFINE N == Len(matching)
           Step(g, i) == IF i = 0 THEN matching ELSE Retain(g[i - 1], matching[i])
           left == CHOOSE g : g = [i \in 0 .. N |-> Step(g, i)]
           step == [x \in CapabilityLists \X Nat |-> Retain(x[1], matching[x[2]])]
<1>1. N \in Nat /\ DOMAIN matching = 1 .. N
    BY LenProperties DEF CapabilityLists
<1>2. \E g : g = [i \in 0 .. N |-> Step(g, i)]
  <2>1. step \in [CapabilityLists \X Nat -> CapabilityLists]
      BY RetainFacts
  <2>2. Steps(CapabilityLists, matching, step, N)
    <3> HIDE DEF step, N
    <3> QED BY <1>1, <2>1 DEF Steps
  <2>3. PICK g : StepByStep(g, CapabilityLists, matching, step, N)
    <3> HIDE DEF step, N
    <3> QED BY <2>2, RecursiveFunction
  <2>4. ASSUME NEW i \in 0 .. N PROVE g[i] = Step(g, i)
    <3>1. CASE i = 0
        BY <2>3, <3>1 DEF StepByStep
    <3>2. CASE i # 0
      <4>1. i \in 1 .. N /\ i \in Nat /\ i - 1 \in 0 .. N
          BY <1>1, <3>2
      <4>2. <<g[i - 1], i>> \in CapabilityLists \X Nat /\ g[i] = step[<<g[i - 1], i>>]
        <5> HIDE DEF step
        <5> QED BY <2>3, <4>1 DEF StepByStep
      <4> QED BY <3>2, <4>2
    <3> QED BY <3>1, <3>2
  <2>5. g = [i \in 0 .. N |-> g[i]]
    <3> HIDE DEF step
    <3> QED BY <2>3 DEF StepByStep
  <2> HIDE DEF Step
  <2>6. g = [i \in 0 .. N |-> Step(g, i)]
      BY <2>4, <2>5
  <2> QED BY <2>6
<1>3. left = [i \in 0 .. N |-> Step(left, i)]
  <2> HIDE DEF Step
  <2> QED BY <1>2
<1>4. Highest(matching) = left[N]
    BY DEF Highest
<1> HIDE DEF left, step
<1>5. left[0] = matching /\ \A i \in 1 .. N : left[i] = Retain(left[i - 1], matching[i])
  <2>1. ASSUME NEW i \in 1 .. N PROVE left[i] = Retain(left[i - 1], matching[i])
    <3>1. i \in 0 .. N /\ i # 0
        BY <1>1
    <3>2. left[i] = Step(left, i)
        BY <1>3, <3>1
    <3> QED BY <3>1, <3>2
  <2>2. left[0] = Step(left, 0)
      BY <1>1, <1>3
  <2> QED BY <2>1, <2>2
<1> DEFINE Beats(c, j) == Name(c) # Name(matching[j]) \/ Version(c) >= Version(matching[j])
           Rest(n) == {c \in ToSet(matching) : \A j \in 1 .. n : Beats(c, j)}
           Q == {n \in Nat : n <= N => left[n] \in CapabilityLists /\ ToSet(left[n]) = Rest(n)}
<1>6. 0 \in Q
  <2>1. Rest(0) = ToSet(matching)
      OBVIOUS
  <2> QED BY <1>5, <2>1
<1>7. ASSUME NEW n \in Nat, n \in Q PROVE n + 1 \in Q
  <2> SUFFICES ASSUME n + 1 <= N
               PROVE  left[n + 1] \in CapabilityLists /\ ToSet(left[n + 1]) = Rest(n + 1)
      OBVIOUS
  <2>1. /\ left[n] \in CapabilityLists /\ ToSet(left[n]) = Rest(n)
        /\ n + 1 \in 1 .. N /\ (n + 1) - 1 = n
      BY <1>1, <1>7
  <2>2. left[n + 1] = Retain(left[n], matching[n + 1])
      BY <1>5, <2>1
  <2>3. /\ left[n + 1] \in CapabilityLists
        /\ ToSet(left[n + 1]) = {c \in Rest(n) : Beats(c, n + 1)}
      BY <2>1, <2>2, RetainFacts
  <2> HIDE DEF Beats
  <2>4. {c \in Rest(n) : Beats(c, n + 1)} = Rest(n + 1)
    <3>1. \A j \in 1 .. n + 1 : j \in 1 .. n \/ j = n + 1
        OBVIOUS
    <3>2. \A j \in 1 .. n : j \in 1 .. n + 1
        OBVIOUS
    <3>3. n + 1 \in 1 .. n + 1
        OBVIOUS
    <3> QED BY <3>1, <3>2, <3>3
  <2> QED BY <2>3, <2>4
<1>8. Nat \subseteq Q
  <2> HIDE DEF Q
  <2> QED BY <1>6, <1>7, NatSetInduction
<1>9. Rest(N) = Best(ToSet(matching))
    BY <1>1 DEF ToSet, Best
<1> HIDE DEF Rest
<1> QED BY <1>1, <1>4, <1>8, <1>9

(***************************************************************************)
(* Sorting by name keeps the elements of a list that has each name once,   *)
(* and its result ascends.                                                 *)
(***************************************************************************)
LEMMA SortFacts ==
    ASSUME NEW list \in CapabilityLists,
           \A i, j \in DOMAIN list : i # j => Name(list[i]) # Name(list[j])
    PROVE  /\ SortByName(list) \in CapabilityLists
           /\ ToSet(SortByName(list)) = ToSet(list)
<1> DEFINE n == Len(list)
           D == DOMAIN list
           Sorts(p) == \A i, j \in D : i < j => Name(list[p[i]]) <= Name(list[p[j]])
           order == CHOOSE p \in Bijection(D, D) : Sorts(p)
           sorted == [i \in D |-> list[order[i]]]
<1>1. n \in Nat /\ D = 1 .. n /\ \A i \in D : list[i] \in Capabilities
    BY LenProperties, ElementOfSeq DEF CapabilityLists
<1>2. \A i \in D : Name(list[i]) \in Nat /\ Version(list[i]) \in Nat
    BY <1>1, BeforeOrder
<1>3. SortByName(list) = sorted
    BY DEF SortByName
<1>4. \E p \in Bijection(D, D) : Sorts(p)
  <2> DEFINE id == [i \in D |-> i]
  <2>1. id \in Bijection(D, D)
      BY DEF Bijection, Injection, Surjection, IsInjective
  <2>2. ASSUME NEW i \in D, NEW j \in D, i < j PROVE Name(list[i]) <= Name(list[j])
    <3>1. Before(list[i], list[j])
        BY <2>2 DEF CapabilityLists, Ascending
    <3> QED BY <1>2, <3>1 DEF Before
  <2>3. Sorts(id)
      BY <2>2
  <2> QED BY <2>1, <2>3
<1>5. order \in Bijection(D, D) /\ Sorts(order)
  <2> HIDE DEF Sorts
  <2> QED BY <1>4
<1> HIDE DEF order
<1>6. /\ order \in [D -> D]
      /\ \A i, j \in D : order[i] = order[j] => i = j
      /\ \A k \in D : \E i \in D : order[i] = k
    BY <1>5 DEF Bijection, Injection, Surjection, IsInjective
<1>7. sorted \in Seq(Capabilities) /\ DOMAIN sorted = D
  <2>1. sorted \in [1 .. n -> Capabilities]
      BY <1>1, <1>6
  <2> QED BY <1>1, <2>1, SeqDef
<1>8. Ascending(sorted)
  <2>1. ASSUME NEW i \in D, NEW j \in D, i < j PROVE Before(sorted[i], sorted[j])
    <3>0. i # j
        BY <1>1, <2>1
    <3>1. order[i] \in D /\ order[j] \in D /\ order[i] # order[j]
      <4> HIDE DEF D
      <4> QED BY <1>6, <3>0
    <3>2. Name(list[order[i]]) # Name(list[order[j]])
        BY <3>1
    <3>3. Name(list[order[i]]) <= Name(list[order[j]])
        BY <1>5, <2>1
    <3>4. Name(list[order[i]]) < Name(list[order[j]])
        BY <1>2, <3>1, <3>2, <3>3
    <3> QED BY <3>4 DEF Before
  <2> QED BY <1>7, <2>1 DEF Ascending
<1>9. ToSet(sorted) = ToSet(list)
    BY <1>6 DEF ToSet
<1> QED BY <1>3, <1>7, <1>8, <1>9 DEF CapabilityLists

(***************************************************************************)
(* The negotiation computes the best common capabilities, in ascending     *)
(* order, from the two lists in either role; it comes out empty only when  *)
(* the ends have no capability in common.                                  *)
(***************************************************************************)
THEOREM NegotiationIsBest ==
    ASSUME NEW local \in CapabilityLists, NEW remote
    PROVE  /\ SharedCapabilities(local, remote) \in CapabilityLists
           /\ ToSet(SharedCapabilities(local, remote)) = Best(ToSet(local) \cap ToSet(remote))
<1> DEFINE matching == Keep(local, ToSet(remote))
           top == Highest(matching)
<1>1. /\ matching \in CapabilityLists
      /\ ToSet(matching) = ToSet(local) \cap ToSet(remote)
    BY KeepFacts DEF CapabilityLists
<1> HIDE DEF matching
<1>2. top \in CapabilityLists /\ ToSet(top) = Best(ToSet(matching))
    BY <1>1, HighestFacts
<1> HIDE DEF top
<1>3. ASSUME NEW i \in DOMAIN top, NEW j \in DOMAIN top, i # j,
             Name(top[i]) = Name(top[j])
      PROVE FALSE
  <2>1. /\ DOMAIN top \subseteq Int
        /\ top[i] \in Capabilities /\ top[j] \in Capabilities
      BY <1>2, LenProperties, ElementOfSeq DEF CapabilityLists
  <2>2. Before(top[i], top[j]) \/ Before(top[j], top[i])
    <3>1. i < j \/ j < i
        BY <1>3, <2>1
    <3> QED BY <1>2, <3>1 DEF CapabilityLists, Ascending
  <2>3. top[i] \in Best(ToSet(matching)) /\ top[j] \in Best(ToSet(matching))
      BY <1>2 DEF ToSet
  <2>4. Version(top[i]) >= Version(top[j]) /\ Version(top[j]) >= Version(top[i])
      BY <1>3, <2>3 DEF Best
  <2>5. /\ Name(top[i]) \in Nat /\ Version(top[i]) \in Nat
        /\ Name(top[j]) \in Nat /\ Version(top[j]) \in Nat
      BY <2>1, BeforeOrder
  <2> QED BY <1>3, <2>2, <2>4, <2>5 DEF Before
<1>4. SortByName(top) \in CapabilityLists /\ ToSet(SortByName(top)) = ToSet(top)
    BY <1>2, <1>3, SortFacts
<1>5. SharedCapabilities(local, remote) = SortByName(top)
    BY DEF SharedCapabilities, top, matching
<1> QED BY <1>1, <1>2, <1>4, <1>5

(***************************************************************************)
(* Two ascending lists of the same capabilities are the same list.         *)
(***************************************************************************)
LEMMA AscendingEqual ==
    ASSUME NEW k \in CapabilityLists, NEW l \in CapabilityLists, ToSet(k) = ToSet(l)
    PROVE  k = l
<1>1. /\ Len(k) \in Nat /\ DOMAIN k = 1 .. Len(k) /\ \A i \in DOMAIN k : k[i] \in Capabilities
      /\ Len(l) \in Nat /\ DOMAIN l = 1 .. Len(l) /\ \A i \in DOMAIN l : l[i] \in Capabilities
    BY LenProperties, ElementOfSeq DEF CapabilityLists
<1>2. /\ \A i, j \in DOMAIN k : i < j => Before(k[i], k[j])
      /\ \A i, j \in DOMAIN l : i < j => Before(l[i], l[j])
    BY DEF CapabilityLists, Ascending
<1> DEFINE m == Len(k)
           n == Len(l)
           Differ == {i \in Nat : i >= 1 /\ ~(i \in 1 .. m /\ i \in 1 .. n /\ k[i] = l[i])
                                  /\ (i <= m \/ i <= n)}
<1>3. ASSUME NEW i \in Differ, \A j \in Differ : i <= j PROVE FALSE
  <2>1. \A j \in 1 .. i - 1 : j \in 1 .. m /\ j \in 1 .. n /\ k[j] = l[j]
    <3>1. ASSUME NEW j \in 1 .. i - 1 PROVE j \in 1 .. m /\ j \in 1 .. n /\ k[j] = l[j]
      <4>1. j \in Nat /\ j >= 1 /\ (j <= m \/ j <= n) /\ j \notin Differ
          BY <1>1, <1>3
      <4> QED BY <4>1
    <3> QED BY <3>1
  <2>2. CASE i \in 1 .. m
    <3>1. PICK j \in 1 .. n : l[j] = k[i]
        BY <1>1, <2>2 DEF ToSet
    <3>2. k[i] \in Capabilities /\ ~Before(k[i], k[i])
        BY <1>1, <2>2, BeforeOrder
    <3>3. ~(j < i)
      <4> SUFFICES ASSUME j < i PROVE FALSE
          OBVIOUS
      <4>1. j \in 1 .. i - 1
          BY <1>3
      <4>2. k[j] = k[i] /\ j \in 1 .. m
          BY <2>1, <3>1, <4>1
      <4>3. Before(k[j], k[i])
          BY <1>1, <1>2, <2>2, <4>2
      <4> QED BY <3>2, <4>2, <4>3
    <3>4. i \in 1 .. n /\ l[i] # k[i] /\ i < j
      <4>1. i \in 1 .. n
          BY <1>1, <1>3, <2>2, <3>3
      <4> QED BY <1>1, <1>3, <2>2, <3>1, <3>3, <4>1
    <3>5. PICK h \in 1 .. m : k[h] = l[i]
        BY <1>1, <3>4 DEF ToSet
    <3>6. Before(l[i], k[i])
        BY <1>1, <1>2, <3>1, <3>4
    <3>7. l[i] \in Capabilities /\ ~Before(l[i], l[i])
        BY <1>1, <3>4, BeforeOrder
    <3>8. CASE h < i
      <4>1. h \in 1 .. i - 1
          BY <1>3, <3>8
      <4>2. l[h] = l[i] /\ h \in 1 .. n
          BY <2>1, <3>5, <4>1
      <4>3. Before(l[h], l[i])
          BY <1>1, <1>2, <3>4, <3>8, <4>2
      <4> QED BY <3>7, <4>2, <4>3
    <3>9. CASE h > i
      <4>1. Before(k[i], k[h])
          BY <1>1, <1>2, <2>2, <3>9
      <4> QED BY <3>2, <3>5, <3>6, <3>7, <4>1, BeforeOrder
    <3>10. h # i
        BY <3>4, <3>5
    <3> QED BY <1>3, <3>8, <3>9, <3>10
  <2>3. CASE i \notin 1 .. m
    <3>1. i \in 1 .. n /\ i > m
        BY <1>1, <1>3, <2>3
    <3>2. PICK h \in 1 .. m : k[h] = l[i]
        BY <1>1, <3>1 DEF ToSet
    <3>3. h \in 1 .. i - 1
        BY <1>1, <3>1
    <3>4. l[h] = l[i] /\ h \in 1 .. n /\ h < i
        BY <1>1, <2>1, <3>1, <3>2, <3>3
    <3>5. Before(l[h], l[i])
        BY <1>1, <1>2, <3>1, <3>4
    <3>6. ~Before(l[i], l[i])
        BY <1>1, <3>1, BeforeOrder
    <3> QED BY <3>4, <3>5, <3>6
  <2> QED BY <2>2, <2>3
<1>4. Differ = {}
  <2>1. Differ \in SUBSET Nat
      OBVIOUS
  <2> HIDE DEF Differ
  <2> QED BY <1>3, <2>1, LeastElement
<1>5. m = n
  <2>1. CASE m > n
    <3>1. m \in Differ
        BY <1>1, <2>1
    <3> QED BY <1>4, <3>1
  <2>2. CASE n > m
    <3>1. n \in Differ
        BY <1>1, <2>2
    <3> QED BY <1>4, <3>1
  <2>3. m \in Nat /\ n \in Nat
      BY <1>1
  <2> HIDE DEF m, n, Differ
  <2> QED BY <2>1, <2>2, <2>3
<1>6. ASSUME NEW i \in 1 .. m PROVE k[i] = l[i]
  <2>1. i \notin Differ
      BY <1>4
  <2> QED BY <1>1, <2>1
<1>7. k \in Seq(Capabilities) /\ l \in Seq(Capabilities)
    BY DEF CapabilityLists
<1> HIDE DEF Differ
<1> QED BY <1>5, <1>6, <1>7, SeqEqual

-----------------------------------------------------------------------------
(* The inductive invariant.                                                 *)

\* The frames an end may have on the wire, given what it has done so far.
HelloFrames(e) == {Frame("hello", caps[e], None)}
BaseFrames == {Frame("base", [rlp |-> r, reason |-> n], Disconnect(n)) :
                 r \in {"value", "list"}, n \in {0, 3, 4}} \cup Refusals
Messages(e) ==
    {m \in {Name(c) : c \in Capabilities} \X MessageIds :
       state[e] = "open" /\ Sendable(shared[e], m[1], m[2])}
SubprotocolFrames(e) ==
    {Frame("subprotocol", WireId(shared[e], m[1], m[2]), Subprotocol(m[1], m[2])) :
       m \in Messages(e)}
Frames(e) == HelloFrames(e) \cup BaseFrames \cup SubprotocolFrames(e)

\* What an open end has negotiated, and what the others have not done yet.
Opened(e) ==
    /\ state[e] = "open" => /\ shared[e] = SharedCapabilities(caps[e], caps[Other(e)])
                            /\ shared[e] # <<>>
    /\ state[e] # "open" => shared[e] = <<>> /\ sent[e] = None

States == {"start", "hello", "open", "failed", "panicked"}

StreamInv ==
    /\ caps \in [Ends -> CapabilityLists]
    /\ state \in [Ends -> States]
    /\ DOMAIN shared = Ends /\ DOMAIN wire = Ends
    /\ DOMAIN sent = Ends /\ DOMAIN received = Ends
    /\ \A e \in Ends : wire[e] \in Seq(Frames(e)) /\ Opened(e)

(***************************************************************************)
(* An end that was open stays so, and a frame it may have sent stays one.  *)
(***************************************************************************)
LEMMA FramesGrow ==
    ASSUME NEW e \in Ends, caps' = caps,
           state[e] = "open" => state'[e] = "open" /\ shared'[e] = shared[e]
    PROVE  Frames(e) \subseteq Frames(e)'
<1>1. HelloFrames(e) = HelloFrames(e)'
    BY DEF HelloFrames
<1>2. BaseFrames = BaseFrames'
    BY DEF BaseFrames
<1>3. ASSUME NEW f \in SubprotocolFrames(e) PROVE f \in SubprotocolFrames(e)'
  <2>1. PICK m \in Messages(e) :
          f = Frame("subprotocol", WireId(shared[e], m[1], m[2]), Subprotocol(m[1], m[2]))
      BY <1>3 DEF SubprotocolFrames
  <2>2. shared'[e] = shared[e] /\ m \in Messages(e)'
      BY <2>1 DEF Messages
  <2> QED BY <2>1, <2>2 DEF SubprotocolFrames
<1> QED BY <1>1, <1>2, <1>3 DEF Frames

(***************************************************************************)
(* What a step may do to the frames of one end: nothing, take the first,   *)
(* or add one of its frames.                                               *)
(***************************************************************************)
LEMMA WireStep ==
    ASSUME NEW e \in Ends, wire[e] \in Seq(Frames(e)), Frames(e) \subseteq Frames(e)',
           \/ wire'[e] = wire[e]
           \/ wire[e] # <<>> /\ wire'[e] = Tail(wire[e])
           \/ \E f \in Frames(e)' : wire'[e] = Append(wire[e], f)
    PROVE  wire'[e] \in Seq(Frames(e)')
<1>1. wire[e] \in Seq(Frames(e)')
    BY SeqMonotonic
<1>2. CASE wire[e] # <<>> /\ wire'[e] = Tail(wire[e])
    BY <1>1, <1>2, HeadTailProperties
<1>3. CASE \E f \in Frames(e)' : wire'[e] = Append(wire[e], f)
    BY <1>1, <1>3, AppendProperties
<1> QED BY <1>1, <1>2, <1>3

(***************************************************************************)
(* The two ends.                                                           *)
(***************************************************************************)
LEMMA TwoEnds ==
    ASSUME NEW e \in Ends
    PROVE  /\ Other(e) \in Ends /\ Other(e) # e /\ Other(Other(e)) = e
           /\ \A x \in Ends : x = e \/ x = Other(e)
BY DEF Ends, Other

(***************************************************************************)
(* The invariant holds at first.                                           *)
(***************************************************************************)
LEMMA StreamInit == Init => StreamInv
<1> SUFFICES ASSUME Init PROVE StreamInv
    OBVIOUS
<1>1. caps \in [Ends -> CapabilityLists]
  <2> DEFINE n == Cardinality(Capabilities)
             L == {list \in BoundedSeq(Capabilities, n) : Ascending(list)}
  <2>1. n \in Nat
      BY CapabilitiesAssumption, FS_CardinalityType
  <2>2. caps \in [Ends -> L]
      BY DEF Init
  <2> HIDE DEF n
  <2>3. ASSUME NEW list \in BoundedSeq(Capabilities, n) PROVE list \in Seq(Capabilities)
    <3>1. PICK m \in 0 .. n : list \in [1 .. m -> Capabilities]
        BY <2>3 DEF BoundedSeq, SeqOf
    <3>2. m \in Nat
        BY <2>1, <3>1
    <3> QED BY <3>1, <3>2, SeqDef
  <2>4. L \subseteq CapabilityLists
      BY <2>3 DEF CapabilityLists
  <2> HIDE DEF L
  <2> QED BY <2>2, <2>4
<1>2. ASSUME NEW e \in Ends PROVE wire[e] \in Seq(Frames(e)) /\ Opened(e)
    BY EmptySeq DEF Init, Opened
<1> QED BY <1>1, <1>2 DEF States, Init, StreamInv

(***************************************************************************)
(* One step of the invariant: it is enough to look at the wire and at what *)
(* the ends have negotiated.                                               *)
(***************************************************************************)
LEMMA StreamStep ==
    ASSUME StreamInv, caps' = caps, state' \in [Ends -> States],
           DOMAIN shared' = Ends, DOMAIN wire' = Ends, DOMAIN sent' = Ends, DOMAIN received' = Ends,
           \A e \in Ends :
             /\ state[e] = "open" => state'[e] = "open" /\ shared'[e] = shared[e]
             /\ \/ wire'[e] = wire[e]
                \/ wire[e] # <<>> /\ wire'[e] = Tail(wire[e])
                \/ \E f \in Frames(e)' : wire'[e] = Append(wire[e], f)
             /\ Opened(e)'
    PROVE  StreamInv'
<1>1. ASSUME NEW e \in Ends PROVE wire'[e] \in Seq(Frames(e)')
  <2>1. Frames(e) \subseteq Frames(e)'
      BY FramesGrow
  <2>2. wire[e] \in Seq(Frames(e))
      BY DEF StreamInv
  <2> QED BY <2>1, <2>2, WireStep
<1> QED BY <1>1 DEF StreamInv

(***************************************************************************)
(* The invariant, one action at a time.                                    *)
(***************************************************************************)
LEMMA StreamNext == StreamInv /\ [Next]_vars => StreamInv'
<1> SUFFICES ASSUME StreamInv, [Next]_vars PROVE StreamInv'
    OBVIOUS
<1>0. /\ caps \in [Ends -> CapabilityLists]
      /\ state \in [Ends -> States]
      /\ DOMAIN shared = Ends /\ DOMAIN wire = Ends
      /\ DOMAIN sent = Ends /\ DOMAIN received = Ends
      /\ \A e \in Ends : wire[e] \in Seq(Frames(e)) /\ Opened(e)
    BY DEF StreamInv
<1>1. ASSUME NEW e \in Ends, SendHello(e) PROVE StreamInv'
  <2> DEFINE f == Frame("hello", caps[e], None)
  <2>1. f \in Frames(e)'
      BY <1>1 DEF SendHello, Frames, HelloFrames
  <2>2. wire' = [wire EXCEPT ![e] = Append(@, f)]
      BY <1>1 DEF SendHello, Put
  <2> HIDE DEF f
  <2>3. ASSUME NEW x \in Ends
        PROVE  /\ state[x] = "open" => state'[x] = "open" /\ shared'[x] = shared[x]
               /\ \/ wire'[x] = wire[x] \/ \E g \in Frames(x)' : wire'[x] = Append(wire[x], g)
               /\ Opened(x)'
    <3>1. wire'[x] = wire[x] \/ \E g \in Frames(x)' : wire'[x] = Append(wire[x], g)
        BY <1>0, <2>1, <2>2
    <3>2. /\ state[x] = "open" => state'[x] = "open"
          /\ state'[x] = "open" => state[x] = "open"
          /\ shared' = shared /\ sent' = sent /\ caps' = caps
        BY <1>0, <1>1 DEF SendHello
    <3> QED BY <1>0, <3>1, <3>2 DEF Opened
  <2>4. state' \in [Ends -> States] /\ caps' = caps
      BY <1>0, <1>1 DEF States, SendHello
  <2>5. /\ DOMAIN shared' = Ends /\ DOMAIN wire' = Ends
        /\ DOMAIN sent' = Ends /\ DOMAIN received' = Ends
      BY <1>0, <1>1, <2>2 DEF SendHello
  <2> QED BY <2>3, <2>4, <2>5, StreamStep
<1>2. ASSUME NEW e \in Ends, Refuse(e) PROVE StreamInv'
  <2>0. PICK f \in Refusals : wire' = [wire EXCEPT ![e] = Append(@, f)]
      BY <1>2 DEF Refuse, Put
  <2>1. f \in Frames(e)'
      BY DEF Frames, BaseFrames, Refusals
  <2>2. wire' = [wire EXCEPT ![e] = Append(@, f)]
      BY <2>0
  <2>3. ASSUME NEW x \in Ends
        PROVE  /\ state[x] = "open" => state'[x] = "open" /\ shared'[x] = shared[x]
               /\ \/ wire'[x] = wire[x] \/ \E g \in Frames(x)' : wire'[x] = Append(wire[x], g)
               /\ Opened(x)'
    <3>1. wire'[x] = wire[x] \/ \E g \in Frames(x)' : wire'[x] = Append(wire[x], g)
        BY <1>0, <2>1, <2>2
    <3>2. /\ state[x] = "open" => state'[x] = "open"
          /\ state'[x] = "open" => state[x] = "open"
          /\ shared' = shared /\ sent' = sent /\ caps' = caps
        BY <1>0, <1>2 DEF Refuse
    <3> QED BY <1>0, <3>1, <3>2 DEF Opened
  <2>4. state' \in [Ends -> States] /\ caps' = caps
      BY <1>0, <1>2 DEF States, Refuse
  <2>5. /\ DOMAIN shared' = Ends /\ DOMAIN wire' = Ends
        /\ DOMAIN sent' = Ends /\ DOMAIN received' = Ends
      BY <1>0, <1>2, <2>2 DEF Refuse
  <2> QED BY <2>3, <2>4, <2>5, StreamStep
<1>3. ASSUME NEW e \in Ends, RecvHello(e) PROVE StreamInv'
  <2>1. PICK o \in Ends : o = Other(e) /\ o # e /\ Other(o) = e /\ \A x \in Ends : x = e \/ x = o
      BY TwoEnds
  <2>2. /\ state[e] = "hello" /\ wire[o] # <<>>
        /\ caps' = caps /\ sent' = sent /\ received' = received
        /\ shared[e] = <<>> /\ sent[e] = None
      BY <1>0, <1>3, <2>1 DEF RecvHello, Opened
  <2>3. CASE Head(wire[o]).kind = "hello"
    <3> DEFINE list == SharedCapabilities(caps[e], Head(wire[o]).body)
    <3>1. Negotiated(e, list)
        BY <1>3, <2>1, <2>3 DEF RecvHello
    <3>2. list = SharedCapabilities(caps[e], caps[o])
      <4>1. Head(wire[o]) \in Frames(o)
          BY <1>0, <2>2, HeadTailProperties
      <4>2. Head(wire[o]) \in HelloFrames(o)
          BY <2>3, <4>1 DEF Frames, BaseFrames, Refusals, SubprotocolFrames, Frame
      <4> QED BY <4>2 DEF HelloFrames, Frame
    <3> HIDE DEF list
    <3>3. CASE list # <<>>
      <4>1. /\ state' = [state EXCEPT ![e] = "open"]
            /\ shared' = [shared EXCEPT ![e] = list]
            /\ wire' = [wire EXCEPT ![o] = Tail(@)]
          BY <2>1, <3>1, <3>3 DEF Negotiated
      <4>2. /\ state'[e] = "open" /\ shared'[e] = list /\ wire'[e] = wire[e]
            /\ state'[o] = state[o] /\ shared'[o] = shared[o] /\ wire'[o] = Tail(wire[o])
          BY <1>0, <2>1, <4>1
      <4>3. Opened(e)' /\ Opened(o)'
          BY <1>0, <2>1, <2>2, <3>2, <3>3, <4>2 DEF Opened
      <4>4. ASSUME NEW x \in Ends
            PROVE  /\ state[x] = "open" => state'[x] = "open" /\ shared'[x] = shared[x]
                   /\ \/ wire'[x] = wire[x]
                      \/ wire[x] # <<>> /\ wire'[x] = Tail(wire[x])
                   /\ Opened(x)'
        <5>1. CASE x = e
            BY <2>2, <4>2, <4>3, <5>1
        <5>2. CASE x = o
            BY <2>2, <4>2, <4>3, <5>2
        <5> QED BY <2>1, <5>1, <5>2
      <4>5. /\ state' \in [Ends -> States]
            /\ DOMAIN shared' = Ends /\ DOMAIN wire' = Ends
            /\ DOMAIN sent' = Ends /\ DOMAIN received' = Ends
          BY <1>0, <2>2, <4>1 DEF States
      <4> QED BY <2>2, <4>4, <4>5, StreamStep
    <3>4. CASE list = <<>>
      <4> DEFINE f == Frame("base", DisconnectPayload(3), Disconnect(3))
      <4>1. /\ state' = [state EXCEPT ![e] = "failed"] /\ shared' = shared
            /\ wire' = [wire EXCEPT ![o] = Tail(@), ![e] = Append(@, f)]
          BY <2>1, <3>1, <3>4 DEF Negotiated
      <4>2. f \in Frames(e)'
          BY DEF Frames, BaseFrames, DisconnectPayload
      <4> HIDE DEF f
      <4>3. /\ state'[e] = "failed" /\ wire'[e] = Append(wire[e], f)
            /\ state'[o] = state[o] /\ wire'[o] = Tail(wire[o])
          BY <1>0, <2>1, <4>1
      <4>4. Opened(e)' /\ Opened(o)'
          BY <1>0, <2>1, <2>2, <4>1, <4>3 DEF Opened
      <4>5. ASSUME NEW x \in Ends
            PROVE  /\ state[x] = "open" => state'[x] = "open" /\ shared'[x] = shared[x]
                   /\ \/ wire[x] # <<>> /\ wire'[x] = Tail(wire[x])
                      \/ \E g \in Frames(x)' : wire'[x] = Append(wire[x], g)
                   /\ Opened(x)'
        <5>1. CASE x = e
            BY <2>2, <4>2, <4>3, <4>4, <5>1
        <5>2. CASE x = o
            BY <2>2, <4>1, <4>3, <4>4, <5>2
        <5> QED BY <2>1, <5>1, <5>2
      <4>6. /\ state' \in [Ends -> States]
            /\ DOMAIN shared' = Ends /\ DOMAIN wire' = Ends
            /\ DOMAIN sent' = Ends /\ DOMAIN received' = Ends
          BY <1>0, <2>2, <4>1 DEF States
      <4> QED BY <2>2, <4>5, <4>6, StreamStep
    <3> QED BY <3>3, <3>4
  <2>4. CASE Head(wire[o]).kind # "hello"
    <3>1. /\ \E how \in {"failed", "panicked"} : state' = [state EXCEPT ![e] = how]
          /\ shared' = shared /\ wire' = [wire EXCEPT ![o] = Tail(wire[o])]
        BY <1>3, <2>1, <2>4 DEF RecvHello
    <3>2. ASSUME NEW x \in Ends
          PROVE  /\ state[x] = "open" => state'[x] = "open" /\ shared'[x] = shared[x]
                 /\ \/ wire'[x] = wire[x]
                    \/ wire[x] # <<>> /\ wire'[x] = Tail(wire[x])
                 /\ Opened(x)'
      <4>1. /\ state[x] = "open" => state'[x] = "open"
            /\ state'[x] = "open" => state[x] = "open"
          BY <1>0, <2>2, <3>1
      <4>2. Opened(x)'
          BY <1>0, <2>2, <3>1, <4>1 DEF Opened
      <4>3. wire'[x] = wire[x] \/ (wire[x] # <<>> /\ wire'[x] = Tail(wire[x]))
          BY <1>0, <2>2, <3>1
      <4> QED BY <3>1, <4>1, <4>2, <4>3
    <3>3. /\ state' \in [Ends -> States]
          /\ DOMAIN shared' = Ends /\ DOMAIN wire' = Ends
          /\ DOMAIN sent' = Ends /\ DOMAIN received' = Ends
        BY <1>0, <2>2, <3>1 DEF States
    <3> QED BY <2>2, <3>2, <3>3, StreamStep
  <2> QED BY <2>3, <2>4
<1>4. ASSUME NEW e \in Ends, Receive(e) PROVE StreamInv'
  <2>1. /\ state[e] = "open" /\ wire[Other(e)] # <<>>
        /\ wire' = [wire EXCEPT ![Other(e)] = Tail(wire[Other(e)])]
        /\ caps' = caps /\ state' = state /\ shared' = shared
      BY <1>4 DEF Receive
  <2>2. DOMAIN sent' = Ends /\ DOMAIN received' = Ends /\ \A x \in Ends : x # e => sent'[x] = sent[x]
      BY <1>0, <1>4 DEF Receive
  <2>3. ASSUME NEW x \in Ends
        PROVE  /\ \/ wire'[x] = wire[x]
                  \/ wire[x] # <<>> /\ wire'[x] = Tail(wire[x])
               /\ Opened(x)'
    <3>1. wire'[x] = wire[x] \/ (wire[x] # <<>> /\ wire'[x] = Tail(wire[x]))
        BY <1>0, <2>1, TwoEnds
    <3>2. Opened(x)'
        BY <1>0, <2>1, <2>2 DEF Opened
    <3> QED BY <3>1, <3>2
  <2>4. DOMAIN wire' = Ends
      BY <1>0, <2>1
  <2> QED BY <1>0, <2>1, <2>2, <2>3, <2>4, StreamStep
<1>5. ASSUME NEW e \in Ends, NEW c \in Capabilities, NEW id \in MessageIds,
             SendSubprotocol(e, Name(c), id)
      PROVE  StreamInv'
  <2> DEFINE f == Frame("subprotocol", WireId(shared[e], Name(c), id), Subprotocol(Name(c), id))
  <2>1. /\ state[e] = "open" /\ Sendable(shared[e], Name(c), id)
        /\ wire' = [wire EXCEPT ![e] = Append(@, f)]
        /\ caps' = caps /\ state' = state /\ shared' = shared
        /\ sent' = sent /\ received' = received
      BY <1>5 DEF SendSubprotocol, CanSend, Put
  <2>2. f \in Frames(e)'
    <3> DEFINE m == <<Name(c), id>>
    <3>1. m \in Messages(e) /\ m[1] = Name(c) /\ m[2] = id
        BY <2>1 DEF Messages
    <3> HIDE DEF m
    <3>2. f \in SubprotocolFrames(e)
        BY <3>1 DEF SubprotocolFrames
    <3>3. Frames(e) \subseteq Frames(e)'
        BY <2>1, FramesGrow
    <3> HIDE DEF f
    <3> QED BY <3>2, <3>3 DEF Frames
  <2> HIDE DEF f
  <2>3. ASSUME NEW x \in Ends
        PROVE  /\ \/ wire'[x] = wire[x] \/ \E g \in Frames(x)' : wire'[x] = Append(wire[x], g)
               /\ Opened(x)'
    <3>1. wire'[x] = wire[x] \/ \E g \in Frames(x)' : wire'[x] = Append(wire[x], g)
        BY <1>0, <2>1, <2>2
    <3>2. Opened(x)'
        BY <1>0, <2>1 DEF Opened
    <3> QED BY <3>1, <3>2
  <2>4. DOMAIN wire' = Ends
      BY <1>0, <2>1
  <2> QED BY <1>0, <2>1, <2>3, <2>4, StreamStep
<1>6. ASSUME NEW e \in Ends, SendDisconnect(e, 0) PROVE StreamInv'
  <2> DEFINE f == Frame("base", DisconnectPayload(0), Disconnect(0))
  <2>1. /\ wire' = [wire EXCEPT ![e] = Append(@, f)]
        /\ caps' = caps /\ state' = state /\ shared' = shared
        /\ sent' = sent /\ received' = received
      BY <1>6 DEF SendDisconnect, Put
  <2>2. f \in Frames(e)'
      BY DEF Frames, BaseFrames, DisconnectPayload
  <2> HIDE DEF f
  <2>3. ASSUME NEW x \in Ends
        PROVE  /\ \/ wire'[x] = wire[x] \/ \E g \in Frames(x)' : wire'[x] = Append(wire[x], g)
               /\ Opened(x)'
    <3>1. wire'[x] = wire[x] \/ \E g \in Frames(x)' : wire'[x] = Append(wire[x], g)
        BY <1>0, <2>1, <2>2
    <3>2. Opened(x)'
        BY <1>0, <2>1 DEF Opened
    <3> QED BY <3>1, <3>2
  <2>4. DOMAIN wire' = Ends
      BY <1>0, <2>1
  <2> QED BY <1>0, <2>1, <2>3, <2>4, StreamStep
<1>7. CASE UNCHANGED vars
  <2>1. /\ caps' = caps /\ state' = state /\ shared' = shared /\ wire' = wire
        /\ sent' = sent /\ received' = received
      BY <1>7 DEF vars
  <2>2. \A x \in Ends : Opened(x)'
      BY <1>0, <2>1 DEF Opened
  <2> QED BY <1>0, <2>1, <2>2, StreamStep
<1> QED BY <1>1, <1>2, <1>3, <1>4, <1>5, <1>6, <1>7 DEF Next

(***************************************************************************)
(* The invariant of the stream.                                            *)
(***************************************************************************)
LEMMA StreamInvariant == Spec => []StreamInv
BY StreamInit, StreamNext, PTL DEF Spec

(***************************************************************************)
(* Whatever the two ends registered, an open stream has exactly the best   *)
(* common capabilities, in the order of names, and at least one            *)
(* (peer.rs:303-323, main.rs:330-332).                                     *)
(***************************************************************************)
THEOREM BestShared == Spec => []SharedBest
<1>1. StreamInv => SharedBest
  <2> SUFFICES ASSUME StreamInv, NEW e \in Ends, state[e] = "open"
               PROVE  LET best == Best(ToSet(caps[e]) \cap ToSet(caps[Other(e)]))
                      IN  best # {} /\ ToSet(shared[e]) = best /\ Ascending(shared[e])
      BY DEF SharedBest, Best
  <2>1. /\ shared[e] = SharedCapabilities(caps[e], caps[Other(e)]) /\ shared[e] # <<>>
        /\ caps[e] \in CapabilityLists
      BY DEF StreamInv, Opened
  <2>2. /\ shared[e] \in CapabilityLists
        /\ ToSet(shared[e]) = Best(ToSet(caps[e]) \cap ToSet(caps[Other(e)]))
      BY <2>1, NegotiationIsBest
  <2>3. ToSet(shared[e]) # {}
    <3>1. Head(shared[e]) = shared[e][1] /\ 1 \in DOMAIN shared[e]
        BY <2>1, <2>2, HeadTailProperties, LenProperties, EmptySeq DEF CapabilityLists
    <3> QED BY <3>1 DEF ToSet
  <2> QED BY <2>2, <2>3 DEF CapabilityLists
<1> QED BY <1>1, StreamInvariant, PTL

\* Both ends of a connection number the same capabilities in the same order.
EndsAgree ==
    \A e \in Ends : state[e] = "open" /\ state[Other(e)] = "open" => shared[e] = shared[Other(e)]

(***************************************************************************)
(* The lists the two ends compute from opposite arguments are the same.    *)
(***************************************************************************)
LEMMA SameList == StreamInv => EndsAgree
<1> SUFFICES ASSUME StreamInv, NEW e \in Ends, state[e] = "open", state[Other(e)] = "open"
             PROVE  shared[e] = shared[Other(e)]
    BY DEF EndsAgree
<1>1. Other(e) \in Ends /\ Other(Other(e)) = e
    BY TwoEnds
<1>2. /\ shared[e] = SharedCapabilities(caps[e], caps[Other(e)])
      /\ shared[Other(e)] = SharedCapabilities(caps[Other(e)], caps[e])
      /\ caps[e] \in CapabilityLists /\ caps[Other(e)] \in CapabilityLists
    BY <1>1 DEF StreamInv, Opened
<1>3. /\ shared[e] \in CapabilityLists
      /\ ToSet(shared[e]) = Best(ToSet(caps[e]) \cap ToSet(caps[Other(e)]))
    BY <1>2, NegotiationIsBest
<1>4. /\ shared[Other(e)] \in CapabilityLists
      /\ ToSet(shared[Other(e)]) = Best(ToSet(caps[Other(e)]) \cap ToSet(caps[e]))
    BY <1>2, NegotiationIsBest
<1>5. ToSet(caps[e]) \cap ToSet(caps[Other(e)]) = ToSet(caps[Other(e)]) \cap ToSet(caps[e])
    OBVIOUS
<1> QED BY <1>3, <1>4, <1>5, AscendingEqual

(***************************************************************************)
(* Two open ends have the same list of shared capabilities: start_send and *)
(* poll_next count message ids along the same list (peer.rs:453-468,       *)
(* 525-564).                                                               *)
(***************************************************************************)
THEOREM Agreement == Spec => []EndsAgree
BY SameList, StreamInvariant, PTL

-----------------------------------------------------------------------------
(* One shared capability.                                                   *)

(***************************************************************************)
(* A message of the only shared capability is delivered as it was sent.    *)
(***************************************************************************)
LEMMA OneCapability ==
    ASSUME NEW c \in Capabilities, NEW name, NEW id \in Nat,
           Reserved + Lengths[c] <= OneByte, Sendable(<<c>>, name, id)
    PROVE  Delivered(<<c>>, WireId(<<c>>, name, id)) = Subprotocol(name, id)
<1>1. Len(<<c>>) = 1 /\ <<c>>[1] = c /\ Lengths[c] \in Nat
    BY CapabilitiesAssumption
<1>2. Index(<<c>>, name) = 1 /\ Name(c) = name /\ id < Lengths[c]
  <2> DEFINE I == {i \in 1 .. Len(<<c>>) : Name(<<c>>[i]) = name}
  <2>1. Index(<<c>>, name) = IF I # {} THEN Min(I) ELSE 0
      BY DEF Index, SelectInSeq
  <2>2. I \subseteq {1}
      BY <1>1
  <2>3. I # {} => I = {1} /\ Name(c) = name
      BY <1>1, <2>2
  <2>4. Min({1}) = 1
      BY DEF Min
  <2> HIDE DEF I
  <2>5. Index(<<c>>, name) = 1 /\ Name(c) = name
      BY <2>1, <2>3, <2>4 DEF Sendable
  <2> QED BY <1>1, <2>5 DEF Sendable
<1>3. WireId(<<c>>, name, id) = Reserved + id
  <2> DEFINE Step(g, i) == IF i = 0 THEN Reserved ELSE g[i - 1] + Lengths[<<c>>[i]]
             first == CHOOSE g : g = [i \in 0 .. Len(<<c>>) |-> Step(g, i)]
             w == [i \in 0 .. 1 |-> IF i = 0 THEN Reserved ELSE Reserved + Lengths[c]]
  <2>1. w = [i \in 0 .. Len(<<c>>) |-> Step(w, i)]
    <3>1. \A i \in 0 .. 1 : w[i] = Step(w, i)
        BY <1>1
    <3> HIDE DEF Step
    <3> QED BY <1>1, <3>1
  <2>2. first = [i \in 0 .. Len(<<c>>) |-> Step(first, i)]
    <3> HIDE DEF Step, w
    <3> QED BY <2>1
  <2>3. WireId(<<c>>, name, id) = first[0] + id
      BY <1>2 DEF WireId
  <2> HIDE DEF first
  <2>4. first[0] = Reserved
      BY <1>1, <2>2
  <2> QED BY <2>3, <2>4, ZenonT(60)
<1>4. Subtract(<<c>>, id) = [id |-> id, index |-> 0]
  <2> DEFINE Step(g, i) ==
               IF i = 0 THEN [id |-> id, index |-> 0]
               ELSE IF g[i - 1].id > Lengths[<<c>>[i]]
               THEN [id |-> g[i - 1].id - Lengths[<<c>>[i]], index |-> g[i - 1].index + 1]
               ELSE g[i - 1]
             m == CHOOSE g : g = [i \in 0 .. Len(<<c>>) |-> Step(g, i)]
             w == [i \in 0 .. 1 |-> [id |-> id, index |-> 0]]
  <2>1. w = [i \in 0 .. Len(<<c>>) |-> Step(w, i)]
    <3>1. \A i \in 0 .. 1 : w[i] = Step(w, i)
        BY <1>1, <1>2
    <3> HIDE DEF Step
    <3> QED BY <1>1, <3>1
  <2>2. m = [i \in 0 .. Len(<<c>>) |-> Step(m, i)]
    <3> HIDE DEF Step, w
    <3> QED BY <2>1
  <2>3. Subtract(<<c>>, id) = m[1]
      BY <1>1 DEF Subtract
  <2> HIDE DEF m
  <2>4. m[0] = [id |-> id, index |-> 0]
      BY <1>1, <2>2
  <2>5. m[1] = Step(m, 1)
      BY <1>1, <2>2
  <2>6. m[1] = m[0]
      BY <1>1, <1>2, <2>4, <2>5
  <2> QED BY <2>3, <2>4, <2>6
<1>5. Unmux(<<c>>, Reserved + id) = [id |-> id, index |-> 0]
  <2> DEFINE w == Reserved + id
  <2>1. w - Reserved = id
      BY DEF Reserved
  <2> HIDE DEF w
  <2>2. Unmux(<<c>>, w) = Subtract(<<c>>, w - Reserved)
      BY Zenon DEF Unmux
  <2>3. Unmux(<<c>>, w) = [id |-> id, index |-> 0]
      BY <1>4, <2>1, <2>2, Zenon
  <2> QED BY <2>3 DEF w
<1>6. Reserved + id < OneByte
    BY <1>1, <1>2 DEF Reserved, OneByte
<1> QED BY <1>1, <1>2, <1>3, <1>5, <1>6 DEF Delivered, Reserved, OneByte

\* A capability has few enough messages for their ids to fit one byte, as eth has.
OneByteIds == \A c \in Capabilities : Reserved + Lengths[c] <= OneByte

(***************************************************************************)
(* Receiving keeps the round trip: the frame was numbered along the list   *)
(* that the receiver counts along.                                         *)
(***************************************************************************)
LEMMA ReceiveRoundTrip ==
    ASSUME OneByteIds, StreamInv, NEW e \in Ends, Receive(e), Len(shared[e]) = 1,
           sent'[e] # None, sent'[e][1] = "subprotocol"
    PROVE  received'[e] = sent'[e]
<1>1. PICK o \in Ends : o = Other(e)
    BY TwoEnds
<1> DEFINE f == Head(wire[o])
<1>2. f \in Frames(o)
    BY <1>1, HeadTailProperties DEF Receive, StreamInv
<1>3. /\ state[e] = "open" /\ sent'[e] = f.meant
      /\ f.kind # "base" => received'[e] = Delivered(shared[e], f.body)
    BY <1>1 DEF Receive, StreamInv
<1> HIDE DEF f
<1>4. f \notin HelloFrames(o)
    BY <1>3 DEF HelloFrames, Frame
<1>5. f \notin BaseFrames
  <2> SUFFICES ASSUME f \in BaseFrames PROVE FALSE
      OBVIOUS
  <2>1. PICK n \in {0, 3, 4} : f.meant = Disconnect(n)
      BY <1>3 DEF BaseFrames, Refusals, Frame
  <2>2. f.meant[1] = "disconnect"
      BY <2>1 DEF Disconnect
  <2> QED BY <1>3, <2>2
<1>6. PICK m \in Messages(o) :
        f = Frame("subprotocol", WireId(shared[o], m[1], m[2]), Subprotocol(m[1], m[2]))
    BY <1>2, <1>4, <1>5 DEF Frames, SubprotocolFrames
<1>7. /\ f.kind = "subprotocol" /\ f.body = WireId(shared[o], m[1], m[2])
      /\ f.meant = Subprotocol(m[1], m[2])
    BY <1>6 DEF Frame
<1>8. state[o] = "open" /\ Sendable(shared[o], m[1], m[2]) /\ m[2] \in Nat
    BY <1>6, IdsAssumption DEF Messages
<1>9. shared[e] = shared[o]
    BY <1>1, <1>3, <1>8, SameList DEF EndsAgree
<1>10. PICK c \in Capabilities : shared[e] = <<c>>
  <2>1. shared[e] \in Seq(Capabilities)
    <3>1. /\ shared[e] = SharedCapabilities(caps[e], caps[Other(e)])
          /\ caps[e] \in CapabilityLists
        BY <1>3 DEF StreamInv, Opened
    <3>2. SharedCapabilities(caps[e], caps[Other(e)]) \in CapabilityLists
        BY <3>1, NegotiationIsBest
    <3> QED BY <3>1, <3>2 DEF CapabilityLists
  <2>2. shared[e][1] \in Capabilities
      BY <2>1, ElementOfSeq
  <2>3. <<shared[e][1]>> \in Seq(Capabilities)
      BY <2>2
  <2>4. shared[e] = <<shared[e][1]>>
      BY <2>1, <2>3, SeqEqual
  <2> QED BY <2>2, <2>4
<1>11. Delivered(<<c>>, WireId(<<c>>, m[1], m[2])) = Subprotocol(m[1], m[2])
  <2>1. Reserved + Lengths[c] <= OneByte
      BY DEF OneByteIds
  <2> QED BY <1>8, <1>9, <1>10, <2>1, OneCapability
<1>12. received'[e] = Delivered(<<c>>, WireId(<<c>>, m[1], m[2]))
    BY <1>3, <1>7, <1>9, <1>10
<1> QED BY <1>3, <1>7, <1>11, <1>12

(***************************************************************************)
(* With a single shared capability, as the sentry registers, every message *)
(* arrives with the name and the id it was sent with (peer.rs:453-468,     *)
(* 525-564).                                                               *)
(***************************************************************************)
THEOREM RoundTripOne == OneByteIds => (Spec => []RoundTripOneCapability)
<1> SUFFICES ASSUME OneByteIds PROVE Spec => []RoundTripOneCapability
    OBVIOUS
<1>1. Init => RoundTripOneCapability
    BY DEF Init, RoundTripOneCapability
<1>2. StreamInv /\ RoundTripOneCapability /\ [Next]_vars => RoundTripOneCapability'
  <2> SUFFICES ASSUME StreamInv, RoundTripOneCapability, [Next]_vars, NEW x \in Ends,
                      Len(shared'[x]) = 1, sent'[x] # None, sent'[x][1] = "subprotocol"
               PROVE  received'[x] = sent'[x]
      BY DEF RoundTripOneCapability
  <2>1. CASE \E e \in Ends : Receive(e)
    <3>1. PICK e \in Ends : Receive(e)
        BY <2>1
    <3>2. shared' = shared
        BY <3>1 DEF Receive
    <3>3. CASE x = e
        BY <3>1, <3>2, <3>3, ReceiveRoundTrip
    <3>4. CASE x # e
      <4>1. sent'[x] = sent[x] /\ received'[x] = received[x]
          BY <3>1, <3>4 DEF Receive, StreamInv
      <4> QED BY <3>2, <4>1 DEF RoundTripOneCapability
    <3> QED BY <3>3, <3>4
  <2>2. CASE \E e \in Ends : RecvHello(e)
    <3>1. PICK e \in Ends : RecvHello(e)
        BY <2>2
    <3>2. sent' = sent /\ received' = received /\ sent[e] = None
        BY <3>1 DEF RecvHello, StreamInv, Opened
    <3>3. x # e
        BY <3>2
    <3>4. shared'[x] = shared[x]
        BY <3>1, <3>3 DEF RecvHello, Negotiated, StreamInv
    <3> QED BY <3>2, <3>4 DEF RoundTripOneCapability
  <2>3. CASE shared' = shared /\ sent' = sent /\ received' = received
      BY <2>3 DEF RoundTripOneCapability
  <2> QED BY <2>1, <2>2, <2>3
        DEF Next, vars, SendHello, Refuse, SendSubprotocol, SendDisconnect
<1> QED BY <1>1, <1>2, StreamInvariant, PTL DEF Spec

==============================================================================
