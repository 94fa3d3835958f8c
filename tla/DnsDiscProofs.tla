---------------------------- MODULE DnsDiscProofs ----------------------------
(***************************************************************************)
(* Proofs that DNS discovery reports only nodes of trees that allowed      *)
(* links lead to and that their links' keys signed, and that a query which *)
(* ends without an error has reported all of them, for any zone, whitelist *)
(* and number of queries and failing lookups.                              *)
(*                                                                         *)
(* The first inductive invariant follows a name from the root down: the    *)
(* name of a task is below a root that was verified, so what its record    *)
(* says, and thus every item that any channel holds, belongs to the tree.  *)
(*                                                                         *)
(* The second one counts the debts of the pollers that the pump hears: a   *)
(* poller owes what is below its name, or what it holds; a node of the     *)
(* trees is reported or owed, unless an error is on its way to the pump.   *)
(***************************************************************************)
EXTENDS DnsDisc, SequenceTheorems, TLAPS

ValidTrees(z) == {t \in Reached(z) : Valid(z, t)}

Items(z) == (UNION {EnrNodes(z, t) : t \in ValidTrees(z)}) \cup {Broken}

RootHash(z, tree, kind) ==
    IF kind = "link" THEN z[tree.host][Apex].link ELSE z[tree.host][Apex].enr

TaskNames(z) == [host : DOMAIN z, hash : Hashes \cup {None}, kind : {"link", "enr"}]

Paths(z) == Seq(Nat \cup TaskNames(z))

\* The name of a task is below the root of a tree that was reached and verified.
OfTree(z, name) ==
    /\ name \in TaskNames(z)
    /\ \E t \in ValidTrees(z) :
         /\ name.host = t.host
         /\ name.hash \in Names(z, t.host) =>
              name.hash \in Below(z, t.host, RootHash(z, t, name.kind))

TreeOf(r) == [host |-> r.host, key |-> r.key]

GoodPoller(z, p, r) ==
    /\ p \in Paths(z)
    /\ IsTask(p) => OfTree(z, Last(p))
    /\ DOMAIN r = {"at", "host", "key", "chan", "item", "then"}
    /\ r.chan \in Seq(Items(z))
    /\ r.at = "send" => r.item \in Items(z)
    /\ r.then \in Polling \cup {"end"}
    /\ r.at = "root" => TreeOf(r) \in Reached(z)
    /\ r.at = "links" \/ (r.at = "send" /\ r.then = "links") => TreeOf(r) \in ValidTrees(z)

GoodPollers(f) ==
    /\ \A p \in DOMAIN f : GoodPoller(zone, p, f[p])
    /\ Top \in DOMAIN f

\* The inductive invariant.
PollersInv ==
    /\ zone \in Zones /\ query \in Nat
    /\ GoodPollers(poller)
    /\ OnlyTreeNodes

-----------------------------------------------------------------------------
(* The trees of a zone.                                                     *)

(***************************************************************************)
(* A name is below itself.                                                 *)
(***************************************************************************)
LEMMA BelowItself ==
    ASSUME NEW z, NEW host, NEW hash \in Names(z, host)
    PROVE  hash \in Below(z, host, hash)
BY DEF Below

(***************************************************************************)
(* The children of a branch are below what the branch is below.            *)
(***************************************************************************)
LEMMA BelowBranch ==
    ASSUME NEW z, NEW host, NEW hash, NEW h \in Below(z, host, hash),
           z[host][h].type = "branch",
           NEW c \in ToSet(z[host][h].children) \cap Names(z, host)
    PROVE  c \in Below(z, host, hash)
<1> SUFFICES ASSUME NEW names \in SUBSET Names(z, host),
                    hash \in Names(z, host) => hash \in names,
                    BranchesStay(z, host, names)
             PROVE  c \in names
    BY DEF Below
<1>1. h \in names
    BY DEF Below
<1> QED BY <1>1 DEF BranchesStay

(***************************************************************************)
(* The trees that a verified tree links to are reached.                    *)
(***************************************************************************)
LEMMA LinkedReached ==
    ASSUME NEW z, NEW t \in ValidTrees(z), NEW h \in Below(z, t.host, z[t.host][Apex].link),
           z[t.host][h].type = "link",
           domain_is_allowed(z[t.host][h].domain, z[t.host][h].key)
    PROVE  LinkTo(z[t.host][h]) \in Reached(z)
<1> DEFINE u == LinkTo(z[t.host][h])
<1>1. u \in Linked(z, t)
    BY DEF Linked, domain_is_allowed
<1>2. t.host \in DOMAIN z /\ h \in DOMAIN z[t.host]
    BY DEF Below, Names
<1>3. u \in AllLinked(z)
    BY <1>2 DEF AllLinked
<1> HIDE DEF u
<1> SUFFICES ASSUME NEW trees \in SUBSET AllLinked(z), Start \in trees, LinksStay(z, trees)
             PROVE  u \in trees
    BY <1>3 DEF Reached, u
<1>4. t \in trees /\ Valid(z, t)
    BY DEF ValidTrees, Reached
<1> QED BY <1>1, <1>4 DEF LinksStay

(***************************************************************************)
(* The tree of the domain is reached.                                      *)
(***************************************************************************)
LEMMA StartReached == \A z : Start \in Reached(z)
BY DEF Reached, AllLinked

(***************************************************************************)
(* What get_record and from_str make of a text: nothing but the texts of   *)
(* the zone, and of a branch a part of its children (lib.rs:130-218).      *)
(***************************************************************************)
LEMMA RecordFacts ==
    ASSUME zone \in Zones, NEW host, NEW hash
    PROVE  LET r == Record(host, hash)
               text == zone[host][hash] IN
           /\ r.type \in {"branch", "root", "link", "enr"} =>
                host \in DOMAIN zone /\ hash \in Names(zone, host) /\ r.type = text.type
           /\ r.type = "branch" => /\ r.children \subseteq Hashes \cup {None}
                                   /\ r.children \subseteq ToSet(text.children) \cup {None}
           /\ r.type \in {"root", "link", "enr"} => r = text
<1> DEFINE text == zone[host][hash]
           r == Record(host, hash)
           cut == get_record(host, hash)
           there == host \in DOMAIN zone /\ hash \in DOMAIN zone[host]
<1>1. CASE ~there
  <2>1. r = Absent
      BY <1>1 DEF Record, get_record
  <2> QED BY <2>1 DEF Absent
<1>2. CASE there /\ text.type = "branch"
  <2>1. text \in [type : {"branch"}, children : Seq(Hashes)]
      BY <1>2, ZonesAssumption
  <2>2. cut \in [type : {"branch"}, children : Seq(Hashes \cup {None})]
        /\ ToSet(cut.children) \subseteq ToSet(text.children) \cup {None}
    <3>1. CASE Len(text.children) > TxtHashes
      <4> DEFINE kept == SubSeq(text.children, 1, TxtHashes)
      <4>1. kept \in Seq(Hashes) /\ Len(kept) = TxtHashes
            /\ \A i \in 1 .. TxtHashes : kept[i] = text.children[i]
          BY <2>1, <3>1, TxtAssumption
      <4>2. cut = [text EXCEPT !.children = Append(kept, None)]
          BY <1>2, <3>1 DEF get_record
      <4> HIDE DEF kept
      <4>3. Append(kept, None) \in Seq(Hashes \cup {None})
            /\ Len(Append(kept, None)) = TxtHashes + 1
            /\ \A i \in 1 .. TxtHashes : Append(kept, None)[i] = text.children[i]
            /\ Append(kept, None)[TxtHashes + 1] = None
          BY <4>1, TxtAssumption
      <4> DEFINE more == Append(kept, None)
      <4> HIDE DEF more
      <4>4. cut.type = "branch" /\ cut.children = more
            /\ cut \in [type : {"branch"}, children : Seq(Hashes \cup {None})]
          BY <2>1, <4>2, <4>3 DEF more
      <4>5. ToSet(more) \subseteq ToSet(text.children) \cup {None}
        <5> SUFFICES ASSUME NEW i \in 1 .. TxtHashes + 1
                     PROVE  more[i] \in ToSet(text.children) \cup {None}
            BY <4>3 DEF ToSet, more
        <5>1. CASE i = TxtHashes + 1
            BY <4>3, <5>1 DEF more
        <5>2. CASE i \in 1 .. TxtHashes
            BY <2>1, <3>1, <4>3, <5>2, TxtAssumption DEF ToSet, more
        <5> QED BY <5>1, <5>2, TxtAssumption
      <4> QED BY <4>4, <4>5
    <3>2. CASE ~(Len(text.children) > TxtHashes)
        BY <1>2, <2>1, <3>2 DEF get_record
    <3> QED BY <3>1, <3>2
  <2> HIDE DEF cut
  <2>3. r = [cut EXCEPT !.children = ToSet(@)]
    <3>1. cut # Absent
        BY <2>2 DEF Absent
    <3>2. r = from_str(cut)
        BY <3>1 DEF Record, cut
    <3> QED BY <2>2, <3>2 DEF from_str
  <2>4. ToSet(cut.children) \subseteq Hashes \cup {None}
      BY <2>2 DEF ToSet
  <2>5. r.type = "branch" /\ r.children = ToSet(cut.children)
      BY <2>2, <2>3
  <2> HIDE DEF r
  <2>6. host \in DOMAIN zone /\ hash \in Names(zone, host)
      BY <1>2 DEF Names
  <2> QED BY <1>2, <2>2, <2>4, <2>5, <2>6 DEF r
<1>3. CASE there /\ text.type # "branch"
  <2>1. cut = text
      BY <1>3 DEF get_record
  <2>2. CASE text.type \in {"root", "link", "enr"}
    <3>1. from_str(text) = text
        BY <2>2 DEF from_str
    <3>2. text # Absent
        BY <2>2 DEF Absent
    <3> QED BY <1>3, <2>1, <2>2, <3>1, <3>2 DEF Record, Names
  <2>3. CASE text.type \notin {"root", "link", "enr"}
    <3>1. from_str(text) = [type |-> "invalid"]
        BY <1>3, <2>3 DEF from_str
    <3>2. r \in {Absent, [type |-> "invalid"]}
        BY <2>1, <3>1 DEF Record
    <3> QED BY <3>2 DEF Absent
  <2> QED BY <2>2, <2>3
<1> QED BY <1>1, <1>2, <1>3

-----------------------------------------------------------------------------
(* The updates of a poller.                                                 *)

(***************************************************************************)
(* A new poller, whose channel is empty.                                   *)
(***************************************************************************)
LEMMA NewGood ==
    ASSUME NEW p \in Paths(zone), IsTask(p) => OfTree(zone, Last(p)),
           NEW at \in {"lookup", "root"}, NEW host, NEW key,
           at = "root" => [host |-> host, key |-> key] \in Reached(zone)
    PROVE  GoodPoller(zone, p, New(at, host, key))
BY DEF New, GoodPoller, TreeOf

(***************************************************************************)
(* A poller that is through.                                               *)
(***************************************************************************)
LEMMA EndGood ==
    ASSUME GoodPollers(poller), NEW p \in DOMAIN poller
    PROVE  GoodPollers(End(p))
<1>1. CASE IsTask(p)
  <2>1. End(p) = [q \in DOMAIN poller \ {p} |-> poller[q]]
      BY <1>1 DEF End, Restrict
  <2>2. Top # p
    <3>1. ~IsTask(Top)
        BY DEF Top, IsTask
    <3> QED BY <1>1, <3>1
  <2> QED BY <2>1, <2>2 DEF GoodPollers
<1>2. CASE ~IsTask(p)
  <2>1. End(p) = [poller EXCEPT ![p].at = "over", ![p].item = "complete"]
      BY <1>2 DEF End
  <2>2. GoodPoller(zone, p, poller[p])
      BY DEF GoodPollers
  <2>3. GoodPoller(zone, p, End(p)[p])
      BY <2>1, <2>2 DEF GoodPoller, TreeOf
  <2> QED BY <2>1, <2>3 DEF GoodPollers
<1> QED BY <1>1, <1>2

(***************************************************************************)
(* A poller that passes an item on.                                        *)
(***************************************************************************)
LEMMA YieldGood ==
    ASSUME GoodPollers(poller), NEW p \in DOMAIN poller, NEW item \in Items(zone),
           NEW then \in Polling \cup {"end"},
           then = "links" => TreeOf(poller[p]) \in ValidTrees(zone)
    PROVE  /\ GoodPollers(Yield(p, item, then))
           /\ GoodPollers([Yield(p, item, then) EXCEPT ![p].chan = <<>>])
<1> DEFINE f == Yield(p, item, then)
           g == [f EXCEPT ![p].chan = <<>>]
<1>1. GoodPoller(zone, p, poller[p])
    BY DEF GoodPollers
<1>2. /\ DOMAIN f = DOMAIN poller
      /\ \A q \in DOMAIN f : q # p => f[q] = poller[q]
      /\ DOMAIN f[p] = DOMAIN poller[p]
      /\ f[p].at = "send" /\ f[p].item = item /\ f[p].then = then
      /\ f[p].host = poller[p].host /\ f[p].key = poller[p].key
      /\ f[p].chan = poller[p].chan
    BY <1>1 DEF Yield, GoodPoller
<1> HIDE DEF f
<1>3. GoodPoller(zone, p, f[p])
    BY <1>1, <1>2 DEF GoodPoller, TreeOf
<1>4. /\ DOMAIN g = DOMAIN f /\ \A q \in DOMAIN g : q # p => g[q] = f[q]
      /\ DOMAIN g[p] = DOMAIN f[p]
      /\ g[p].at = f[p].at /\ g[p].item = f[p].item /\ g[p].then = f[p].then
      /\ g[p].host = f[p].host /\ g[p].key = f[p].key /\ g[p].chan = <<>>
    BY <1>2, <1>3 DEF GoodPoller
<1> HIDE DEF g
<1>5. GoodPoller(zone, p, g[p])
    BY <1>3, <1>4 DEF GoodPoller, TreeOf
<1>6. GoodPollers(f)
    BY <1>2, <1>3 DEF GoodPollers
<1>7. GoodPollers(g)
    BY <1>6, <1>4, <1>5 DEF GoodPollers
<1> QED BY <1>6, <1>7 DEF f, g

(***************************************************************************)
(* A poller that passes an error on.                                       *)
(***************************************************************************)
LEMMA FailGood ==
    ASSUME GoodPollers(poller), NEW p \in DOMAIN poller
    PROVE  GoodPollers(Fail(p)) /\ GoodPollers([Fail(p) EXCEPT ![p].chan = <<>>])
<1>1. Broken \in Items(zone)
    BY DEF Items
<1> QED BY <1>1, YieldGood DEF Fail

(***************************************************************************)
(* A poller that starts tasks, for names of a tree.                        *)
(***************************************************************************)
LEMMA BranchGood ==
    ASSUME GoodPollers(poller), NEW p \in DOMAIN poller, NEW at \in Polling,
           at = "links" => TreeOf(poller[p]) \in ValidTrees(zone),
           NEW host, NEW hashes, NEW kind,
           \A h \in hashes : OfTree(zone, [host |-> host, hash |-> h, kind |-> kind])
    PROVE  GoodPollers(Branch(p, at, host, hashes, kind))
<1> DEFINE name(h) == [host |-> host, hash |-> h, kind |-> kind]
           tasks == {Append(p, name(h)) : h \in hashes}
           f == Branch(p, at, host, hashes, kind)
<1>1. /\ DOMAIN f = DOMAIN poller \cup tasks
      /\ f[p] = [poller[p] EXCEPT !.at = at]
      /\ \A q \in DOMAIN poller : q # p => f[q] = poller[q]
      /\ \A q \in tasks : q \notin DOMAIN poller => f[q] = New("lookup", host, None)
    BY DEF Branch
<1>2. GoodPoller(zone, p, poller[p])
    BY DEF GoodPollers
<1> HIDE DEF f, tasks
<1>3. GoodPoller(zone, p, f[p])
    BY <1>1, <1>2 DEF GoodPoller, TreeOf, Polling
<1>4. ASSUME NEW h \in hashes PROVE GoodPoller(zone, Append(p, name(h)), New("lookup", host, None))
  <2>1. OfTree(zone, name(h)) /\ name(h) \in Nat \cup TaskNames(zone)
      BY DEF OfTree
  <2>2. p \in Seq(Nat \cup TaskNames(zone))
      BY <1>2 DEF GoodPoller, Paths
  <2> HIDE DEF name
  <2>3. /\ Append(p, name(h)) \in Paths(zone)
        /\ Last(Append(p, name(h))) = name(h)
      BY <2>1, <2>2 DEF Paths, Last
  <2> QED BY <2>1, <2>3, NewGood
<1>5. \A q \in tasks : GoodPoller(zone, q, New("lookup", host, None))
    BY <1>4 DEF tasks
<1> HIDE DEF name
<1> QED BY <1>1, <1>3, <1>5 DEF GoodPollers, f

(***************************************************************************)
(* A poller that has passed its item on.                                   *)
(***************************************************************************)
LEMMA SentGood ==
    ASSUME GoodPollers(poller), NEW p \in DOMAIN poller, poller[p].at = "send"
    PROVE  GoodPollers(Sent(p))
<1>1. CASE poller[p].then = "end"
    BY <1>1, EndGood DEF Sent
<1>2. CASE poller[p].then # "end"
  <2> DEFINE f == Sent(p)
  <2>1. GoodPoller(zone, p, poller[p])
      BY DEF GoodPollers
  <2>2. f = [poller EXCEPT ![p].at = poller[p].then, ![p].item = None]
      BY <1>2 DEF Sent
  <2>3. poller[p].then \notin {"send", "root"}
      BY <2>1 DEF GoodPoller, Polling
  <2>4. GoodPoller(zone, p, f[p])
      BY <2>1, <2>2, <2>3 DEF GoodPoller, TreeOf
  <2> QED BY <2>2, <2>4 DEF GoodPollers
<1> QED BY <1>1, <1>2

-----------------------------------------------------------------------------
(* Every step keeps the invariant.                                          *)

(***************************************************************************)
(* The task of resolve_branch: what the record of its name says.           *)
(***************************************************************************)
LEMMA LookupGood ==
    ASSUME PollersInv, NEW p \in DOMAIN poller, IsTask(p), Lookup(p)
    PROVE  GoodPollers(poller')
<1> DEFINE name == Last(p)
           r == Record(name.host, name.hash)
           text == zone[name.host][name.hash]
<1>1. GoodPollers(poller) /\ zone \in Zones /\ GoodPoller(zone, p, poller[p])
    BY DEF PollersInv, GoodPollers
<1>2. name \in TaskNames(zone)
    BY <1>1 DEF GoodPoller, OfTree
<1>3. PICK t \in ValidTrees(zone) :
         /\ name.host = t.host
         /\ name.hash \in Names(zone, t.host) =>
              name.hash \in Below(zone, t.host, RootHash(zone, t, name.kind))
    BY <1>1 DEF GoodPoller, OfTree
<1>4. /\ r.type \in {"branch", "root", "link", "enr"} =>
           name.hash \in Names(zone, name.host) /\ r.type = text.type
      /\ r.type = "branch" => /\ r.children \subseteq Hashes \cup {None}
                              /\ r.children \subseteq ToSet(text.children) \cup {None}
      /\ r.type \in {"root", "link", "enr"} => r = text
    BY <1>1, RecordFacts
<1>5. \/ r.type = "branch"
           /\ poller' = Branch(p, "branch", name.host, r.children, name.kind)
      \/ /\ r.type = "link" /\ name.kind = "link" /\ domain_is_allowed(r.domain, r.key)
         /\ poller' = [poller EXCEPT ![p] = New("root", r.domain, r.key)]
      \/ poller' = End(p)
      \/ r.type = "enr" /\ name.kind = "enr" /\ poller' = Yield(p, r.node, "end")
      \/ poller' = Fail(p)
    BY DEF Lookup
<1> HIDE DEF name, r, text
<1>6. CASE poller' = End(p)
    BY <1>1, <1>6, EndGood
<1>7. CASE poller' = Fail(p)
    BY <1>1, <1>7, FailGood
<1>8. CASE r.type = "branch"
             /\ poller' = Branch(p, "branch", name.host, r.children, name.kind)
  <2>1. ASSUME NEW h \in r.children
        PROVE  OfTree(zone, [host |-> name.host, hash |-> h, kind |-> name.kind])
    <3>1. name.host \in DOMAIN zone /\ name.kind \in {"link", "enr"} /\ h \in Hashes \cup {None}
        BY <1>2, <1>4, <1>8 DEF TaskNames
    <3>2. h \in Names(zone, t.host) => h \in Below(zone, t.host, RootHash(zone, t, name.kind))
      <4> SUFFICES ASSUME h \in Names(zone, t.host)
                   PROVE  h \in Below(zone, t.host, RootHash(zone, t, name.kind))
          OBVIOUS
      <4>1. h # None
          BY <1>1, ZonesAssumption DEF Names
      <4>2. h \in ToSet(zone[t.host][name.hash].children) \cap Names(zone, t.host)
          BY <1>3, <1>4, <1>8, <4>1 DEF text
      <4>3. zone[t.host][name.hash].type = "branch"
            /\ name.hash \in Below(zone, t.host, RootHash(zone, t, name.kind))
          BY <1>3, <1>4, <1>8 DEF text
      <4> QED BY <4>2, <4>3, BelowBranch
    <3> QED BY <1>3, <3>1, <3>2 DEF OfTree, TaskNames
  <2> QED BY <1>1, <1>8, <2>1, BranchGood DEF Polling
<1>9. CASE /\ r.type = "link" /\ name.kind = "link" /\ domain_is_allowed(r.domain, r.key)
           /\ poller' = [poller EXCEPT ![p] = New("root", r.domain, r.key)]
  <2>1. /\ r = zone[t.host][name.hash]
        /\ name.hash \in Below(zone, t.host, zone[t.host][Apex].link)
      BY <1>3, <1>4, <1>9 DEF text, RootHash
  <2>2. LinkTo(r) \in Reached(zone)
      BY <1>9, <2>1, LinkedReached
  <2>3. GoodPoller(zone, p, New("root", r.domain, r.key))
      BY <1>1, <2>2, NewGood DEF LinkTo, GoodPoller
  <2> QED BY <1>1, <1>9, <2>3 DEF GoodPollers
<1>10. CASE r.type = "enr" /\ name.kind = "enr" /\ poller' = Yield(p, r.node, "end")
  <2>1. /\ r = zone[t.host][name.hash]
        /\ name.hash \in Below(zone, t.host, zone[t.host][Apex].enr)
      BY <1>3, <1>4, <1>10 DEF text, RootHash
  <2>2. r.node \in EnrNodes(zone, t)
      BY <1>10, <2>1 DEF EnrNodes
  <2>3. r.node \in Items(zone)
      BY <2>2 DEF Items
  <2> QED BY <1>1, <1>10, <2>3, YieldGood
<1> QED BY <1>5, <1>6, <1>7, <1>8, <1>9, <1>10

(***************************************************************************)
(* The root of a valid tree starts the tasks of its links and its nodes.   *)
(***************************************************************************)
LEMMA RootGood ==
    ASSUME PollersInv, NEW t \in ValidTrees(zone), NEW kind \in {"link", "enr"}
    PROVE  OfTree(zone, [host |-> t.host, hash |-> RootHash(zone, t, kind), kind |-> kind])
<1> DEFINE h == RootHash(zone, t, kind)
           name == [host |-> t.host, hash |-> h, kind |-> kind]
<1>1. zone \in Zones
    BY DEF PollersInv
<1>2. t.host \in DOMAIN zone /\ Apex \in DOMAIN zone[t.host]
      /\ zone[t.host][Apex].type = "root"
    BY DEF ValidTrees, Valid, Names
<1>3. h \in Hashes
    BY <1>1, <1>2, ZonesAssumption DEF RootHash
<1>4. h \in Names(zone, t.host) => h \in Below(zone, t.host, h)
    BY BelowItself
<1> HIDE DEF h
<1>5. name \in TaskNames(zone) /\ name.host = t.host /\ name.hash = h /\ name.kind = kind
    BY <1>2, <1>3 DEF TaskNames
<1> HIDE DEF name
<1>6. OfTree(zone, name)
    BY <1>4, <1>5 DEF OfTree, h
<1> QED BY <1>6 DEF name, h

(***************************************************************************)
(* resolve_tree: the root is verified before its links are resolved.       *)
(***************************************************************************)
LEMMA LookupRootGood ==
    ASSUME PollersInv, NEW p \in DOMAIN poller, LookupRoot(p)
    PROVE  GoodPollers(poller')
<1> DEFINE r == Record(poller[p].host, Apex)
           t == TreeOf(poller[p])
<1>1. GoodPollers(poller) /\ zone \in Zones /\ GoodPoller(zone, p, poller[p])
    BY DEF PollersInv, GoodPollers
<1>2. \/ poller' = End(p) \/ poller' = Fail(p)
      \/ /\ r.type = "root" /\ verify(r, poller[p].key)
         /\ poller' = Branch(p, "links", poller[p].host, {r.link}, "link")
    BY DEF LookupRoot
<1>3. CASE poller' = End(p)
    BY <1>1, <1>3, EndGood
<1>4. CASE poller' = Fail(p)
    BY <1>1, <1>4, FailGood
<1>5. CASE /\ r.type = "root" /\ verify(r, poller[p].key)
           /\ poller' = Branch(p, "links", poller[p].host, {r.link}, "link")
  <2>1. Apex \in Names(zone, poller[p].host) /\ r = zone[poller[p].host][Apex]
      BY <1>1, <1>5, RecordFacts
  <2>2. t \in ValidTrees(zone) /\ t.host = poller[p].host
      BY <1>1, <1>5, <2>1 DEF LookupRoot, GoodPoller, ValidTrees, Valid, TreeOf
  <2>3. r.link = RootHash(zone, t, "link")
      BY <2>1, <2>2 DEF RootHash
  <2> HIDE DEF r, t
  <2>4. OfTree(zone, [host |-> t.host, hash |-> RootHash(zone, t, "link"), kind |-> "link"])
      BY <2>2, RootGood
  <2>5. \A h \in {r.link} : OfTree(zone, [host |-> poller[p].host, hash |-> h, kind |-> "link"])
      BY <2>2, <2>3, <2>4
  <2> QED BY <1>1, <1>5, <2>2, <2>5, BranchGood DEF Polling, t
<1> QED BY <1>2, <1>3, <1>4, <1>5

(***************************************************************************)
(* The end of a branch, after which a verified tree resolves its nodes.    *)
(***************************************************************************)
LEMMA BranchEndsGood ==
    ASSUME PollersInv, NEW p \in DOMAIN poller, BranchEnds(p)
    PROVE  GoodPollers(poller')
<1> DEFINE t == TreeOf(poller[p])
           r == Record(poller[p].host, Apex)
<1>1. GoodPollers(poller) /\ zone \in Zones /\ GoodPoller(zone, p, poller[p])
    BY DEF PollersInv, GoodPollers
<1>2. CASE poller[p].at # "links"
    BY <1>1, <1>2, EndGood DEF BranchEnds
<1>3. CASE poller[p].at = "links"
  <2>1. poller' = Branch(p, "enrs", poller[p].host, {r.enr}, "enr")
      BY <1>3 DEF BranchEnds
  <2>2. t \in ValidTrees(zone) /\ t.host = poller[p].host
      BY <1>1, <1>3 DEF GoodPoller, TreeOf
  <2>3. Valid(zone, t)
      BY <2>2 DEF ValidTrees
  <2>4. r = zone[t.host][Apex]
    <3> DEFINE text == zone[t.host][Apex]
    <3>1. t.host \in DOMAIN zone /\ Apex \in DOMAIN zone[t.host] /\ text.type = "root"
        BY <2>3 DEF Valid, Names
    <3>2. get_record(t.host, Apex) = text
        BY <3>1 DEF get_record
    <3>3. text # Absent
        BY <3>1 DEF Absent
    <3>4. from_str(text) = text
        BY <3>1 DEF from_str
    <3> QED BY <2>2, <3>2, <3>3, <3>4 DEF Record
  <2>5. r.enr = RootHash(zone, t, "enr")
      BY <2>4 DEF RootHash
  <2> HIDE DEF r, t
  <2>6. OfTree(zone, [host |-> t.host, hash |-> RootHash(zone, t, "enr"), kind |-> "enr"])
      BY <2>2, RootGood
  <2>7. \A h \in {r.enr} : OfTree(zone, [host |-> poller[p].host, hash |-> h, kind |-> "enr"])
      BY <2>2, <2>5, <2>6
  <2> QED BY <1>1, <2>1, <2>7, BranchGood DEF Polling
<1> QED BY <1>2, <1>3

(***************************************************************************)
(* What came through the channel is passed on.                             *)
(***************************************************************************)
LEMMA ReceiveGood ==
    ASSUME PollersInv, NEW p \in DOMAIN poller, Receive(p)
    PROVE  GoodPollers(poller')
<1> DEFINE item == Head(poller[p].chan)
<1>1. GoodPollers(poller) /\ GoodPoller(zone, p, poller[p])
    BY DEF PollersInv, GoodPollers
<1>2. poller[p].chan \in Seq(Items(zone)) /\ poller[p].chan # <<>> /\ poller[p].at \in Polling
    BY <1>1 DEF Receive, GoodPoller
<1>3. item \in Items(zone)
    BY <1>2
<1>4. \/ poller' = [Fail(p) EXCEPT ![p].chan = <<>>]
      \/ poller' = [Yield(p, item, poller[p].at) EXCEPT ![p].chan = <<>>]
    BY DEF Receive
<1>5. poller[p].at = "links" => TreeOf(poller[p]) \in ValidTrees(zone)
    BY <1>1 DEF GoodPoller
<1> HIDE DEF item
<1>6. GoodPollers([Yield(p, item, poller[p].at) EXCEPT ![p].chan = <<>>])
    BY <1>1, <1>2, <1>3, <1>5, YieldGood
<1> QED BY <1>1, <1>4, <1>6, FailGood

(***************************************************************************)
(* The item of a task goes into the channel of the poller above.           *)
(***************************************************************************)
LEMMA SendGood ==
    ASSUME PollersInv, NEW p \in DOMAIN poller, Send(p)
    PROVE  GoodPollers(poller')
<1> DEFINE up == Parent(p)
           f == Sent(p)
           item == poller[p].item
<1>1. GoodPollers(poller) /\ GoodPoller(zone, p, poller[p]) /\ poller[p].at = "send"
    BY DEF PollersInv, GoodPollers, Send
<1>2. GoodPollers(f)
    BY <1>1, SentGood
<1>3. CASE ~Hears(up)
    BY <1>2, <1>3 DEF Send
<1>4. CASE Hears(up)
  <2>1. poller' = [c \in DOMAIN f |-> IF c = up THEN [poller[c] EXCEPT !.chan = <<item>>]
                                      ELSE f[c]]
      BY <1>4 DEF Send
  <2>2. up \in DOMAIN poller /\ GoodPoller(zone, up, poller[up])
      BY <1>1, <1>4 DEF Hears, GoodPollers
  <2>3. item \in Items(zone)
      BY <1>1 DEF GoodPoller
  <2> HIDE DEF up, f, item
  <2>4. <<item>> \in Seq(Items(zone))
      BY <2>3
  <2>5. GoodPoller(zone, up, [poller[up] EXCEPT !.chan = <<item>>])
      BY <2>2, <2>4 DEF GoodPoller, TreeOf
  <2> QED BY <1>2, <2>1, <2>5 DEF GoodPollers
<1> QED BY <1>3, <1>4

(***************************************************************************)
(* The top poller is over.                                                 *)
(***************************************************************************)
LEMMA OverGood ==
    ASSUME PollersInv, NEW how
    PROVE  GoodPollers([poller EXCEPT ![Top].at = "over", ![Top].item = how])
<1>1. GoodPollers(poller) /\ Top \in DOMAIN poller /\ GoodPoller(zone, Top, poller[Top])
    BY DEF PollersInv, GoodPollers
<1> DEFINE p == Top
           f == [poller EXCEPT ![p].at = "over", ![p].item = how]
<1> HIDE DEF p
<1>2. GoodPoller(zone, p, poller[p]) /\ p \in DOMAIN poller
    BY <1>1 DEF p
<1>3. GoodPoller(zone, p, f[p])
    BY <1>2 DEF GoodPoller, TreeOf
<1>4. GoodPollers(f)
    BY <1>1, <1>3 DEF GoodPollers
<1> QED BY <1>4 DEF p

(***************************************************************************)
(* The invariant is inductive.                                             *)
(***************************************************************************)
LEMMA NextPollersInv == PollersInv /\ [Next]_vars => PollersInv'
<1> SUFFICES ASSUME PollersInv, [Next]_vars PROVE PollersInv'
    OBVIOUS
<1>1. zone \in Zones /\ query \in Nat /\ GoodPollers(poller) /\ reported \subseteq TreeNodes[zone]
    BY DEF PollersInv, OnlyTreeNodes
<1>2. Top \in DOMAIN poller /\ GoodPoller(zone, Top, poller[Top])
    BY <1>1 DEF GoodPollers
<1>3. ASSUME GoodPollers(poller'), zone' = zone, query' = query,
             reported' \subseteq TreeNodes[zone]
      PROVE  PollersInv'
    BY <1>1, <1>3 DEF PollersInv, GoodPollers, Top, OnlyTreeNodes
<1>4. ASSUME NEW p \in DOMAIN poller, Poller(p) PROVE PollersInv'
  <2>1. GoodPollers(poller')
      BY <1>4, LookupGood, LookupRootGood, ReceiveGood, BranchEndsGood, SendGood DEF Poller
  <2>2. UNCHANGED <<zone, query, reported>>
      BY <1>4 DEF Poller, Lookup, LookupRoot, Receive, BranchEnds, Send
  <2> QED BY <1>1, <1>3, <2>1, <2>2
<1>5. ASSUME NEW p \in DOMAIN poller, LookupFails(p) PROVE PollersInv'
  <2>1. GoodPollers(poller')
      BY <1>1, <1>5, FailGood DEF LookupFails
  <2> QED BY <1>1, <1>3, <1>5, <2>1 DEF LookupFails
<1>6. CASE PumpNode
  <2> DEFINE item == poller[Top].item
  <2>1. item \in Items(zone) /\ item # Broken /\ poller[Top].at = "send"
      BY <1>2, <1>6 DEF PumpNode, GoodPoller
  <2>2. item \notin NoTcp => item \in TreeNodes[zone]
      BY <1>1, <2>1 DEF Items, TreeNodes, ValidTrees
  <2>3. reported' \subseteq TreeNodes[zone]
      BY <1>1, <1>6, <2>2 DEF PumpNode
  <2>4. GoodPollers(poller')
      BY <1>1, <1>2, <1>6, <2>1, SentGood DEF PumpNode
  <2> QED BY <1>3, <1>6, <2>3, <2>4 DEF PumpNode
<1>7. CASE PumpError
    BY <1>1, <1>3, <1>7, OverGood DEF PumpError
<1>8. CASE PumpExpires
    BY <1>1, <1>3, <1>8, OverGood DEF PumpExpires
<1>9. CASE PumpRestarts
  <2> DEFINE top == <<query + 1>>
             new == New("root", Domain, Key)
  <2>1. /\ poller' = [p \in (DOMAIN poller \ {Top}) \cup {top} |->
                        IF p = top THEN new ELSE poller[p]]
        /\ zone' = zone /\ query' = query + 1 /\ reported' = {}
      BY <1>9 DEF PumpRestarts
  <2>2. top \in Paths(zone) /\ ~IsTask(top)
      BY <1>1 DEF Paths, IsTask
  <2>3. GoodPoller(zone, top, new)
      BY <2>2, StartReached, NewGood DEF Start
  <2>4. Top' = top
      BY <2>1 DEF Top
  <2> HIDE DEF top, new
  <2>5. GoodPollers(poller)'
      BY <1>1, <2>1, <2>3, <2>4 DEF GoodPollers
  <2> QED BY <1>1, <2>1, <2>5 DEF PollersInv, OnlyTreeNodes
<1>10. CASE Dialer
    BY <1>1, <1>3, <1>10 DEF Dialer
<1>11. CASE UNCHANGED vars
    BY <1>1, <1>3, <1>11 DEF vars
<1> QED BY <1>4, <1>5, <1>6, <1>7, <1>8, <1>9, <1>10, <1>11 DEF Next

(***************************************************************************)
(* The invariant holds at the start.                                       *)
(***************************************************************************)
LEMMA InitPollersInv == Init => PollersInv
<1> SUFFICES ASSUME Init PROVE PollersInv
    OBVIOUS
<1> DEFINE new == New("root", Domain, Key)
           top == <<1>>
<1>1. zone \in Zones /\ query = 1 /\ poller = [p \in {top} |-> new] /\ reported = {}
    BY DEF Init
<1>2. top \in Paths(zone) /\ ~IsTask(top)
    BY DEF Paths, IsTask
<1>3. GoodPoller(zone, top, new)
    BY <1>2, StartReached, NewGood DEF Start
<1>4. Top = top
    BY <1>1 DEF Top
<1> HIDE DEF new, top
<1> QED BY <1>1, <1>3, <1>4 DEF PollersInv, GoodPollers, OnlyTreeNodes

(***************************************************************************)
(* The dialer is only offered nodes of trees that are allowed and signed,  *)
(* for any zone, whitelist, number of queries and failures.                *)
(***************************************************************************)
THEOREM OnlyNodesOfTheTrees == Spec => []OnlyTreeNodes
<1>1. PollersInv => OnlyTreeNodes
    BY DEF PollersInv
<1> QED BY <1>1, InitPollersInv, NextPollersInv, PTL DEF Spec

-----------------------------------------------------------------------------
(* What a poller still owes.                                                *)

EnrBelow(z, host, hash) ==
    {z[host][h].node : h \in {h \in Below(z, host, hash) : z[host][h].type = "enr"}}

\* The trees that allowed links lead to from a tree.
ReachedFrom(z, t) ==
    {u \in {t} \cup AllLinked(z) :
        \A trees \in SUBSET ({t} \cup AllLinked(z)) :
            t \in trees /\ LinksStay(z, trees) => u \in trees}

NodesFrom(z, t) == UNION {EnrNodes(z, u) : u \in {u \in ReachedFrom(z, t) : Valid(z, u)}}

AllowedLink(text) == text.type = "link" /\ domain_is_allowed(text.domain, text.key)

LinkBelow(z, host, hash) ==
    UNION {NodesFrom(z, LinkTo(z[host][h])) :
             h \in {h \in Below(z, host, hash) : AllowedLink(z[host][h])}}

(***************************************************************************)
(* What is below a name, other than itself, is below one of its children.  *)
(***************************************************************************)
LEMMA BelowUnfold ==
    ASSUME NEW z, NEW host, NEW hash, NEW h \in Below(z, host, hash)
    PROVE  /\ hash \in Names(z, host)
           /\ h # hash =>
                /\ z[host][hash].type = "branch"
                /\ \E c \in ToSet(z[host][hash].children) : h \in Below(z, host, c)
<1> DEFINE children == IF z[host][hash].type = "branch"
                       THEN ToSet(z[host][hash].children) \cap Names(z, host) ELSE {}
           names == {x \in Names(z, host) : x = hash \/ \E c \in children : x \in Below(z, host, c)}
<1>1. hash \in Names(z, host) => hash \in names
    OBVIOUS
<1>2. ASSUME hash \in Names(z, host) PROVE BranchesStay(z, host, names)
  <2> SUFFICES ASSUME NEW k \in names, z[host][k].type = "branch",
                      NEW c \in ToSet(z[host][k].children) \cap Names(z, host)
               PROVE  \E d \in children : c \in Below(z, host, d)
      BY DEF BranchesStay
  <2>1. CASE k = hash
      BY <2>1, BelowItself
  <2>2. CASE k # hash
    <3>1. PICK d \in children : k \in Below(z, host, d)
        BY <2>2
    <3> QED BY <3>1, BelowBranch
  <2> QED BY <2>1, <2>2
<1>3. hash \in Names(z, host)
  <2>1. BranchesStay(z, host, {})
      BY DEF BranchesStay
  <2> QED BY <2>1 DEF Below
<1>4. h \in names
    BY <1>1, <1>2, <1>3 DEF Below
<1> QED BY <1>3, <1>4

(***************************************************************************)
(* A node below a name is the record of the name, or below a child of it.  *)
(***************************************************************************)
LEMMA EnrBelowUnfold ==
    ASSUME NEW z, NEW host, NEW hash, NEW x \in EnrBelow(z, host, hash)
    PROVE  /\ hash \in Names(z, host)
           /\ \/ z[host][hash].type = "enr" /\ x = z[host][hash].node
              \/ /\ z[host][hash].type = "branch"
                 /\ \E c \in ToSet(z[host][hash].children) : x \in EnrBelow(z, host, c)
<1>1. PICK h \in Below(z, host, hash) : z[host][h].type = "enr" /\ x = z[host][h].node
    BY DEF EnrBelow
<1>2. CASE h = hash
    BY <1>1, <1>2, BelowUnfold
<1>3. CASE h # hash
  <2>1. PICK c \in ToSet(z[host][hash].children) : h \in Below(z, host, c)
      BY <1>3, BelowUnfold
  <2>2. x \in EnrBelow(z, host, c)
      BY <1>1, <2>1 DEF EnrBelow
  <2> QED BY <1>3, <2>2, BelowUnfold
<1> QED BY <1>2, <1>3

(***************************************************************************)
(* A node of a tree that is linked to below a name belongs to the tree     *)
(* that the name links to, or is below a child of it.                      *)
(***************************************************************************)
LEMMA LinkBelowUnfold ==
    ASSUME NEW z, NEW host, NEW hash, NEW x \in LinkBelow(z, host, hash)
    PROVE  /\ hash \in Names(z, host)
           /\ \/ AllowedLink(z[host][hash]) /\ x \in NodesFrom(z, LinkTo(z[host][hash]))
              \/ /\ z[host][hash].type = "branch"
                 /\ \E c \in ToSet(z[host][hash].children) : x \in LinkBelow(z, host, c)
<1>1. PICK h \in Below(z, host, hash) : AllowedLink(z[host][h]) /\ x \in NodesFrom(z, LinkTo(z[host][h]))
    BY DEF LinkBelow
<1>2. CASE h = hash
    BY <1>1, <1>2, BelowUnfold
<1>3. CASE h # hash
  <2>1. PICK c \in ToSet(z[host][hash].children) : h \in Below(z, host, c)
      BY <1>3, BelowUnfold
  <2>2. x \in LinkBelow(z, host, c)
      BY <1>1, <2>1 DEF LinkBelow
  <2> QED BY <1>3, <2>2, BelowUnfold
<1> QED BY <1>2, <1>3

(***************************************************************************)
(* The trees that a tree links to.                                         *)
(***************************************************************************)
LEMMA LinkedFacts ==
    ASSUME NEW z, NEW t, NEW u \in Linked(z, t)
    PROVE  /\ u \in AllLinked(z)
           /\ \E h \in Below(z, t.host, z[t.host][Apex].link) :
                 AllowedLink(z[t.host][h]) /\ u = LinkTo(z[t.host][h])
<1>1. PICK h \in Below(z, t.host, z[t.host][Apex].link) :
        /\ u = LinkTo(z[t.host][h]) /\ z[t.host][h].type = "link"
        /\ Whitelist # None => <<z[t.host][h].domain, z[t.host][h].key>> \in
                                 {<<d, Whitelist[d]>> : d \in DOMAIN Whitelist}
    BY DEF Linked
<1>2. t.host \in DOMAIN z /\ h \in DOMAIN z[t.host]
    BY DEF Below, Names
<1>3. AllowedLink(z[t.host][h])
    BY <1>1 DEF AllowedLink, domain_is_allowed
<1>4. u \in AllLinked(z)
    BY <1>1, <1>2 DEF AllLinked
<1> QED BY <1>1, <1>3, <1>4

(***************************************************************************)
(* A tree leads to itself and to what its links lead to, and to no other.  *)
(***************************************************************************)
LEMMA ReachedClosed ==
    ASSUME NEW z, NEW t, NEW u \in ReachedFrom(z, t), Valid(z, u)
    PROVE  Linked(z, u) \subseteq ReachedFrom(z, t)
<1> SUFFICES ASSUME NEW v \in Linked(z, u), NEW trees \in SUBSET ({t} \cup AllLinked(z)),
                    t \in trees, LinksStay(z, trees)
             PROVE  v \in trees
    BY LinkedFacts DEF ReachedFrom
<1>1. u \in trees
    BY DEF ReachedFrom
<1> QED BY <1>1 DEF LinksStay

(***************************************************************************)
(* What a tree leads to, other than itself, one of the trees that it links *)
(* to leads to.                                                            *)
(***************************************************************************)
LEMMA ReachedUnfold ==
    ASSUME NEW z, NEW t, NEW u \in ReachedFrom(z, t), u # t
    PROVE  Valid(z, t) /\ \E v \in Linked(z, t) : u \in ReachedFrom(z, v)
<1> DEFINE links == IF Valid(z, t) THEN Linked(z, t) ELSE {}
           trees == {x \in {t} \cup AllLinked(z) : x = t \/ \E v \in links : x \in ReachedFrom(z, v)}
<1>1. \A v : v \in ReachedFrom(z, v)
    BY DEF ReachedFrom
<1>2. LinksStay(z, trees)
  <2> SUFFICES ASSUME NEW k \in trees, Valid(z, k), NEW w \in Linked(z, k)
               PROVE  w \in trees
      BY DEF LinksStay
  <2>1. w \in AllLinked(z)
      BY LinkedFacts
  <2>2. CASE k = t
      BY <1>1, <2>1, <2>2
  <2>3. CASE k # t
    <3>1. PICK v \in links : k \in ReachedFrom(z, v)
        BY <2>3
    <3>2. w \in ReachedFrom(z, v)
        BY <3>1, ReachedClosed
    <3> QED BY <2>1, <3>2
  <2> QED BY <2>2, <2>3
<1>3. u \in trees
    BY <1>2 DEF ReachedFrom
<1> QED BY <1>3

(***************************************************************************)
(* The nodes of a tree and of those it links to.                           *)
(***************************************************************************)
LEMMA NodesFromUnfold ==
    ASSUME NEW z, NEW t, NEW x \in NodesFrom(z, t)
    PROVE  /\ Valid(z, t)
           /\ \/ x \in EnrNodes(z, t)
              \/ x \in LinkBelow(z, t.host, z[t.host][Apex].link)
<1>1. PICK u \in ReachedFrom(z, t) : Valid(z, u) /\ x \in EnrNodes(z, u)
    BY DEF NodesFrom
<1>2. CASE u = t
    BY <1>1, <1>2
<1>3. CASE u # t
  <2>1. PICK v \in Linked(z, t) : u \in ReachedFrom(z, v)
      BY <1>3, ReachedUnfold
  <2>2. x \in NodesFrom(z, v)
      BY <1>1, <2>1 DEF NodesFrom
  <2>3. PICK h \in Below(z, t.host, z[t.host][Apex].link) :
          AllowedLink(z[t.host][h]) /\ v = LinkTo(z[t.host][h])
      BY LinkedFacts
  <2>4. x \in LinkBelow(z, t.host, z[t.host][Apex].link)
      BY <2>2, <2>3 DEF LinkBelow
  <2> QED BY <1>3, <2>4, ReachedUnfold
<1> QED BY <1>2, <1>3

(***************************************************************************)
(* The nodes of the tree of the domain are those that the pump may ask     *)
(* for, except for those without a TCP socket.                             *)
(***************************************************************************)
LEMMA TreeNodesFrom ==
    ASSUME NEW z \in Zones
    PROVE  TreeNodes[z] = NodesFrom(z, Start) \ NoTcp
<1>1. {Start} \cup AllLinked(z) = AllLinked(z)
    BY DEF AllLinked
<1>2. ReachedFrom(z, Start) = Reached(z)
    BY <1>1 DEF ReachedFrom, Reached
<1> QED BY <1>2 DEF TreeNodes, NodesFrom

\* Every branch of every zone fits into one character-string of a TXT.
BranchesFit ==
    \A z \in Zones : \A host \in DOMAIN z : \A hash \in DOMAIN z[host] :
        z[host][hash].type = "branch" => Len(z[host][hash].children) <= TxtHashes

(***************************************************************************)
(* A text that is not cut is read as it is (lib.rs:130-218).               *)
(***************************************************************************)
LEMMA RecordWhole ==
    ASSUME BranchesFit, zone \in Zones, NEW host, NEW hash \in Names(zone, host)
    PROVE  LET r == Record(host, hash)
               text == zone[host][hash] IN
           /\ text.type = "branch" => r.type = "branch" /\ r.children = ToSet(text.children)
           /\ text.type \in {"root", "link", "enr"} => r = text
<1> DEFINE text == zone[host][hash]
           r == Record(host, hash)
<1>1. host \in DOMAIN zone /\ hash \in DOMAIN zone[host]
    BY DEF Names
<1>2. CASE text.type = "branch"
  <2>1. text \in [type : {"branch"}, children : Seq(Hashes)] /\ Len(text.children) <= TxtHashes
      BY <1>1, <1>2, ZonesAssumption DEF BranchesFit
  <2>2. get_record(host, hash) = text
      BY <1>1, <2>1, TxtAssumption DEF get_record
  <2>3. text # Absent
      BY <2>1 DEF Absent
  <2>4. r = from_str(text)
      BY <2>2, <2>3 DEF Record
  <2>5. from_str(text) = [text EXCEPT !.children = ToSet(@)]
      BY <1>2 DEF from_str
  <2> QED BY <2>1, <2>4, <2>5
<1>3. CASE text.type \in {"root", "link", "enr"}
  <2>1. get_record(host, hash) = text
      BY <1>1, <1>3 DEF get_record
  <2>2. text # Absent
      BY <1>3 DEF Absent
  <2> QED BY <1>3, <2>1, <2>2 DEF Record, from_str
<1> QED BY <1>2, <1>3

-----------------------------------------------------------------------------
(* Who is still heard.                                                      *)

Hearing(r) == r.at \in Polling \/ (r.at = "send" /\ r.then \in Polling)

\* The nodes of the tree are resolved after its links.
Linking(r) == r.at = "links" \/ (r.at = "send" /\ r.then = "links")

Todo(z, p, r) ==
    CASE r.at = "lookup" ->
           IF Last(p).kind = "enr" THEN EnrBelow(z, Last(p).host, Last(p).hash)
                                   ELSE LinkBelow(z, Last(p).host, Last(p).hash)
      [] r.at = "root" -> NodesFrom(z, TreeOf(r))
      [] Linking(r) -> EnrNodes(z, TreeOf(r))
      [] OTHER -> {}

\* What a poller has not passed on, or not found yet.
Owes(z, p, r) ==
    Todo(z, p, r) \cup (IF r.at = "send" THEN {r.item} ELSE {})
                  \cup (IF Hearing(r) THEN ToSet(r.chan) ELSE {})

\* The poller hears, and was told of no error.
GoesOn(p) == p \in DOMAIN poller /\ Hearing(poller[p])

\* Everybody above the poller goes on, up to the pump.
Live(p) ==
    /\ p \in DOMAIN poller /\ p[1] = query
    /\ \A n \in 1 .. Len(p) - 1 : GoesOn(SubSeq(p, 1, n))

UnderWay == UNION {Owes(zone, p, poller[p]) : p \in {p \in DOMAIN poller : Live(p)}}

\* Unless there was an error, what is not reported is under way.
NothingLost ==
    \/ poller[Top].at = "over" /\ poller[Top].item # "complete"
    \/ Broken \in UnderWay
    \/ (IF Seen THEN {} ELSE TreeNodes[zone]) \subseteq reported \cup UnderWay

\* A query of a tree that was seen before finds nothing.
SeenEnds ==
    Seen => /\ reported = {}
            /\ \/ poller[Top].at \in {"root", "over"}
               \/ poller[Top].at = "send" /\ poller[Top].item = Broken

\* A task that is spawned has no namesake: its parent spawns each name once.
SpawnedOnce ==
    \A p \in DOMAIN poller :
       /\ Len(p) >= 1 /\ p[1] \in 1 .. query
       /\ \A n \in 1 .. Len(p) - 1 :
            LET q == SubSeq(p, 1, n) IN
            q \in DOMAIN poller =>
               /\ poller[q].at \notin {"lookup", "root"}
               /\ Linking(poller[q]) => p[n + 1].kind = "link"

QueryInv == NothingLost /\ SeenEnds /\ SpawnedOnce /\ TreeOf(poller[Top]) = Start

\* channel(1)
OneItem == \A p \in DOMAIN poller : Len(poller[p].chan) <= 1

\* The inductive invariant.
CompleteInv == PollersInv /\ OneItem /\ QueryInv

\* What a step of one poller leaves of another: it may put an item into its channel.
Keeps(r, r2) ==
    /\ r2.at = r.at /\ r2.item = r.item /\ r2.then = r.then
    /\ r2.host = r.host /\ r2.key = r.key /\ ToSet(r.chan) \subseteq ToSet(r2.chan)

Others(a) ==
    \A q \in DOMAIN poller \ {a} : q \in DOMAIN poller' /\ Keeps(poller[q], poller'[q])

(***************************************************************************)
(* Whoever is left alone by a step owes what it owed.                      *)
(***************************************************************************)
LEMMA OwesKept ==
    ASSUME NEW z, NEW p, NEW r, NEW r2, Keeps(r, r2)
    PROVE  Owes(z, p, r) \subseteq Owes(z, p, r2)
<1>1. Todo(z, p, r2) = Todo(z, p, r)
    BY DEF Todo, Keeps, Linking, TreeOf
<1>2. Hearing(r2) = Hearing(r) /\ r2.at = r.at /\ r2.item = r.item
    BY DEF Hearing, Keeps
<1> QED BY <1>1, <1>2 DEF Owes, Keeps

(***************************************************************************)
(* The pollers above a poller are the prefixes of its path.                *)
(***************************************************************************)
LEMMA PrefixFacts ==
    ASSUME NEW S, NEW p \in Seq(S), NEW m \in 1 .. Len(p)
    PROVE  /\ SubSeq(p, 1, m) \in Seq(S) /\ Len(SubSeq(p, 1, m)) = m
           /\ SubSeq(p, 1, m)[1] = p[1]
           /\ \A n \in 1 .. m : SubSeq(SubSeq(p, 1, m), 1, n) = SubSeq(p, 1, n)
           /\ m > 1 => Front(SubSeq(p, 1, m)) = SubSeq(p, 1, m - 1)
           /\ SubSeq(p, 1, Len(p)) = p
<1> DEFINE q == SubSeq(p, 1, m)
<1>1. q \in Seq(S) /\ Len(q) = m /\ \A i \in 1 .. m : q[i] = p[i]
    BY SubSeqProperties
<1> HIDE DEF q
<1>2. ASSUME NEW n \in 1 .. m PROVE SubSeq(q, 1, n) = SubSeq(p, 1, n)
  <2>1. /\ SubSeq(q, 1, n) \in Seq(S) /\ Len(SubSeq(q, 1, n)) = n
        /\ \A i \in 1 .. n : SubSeq(q, 1, n)[i] = q[i]
      BY <1>1, SubSeqProperties
  <2>2. /\ SubSeq(p, 1, n) \in Seq(S) /\ Len(SubSeq(p, 1, n)) = n
        /\ \A i \in 1 .. n : SubSeq(p, 1, n)[i] = p[i]
      BY SubSeqProperties
  <2> QED BY <1>1, <2>1, <2>2, SeqEqual
<1>3. m > 1 => Front(q) = SubSeq(p, 1, m - 1)
    BY <1>1, <1>2 DEF Front
<1>4. SubSeq(p, 1, Len(p)) = p
    BY SubSeqFull
<1> QED BY <1>1, <1>2, <1>3, <1>4 DEF q

-----------------------------------------------------------------------------
(* A step of one poller.                                                    *)

(***************************************************************************)
(* What the pump hears from, it goes on hearing from, unless it is told of *)
(* an error.                                                               *)
(***************************************************************************)
LEMMA StaysLive ==
    ASSUME PollersInv, NEW a \in DOMAIN poller, query' = query, Others(a),
           Live(a) /\ Hearing(poller[a]) /\ Children(a) # {} =>
              a \in DOMAIN poller' /\ Hearing(poller'[a]),
           NEW p \in DOMAIN poller', Live(p)
    PROVE  Live(p)'
<1>1. p \in Paths(zone) /\ p \in DOMAIN poller
    BY DEF PollersInv, GoodPollers, GoodPoller, Live
<1> SUFFICES ASSUME NEW n \in 1 .. Len(p) - 1 PROVE GoesOn(SubSeq(p, 1, n))'
    BY DEF Live
<1> DEFINE q == SubSeq(p, 1, n)
<1>2. Len(p) \in Nat /\ n \in 1 .. Len(p) /\ n + 1 \in 1 .. Len(p)
    BY <1>1 DEF Paths
<1>3. GoesOn(q)
    BY DEF Live
<1>4. CASE q # a
    BY <1>3, <1>4 DEF GoesOn, Hearing, Others, Keeps
<1>5. CASE q = a
  <2>1. Len(q) = n /\ q[1] = p[1] /\ \A m \in 1 .. n : SubSeq(q, 1, m) = SubSeq(p, 1, m)
      BY <1>1, <1>2, PrefixFacts DEF Paths
  <2>2. Live(a)
    <3>1. Len(a) = n /\ a[1] = query /\ \A m \in 1 .. n : SubSeq(a, 1, m) = SubSeq(p, 1, m)
        BY <1>5, <2>1 DEF Live
    <3>2. \A m \in 1 .. n - 1 : m \in 1 .. n /\ m \in 1 .. Len(p) - 1
        BY <1>2
    <3>3. \A m \in 1 .. n - 1 : GoesOn(SubSeq(a, 1, m))
        BY <3>1, <3>2, Zenon DEF Live
    <3> QED BY <3>1, <3>3 DEF Live
  <2> DEFINE c == SubSeq(p, 1, n + 1)
  <2>3. Len(c) = n + 1 /\ Front(c) = q /\ (n + 1 = Len(p) => c = p)
    <3>1. n + 1 > 1 /\ n + 1 - 1 = n
        BY <1>2
    <3> QED BY <1>1, <1>2, <3>1, PrefixFacts DEF Paths
  <2>4. c \in DOMAIN poller
    <3>1. n + 1 # Len(p) => n + 1 \in 1 .. Len(p) - 1
        BY <1>2
    <3> QED BY <1>1, <2>3, <3>1 DEF Live, GoesOn
  <2>5. c \in Children(a)
      BY <1>2, <1>5, <2>3, <2>4 DEF Children, IsTask, Parent
  <2> QED BY <1>3, <1>5, <2>2, <2>5 DEF GoesOn, Hearing
<1> QED BY <1>4, <1>5

(***************************************************************************)
(* What a poller owes that is heard is under way.                          *)
(***************************************************************************)
LEMMA InUnderWay ==
    ASSUME NEW p, Live(p)', NEW x \in Owes(zone', p, poller'[p])
    PROVE  x \in UnderWay'
BY DEF UnderWay, Live

\* What a step does with an item or a node that a poller owed.
Settled(x) ==
    \/ x \in UnderWay' \/ Broken \in UnderWay'
    \/ x # Broken /\ (x \in reported' \/ x \in NoTcp)

(***************************************************************************)
(* A step loses nothing if it settles what the poller that takes it owed.  *)
(***************************************************************************)
LEMMA StepLosesNothing ==
    ASSUME CompleteInv, NEW a \in DOMAIN poller, zone' = zone, query' = query, Others(a),
           Live(a) /\ Hearing(poller[a]) /\ Children(a) # {} =>
              a \in DOMAIN poller' /\ Hearing(poller'[a]),
           poller[a].at # "over", reported \subseteq reported',
           Live(a) => \A x \in Owes(zone, a, poller[a]) : Settled(x)
    PROVE  NothingLost'
<1>1. PollersInv /\ NothingLost
    BY DEF CompleteInv, QueryInv
<1>2. Top' = Top /\ Seen' = Seen /\ Top \in DOMAIN poller
    BY <1>1 DEF Top, Seen, PollersInv, GoodPollers
<1>3. ASSUME NEW x \in UnderWay PROVE Settled(x)
  <2>1. PICK p \in DOMAIN poller : Live(p) /\ x \in Owes(zone, p, poller[p])
      BY DEF UnderWay
  <2>2. CASE p = a
      BY <2>1, <2>2
  <2>3. CASE p # a
    <3>1. p \in DOMAIN poller' /\ Keeps(poller[p], poller'[p])
        BY <2>3 DEF Others
    <3>2. Live(p)'
        BY <1>1, <2>1, <3>1, StaysLive
    <3>3. x \in Owes(zone', p, poller'[p])
        BY <2>1, <3>1, OwesKept
    <3> QED BY <3>2, <3>3, InUnderWay DEF Settled
  <2> QED BY <2>2, <2>3
<1>4. CASE poller[Top].at = "over" /\ poller[Top].item # "complete"
  <2>1. Keeps(poller[Top], poller'[Top])
      BY <1>2, <1>4 DEF Others
  <2> QED BY <1>2, <1>4, <2>1 DEF NothingLost, Keeps
<1>5. CASE Broken \in UnderWay
    BY <1>3, <1>5 DEF NothingLost, Settled
<1>6. CASE (IF Seen THEN {} ELSE TreeNodes[zone]) \subseteq reported \cup UnderWay
  <2> SUFFICES ASSUME Broken \notin UnderWay', NEW x \in (IF Seen THEN {} ELSE TreeNodes[zone])
               PROVE  x \in reported' \cup UnderWay'
      BY <1>2 DEF NothingLost
  <2>1. x \notin NoTcp
      BY <1>1 DEF TreeNodes, PollersInv
  <2> QED BY <1>3, <1>6, <2>1 DEF Settled
<1> QED BY <1>1, <1>4, <1>5, <1>6 DEF NothingLost

(***************************************************************************)
(* A poller that is through.                                               *)
(***************************************************************************)
LEMMA EndFacts ==
    ASSUME GoodPollers(poller), NEW a \in DOMAIN poller, poller' = End(a)
    PROVE  /\ Others(a) /\ DOMAIN poller' \subseteq DOMAIN poller
           /\ IsTask(a) => a \notin DOMAIN poller'
           /\ ~IsTask(a) => /\ a \in DOMAIN poller'
                            /\ poller'[a].at = "over" /\ poller'[a].item = "complete"
                            /\ TreeOf(poller'[a]) = TreeOf(poller[a])
<1>1. CASE IsTask(a)
  <2>1. End(a) = [q \in DOMAIN poller \ {a} |-> poller[q]]
      BY <1>1 DEF End, Restrict
  <2> QED BY <1>1, <2>1 DEF Others, Keeps
<1>2. CASE ~IsTask(a)
  <2> DEFINE f == [poller EXCEPT ![a].at = "over", ![a].item = "complete"]
  <2>1. poller' = f
      BY <1>2 DEF End
  <2>2. GoodPoller(zone, a, poller[a])
      BY DEF GoodPollers
  <2>3. /\ DOMAIN f = DOMAIN poller
        /\ \A q \in DOMAIN f : q # a => f[q] = poller[q]
        /\ f[a].at = "over" /\ f[a].item = "complete"
        /\ f[a].host = poller[a].host /\ f[a].key = poller[a].key
      BY <2>2 DEF GoodPoller
  <2> HIDE DEF f
  <2> QED BY <1>2, <2>1, <2>3 DEF TreeOf, Others, Keeps
<1> QED BY <1>1, <1>2

(***************************************************************************)
(* A poller that passes an item on.                                        *)
(***************************************************************************)
LEMMA YieldFacts ==
    ASSUME GoodPollers(poller), NEW a \in DOMAIN poller, NEW item, NEW then,
           \/ poller' = Yield(a, item, then)
           \/ poller' = [Yield(a, item, then) EXCEPT ![a].chan = <<>>]
    PROVE  /\ Others(a) /\ DOMAIN poller' = DOMAIN poller
           /\ poller'[a].at = "send" /\ poller'[a].item = item /\ poller'[a].then = then
           /\ TreeOf(poller'[a]) = TreeOf(poller[a])
<1> DEFINE f == Yield(a, item, then)
           g == [f EXCEPT ![a].chan = <<>>]
<1>1. GoodPoller(zone, a, poller[a])
    BY DEF GoodPollers
<1>2. /\ DOMAIN f = DOMAIN poller
      /\ \A q \in DOMAIN f : q # a => f[q] = poller[q]
      /\ DOMAIN f[a] = DOMAIN poller[a]
      /\ f[a].at = "send" /\ f[a].item = item /\ f[a].then = then
      /\ f[a].host = poller[a].host /\ f[a].key = poller[a].key
    BY <1>1 DEF Yield, GoodPoller
<1> HIDE DEF f
<1>3. /\ DOMAIN g = DOMAIN f /\ \A q \in DOMAIN g : q # a => g[q] = f[q]
      /\ g[a].at = f[a].at /\ g[a].item = f[a].item /\ g[a].then = f[a].then
      /\ g[a].host = f[a].host /\ g[a].key = f[a].key
    BY <1>1, <1>2 DEF GoodPoller
<1> HIDE DEF g
<1>4. CASE poller' = f
    BY <1>2, <1>4 DEF Others, Keeps, TreeOf
<1>5. CASE poller' = g
    BY <1>2, <1>3, <1>5 DEF Others, Keeps, TreeOf
<1> QED BY <1>4, <1>5 DEF f, g

(***************************************************************************)
(* A step that spawns nothing.                                             *)
(***************************************************************************)
LEMMA SpawnedKept ==
    ASSUME CompleteInv, NEW a \in DOMAIN poller, query' = query, Others(a),
           DOMAIN poller' \subseteq DOMAIN poller,
           a \in DOMAIN poller' =>
              \/ poller[a].at \in {"lookup", "root"}
              \/ /\ poller'[a].at \notin {"lookup", "root"}
                 /\ Linking(poller'[a]) => Linking(poller[a])
    PROVE  SpawnedOnce'
<1>1. SpawnedOnce
    BY DEF CompleteInv, QueryInv
<1>2. \A q \in DOMAIN poller' : q # a => poller'[q].at = poller[q].at /\ Linking(poller'[q]) = Linking(poller[q])
    BY DEF Others, Keeps, Linking
<1> SUFFICES ASSUME NEW p \in DOMAIN poller', NEW n \in 1 .. Len(p) - 1,
                    SubSeq(p, 1, n) \in DOMAIN poller'
             PROVE  LET q == SubSeq(p, 1, n) IN
                    /\ poller'[q].at \notin {"lookup", "root"}
                    /\ Linking(poller'[q]) => p[n + 1].kind = "link"
    BY <1>1 DEF SpawnedOnce, Linking
<1> DEFINE q == SubSeq(p, 1, n)
<1>3. /\ poller[q].at \notin {"lookup", "root"}
      /\ Linking(poller[q]) => p[n + 1].kind = "link"
    BY <1>1 DEF SpawnedOnce
<1> HIDE DEF q
<1>4. q \in DOMAIN poller'
    BY DEF q
<1>5. CASE q # a
    BY <1>2, <1>3, <1>4, <1>5 DEF q
<1>6. CASE q = a
    BY <1>3, <1>4, <1>6 DEF q
<1> QED BY <1>5, <1>6

(***************************************************************************)
(* A path with one more name.                                              *)
(***************************************************************************)
LEMMA AppendPath ==
    ASSUME NEW S, NEW a \in Seq(S), NEW x \in S, Len(a) >= 1
    PROVE  LET c == Append(a, x) IN
           /\ c \in Seq(S) /\ Len(c) = Len(a) + 1 /\ c[1] = a[1] /\ Last(c) = x
           /\ c[Len(a) + 1] = x /\ \A i \in 1 .. Len(a) : c[i] = a[i]
           /\ SubSeq(c, 1, Len(a)) = a
           /\ \A n \in 1 .. Len(a) : SubSeq(c, 1, n) = SubSeq(a, 1, n)
<1> DEFINE c == Append(a, x)
<1>1. /\ c \in Seq(S) /\ Len(c) = Len(a) + 1 /\ c[Len(a) + 1] = x
      /\ \A i \in 1 .. Len(a) : c[i] = a[i]
    BY AppendProperties
<1> HIDE DEF c
<1>2. Last(c) = x
    BY <1>1 DEF Last
<1>3. ASSUME NEW n \in 1 .. Len(a) PROVE SubSeq(c, 1, n) = SubSeq(a, 1, n)
  <2>1. /\ SubSeq(c, 1, n) \in Seq(S) /\ Len(SubSeq(c, 1, n)) = n
        /\ \A i \in 1 .. n : SubSeq(c, 1, n)[i] = c[i]
      BY <1>1, SubSeqProperties
  <2>2. /\ SubSeq(a, 1, n) \in Seq(S) /\ Len(SubSeq(a, 1, n)) = n
        /\ \A i \in 1 .. n : SubSeq(a, 1, n)[i] = a[i]
      BY SubSeqProperties
  <2> QED BY <1>1, <2>1, <2>2, SeqEqual
<1>4. SubSeq(a, 1, Len(a)) = a
    BY SubSeqFull
<1>5. Len(a) \in 1 .. Len(a) /\ 1 \in 1 .. Len(a)
    BY LenProperties
<1> QED BY <1>1, <1>2, <1>3, <1>4, <1>5 DEF c

\* What resolve_branch does to the poller and starts.
Spawns(a, at, host, hashes, kind) ==
    /\ Others(a) /\ a \in DOMAIN poller' /\ poller'[a].at = at
    /\ TreeOf(poller'[a]) = TreeOf(poller[a]) /\ poller'[a].chan = poller[a].chan
    /\ SpawnedOnce'
    /\ \A h \in hashes :
         LET name == [host |-> host, hash |-> h, kind |-> kind]
             c == Append(a, name) IN
         /\ c \in DOMAIN poller' /\ poller'[c] = New("lookup", host, None)
         /\ Last(c) = name
         /\ Live(a) => Live(c)'

MaySpawn(a, at, host, hashes, kind) ==
    /\ \A h \in hashes : [host |-> host, hash |-> h, kind |-> kind] \in TaskNames(zone)
    /\ \/ poller[a].at \in {"lookup", "root"} /\ (at = "links" => kind = "link")
       \/ Linking(poller[a]) /\ kind = "enr" /\ at # "links"

(***************************************************************************)
(* A poller that starts tasks: they are new, and heard if the poller is.   *)
(***************************************************************************)
LEMMA BranchFacts ==
    ASSUME CompleteInv, NEW a \in DOMAIN poller, query' = query, NEW at \in Polling, NEW host,
           NEW hashes, NEW kind, MaySpawn(a, at, host, hashes, kind),
           poller' = Branch(a, at, host, hashes, kind)
    PROVE  Spawns(a, at, host, hashes, kind)
<1> DEFINE name(h) == [host |-> host, hash |-> h, kind |-> kind]
           task(h) == Append(a, name(h))
           tasks == {task(h) : h \in hashes}
           S == Nat \cup TaskNames(zone)
<1>0. /\ \A h \in hashes : name(h) \in TaskNames(zone)
      /\ \/ poller[a].at \in {"lookup", "root"} /\ (at = "links" => kind = "link")
         \/ Linking(poller[a]) /\ kind = "enr" /\ at # "links"
    BY DEF MaySpawn
<1>1. /\ DOMAIN poller' = DOMAIN poller \cup tasks
      /\ poller'[a] = [poller[a] EXCEPT !.at = at]
      /\ \A q \in DOMAIN poller : q # a => poller'[q] = poller[q]
      /\ \A q \in tasks : q \notin DOMAIN poller => poller'[q] = New("lookup", host, None)
    BY DEF Branch
<1>2. GoodPoller(zone, a, poller[a]) /\ SpawnedOnce /\ a \in Seq(S)
    BY DEF CompleteInv, QueryInv, PollersInv, GoodPollers, GoodPoller, Paths
<1>3. Others(a)
    BY <1>1 DEF Others, Keeps
<1>4. poller'[a].at = at /\ TreeOf(poller'[a]) = TreeOf(poller[a]) /\ poller'[a].chan = poller[a].chan
  <2> DEFINE r == [poller[a] EXCEPT !.at = at]
  <2>1. r.at = at /\ r.chan = poller[a].chan /\ r.host = poller[a].host /\ r.key = poller[a].key
      BY <1>2 DEF GoodPoller
  <2> QED BY <1>1, <2>1 DEF TreeOf
<1>5. Len(a) \in Nat /\ Len(a) >= 1 /\ a[1] \in 1 .. query
    BY <1>2 DEF SpawnedOnce
<1>6. ASSUME NEW h \in hashes
      PROVE  /\ task(h) \in Seq(S) /\ Len(task(h)) = Len(a) + 1 /\ task(h)[1] = a[1]
             /\ Last(task(h)) = name(h) /\ task(h)[Len(a) + 1] = name(h)
             /\ \A i \in 1 .. Len(a) : task(h)[i] = a[i]
             /\ SubSeq(task(h), 1, Len(a)) = a
             /\ \A n \in 1 .. Len(a) : SubSeq(task(h), 1, n) = SubSeq(a, 1, n)
  <2>1. name(h) \in S
      BY <1>0
  <2> HIDE DEF name, S
  <2> QED BY <1>2, <1>5, <2>1, AppendPath
\* No path leads through a name that is spawned now.
<1>7. ASSUME NEW p \in DOMAIN poller, NEW n \in 1 .. Len(p) - 1, SubSeq(p, 1, n) = a
      PROVE  Linking(poller[a]) /\ poller[a].at \notin {"lookup", "root"} /\ p[n + 1].kind = "link" /\ kind = "enr" /\ at # "links"
    BY <1>0, <1>2, <1>7 DEF SpawnedOnce
<1>8. ASSUME NEW h \in hashes PROVE task(h) \notin DOMAIN poller
  <2> SUFFICES ASSUME task(h) \in DOMAIN poller PROVE FALSE
      OBVIOUS
  <2>1. Len(a) \in 1 .. Len(task(h)) - 1
      BY <1>5, <1>6
  <2>2. name(h).kind = "link" /\ kind = "enr"
      BY <1>6, <1>7, <2>1, ZenonT(60)
  <2> QED BY <2>2
<1>9. ASSUME NEW p \in DOMAIN poller, NEW n \in 1 .. Len(p) - 1, NEW h \in hashes,
             SubSeq(p, 1, n) = task(h)
      PROVE  FALSE
  <2>1. p \in Seq(S) /\ Len(p) \in Nat
      BY DEF CompleteInv, QueryInv, PollersInv, GoodPollers, GoodPoller, Paths
  <2>2. n = Len(a) + 1
    <3>1. n \in 1 .. Len(p)
        BY <2>1
    <3>2. Len(SubSeq(p, 1, n)) = n
        BY <2>1, <3>1, PrefixFacts
    <3> QED BY <1>6, <1>9, <3>2
  <2>3. Len(a) \in 1 .. Len(p) - 1 /\ Len(a) \in 1 .. n /\ n \in 1 .. Len(p)
      BY <1>5, <2>1, <2>2
  <2>4. SubSeq(p, 1, Len(a)) = SubSeq(SubSeq(p, 1, n), 1, Len(a))
      BY <2>1, <2>3, PrefixFacts
  <2>5. SubSeq(p, 1, Len(a)) = a
      BY <1>6, <1>9, <2>4
  <2>6. p[n].kind = "link" /\ kind = "enr"
      BY <1>7, <2>2, <2>3, <2>5
  <2>7. p[n] = name(h)
    <3>1. SubSeq(p, 1, n)[n] = p[n]
        BY <2>1, <2>3
    <3> QED BY <1>6, <1>9, <2>2, <3>1
  <2> QED BY <2>6, <2>7
<1> HIDE DEF S
<1>10. SpawnedOnce'
  <2>1. ASSUME NEW p \in DOMAIN poller' PROVE Len(p) >= 1 /\ p[1] \in 1 .. query'
    <3>1. CASE p \in DOMAIN poller
        BY <1>2, <3>1 DEF SpawnedOnce
    <3>2. ASSUME NEW h \in hashes, p = task(h) PROVE Len(p) >= 1 /\ p[1] \in 1 .. query'
      <4>1. Len(p) = Len(a) + 1 /\ p[1] = a[1]
          BY <1>6, <3>2
      <4> QED BY <1>5, <4>1
    <3> QED BY <1>1, <2>1, <3>1, <3>2
  <2>2. ASSUME NEW p \in DOMAIN poller', NEW n \in 1 .. Len(p) - 1,
               NEW q \in DOMAIN poller', q = SubSeq(p, 1, n)
        PROVE  poller'[q].at \notin {"lookup", "root"} /\ (Linking(poller'[q]) => p[n + 1].kind = "link")
    <3>0. Linking(poller'[a]) => at = "links"
        BY <1>4 DEF Linking, Polling
    <3>1. CASE p \in DOMAIN poller
      <4>1. q \in DOMAIN poller
          BY <1>1, <1>9, <2>2, <3>1
      <4>2. CASE q # a
        <5>1. poller'[q] = poller[q]
            BY <1>1, <4>1, <4>2
        <5> QED BY <1>2, <2>2, <3>1, <4>1, <5>1 DEF SpawnedOnce
      <4>3. CASE q = a
        <5>1. at # "links"
            BY <1>7, <2>2, <3>1, <4>3
        <5> QED BY <1>4, <3>0, <4>3, <5>1 DEF Polling
      <4> QED BY <4>2, <4>3
    <3>2. ASSUME NEW h \in hashes, p = task(h)
          PROVE  poller'[q].at \notin {"lookup", "root"} /\ (Linking(poller'[q]) => p[n + 1].kind = "link")
      <4>1. n \in 1 .. Len(a) /\ Len(p) = Len(a) + 1
          BY <1>5, <1>6, <3>2
      <4>2. q = SubSeq(a, 1, n)
          BY <1>6, <2>2, <3>2, <4>1
      <4>3. Len(q) = n
          BY <1>2, <4>1, <4>2, PrefixFacts
      <4>4. ASSUME NEW k \in hashes, q = task(k) PROVE FALSE
        <5>1. Len(q) = Len(a) + 1
            BY <1>6, <4>4
        <5> QED BY <1>5, <4>1, <4>3, <5>1
      <4>5. q \in DOMAIN poller
          BY <1>1, <4>4
      <4>6. CASE n = Len(a)
        <5>1. q = a
            BY <1>6, <2>2, <3>2, <4>6
        <5>2. p[n + 1] = name(h)
            BY <1>6, <3>2, <4>6
        <5>3. at = "links" => kind = "link"
            BY <1>0
        <5> QED BY <1>4, <3>0, <5>1, <5>2, <5>3 DEF Polling
      <4>7. CASE n # Len(a)
        <5>1. n \in 1 .. Len(a) - 1 /\ n + 1 \in 1 .. Len(a)
            BY <1>5, <4>1, <4>7
        <5>2. q # a
            BY <4>3, <4>7
        <5>3. poller'[q] = poller[q]
            BY <1>1, <4>5, <5>2
        <5>4. p[n + 1] = a[n + 1]
            BY <1>6, <3>2, <5>1
        <5> QED BY <1>2, <4>2, <4>5, <5>1, <5>3, <5>4 DEF SpawnedOnce
      <4> QED BY <4>6, <4>7
    <3> QED BY <1>1, <2>2, <3>1, <3>2
  <2> QED BY <2>1, <2>2 DEF SpawnedOnce
<1>11. ASSUME NEW h \in hashes, Live(a) PROVE Live(task(h))'
  <2>1. task(h) \in DOMAIN poller' /\ task(h)[1] = query'
      BY <1>1, <1>6, <1>11 DEF Live
  <2> SUFFICES ASSUME NEW n \in 1 .. Len(task(h)) - 1 PROVE GoesOn(SubSeq(task(h), 1, n))'
      BY <2>1 DEF Live
  <2>2. n \in 1 .. Len(a) /\ SubSeq(task(h), 1, n) = SubSeq(a, 1, n)
      BY <1>5, <1>6
  <2>3. CASE n = Len(a)
    <3>1. SubSeq(task(h), 1, n) = a
        BY <1>6, <2>3
    <3> QED BY <1>1, <1>4, <3>1 DEF GoesOn, Hearing
  <2>4. CASE n # Len(a)
    <3> DEFINE q == SubSeq(a, 1, n)
    <3>1. n \in 1 .. Len(a) - 1
        BY <1>5, <2>2, <2>4
    <3>2. GoesOn(q)
        BY <1>11, <3>1 DEF Live
    <3>3. Len(q) = n
        BY <1>2, <2>2, PrefixFacts
    <3>4. q # a
        BY <2>4, <3>3
    <3> HIDE DEF q
    <3>5. GoesOn(q)'
        BY <1>1, <3>2, <3>4 DEF GoesOn, Hearing
    <3> QED BY <2>2, <3>5 DEF q
  <2> QED BY <2>3, <2>4
<1>12. ASSUME NEW h \in hashes
       PROVE  task(h) \in DOMAIN poller' /\ poller'[task(h)] = New("lookup", host, None)
    BY <1>1, <1>8
<1> HIDE DEF task
<1> QED BY <1>1, <1>3, <1>4, <1>6, <1>10, <1>11, <1>12 DEF task, Spawns

(***************************************************************************)
(* A step of another poller leaves the query's own one alone.              *)
(***************************************************************************)
LEMMA TopKept ==
    ASSUME CompleteInv, NEW a \in DOMAIN poller, Top # a, Others(a),
           zone' = zone, query' = query, reported' = reported
    PROVE  SeenEnds' /\ TreeOf(poller[Top])' = Start
<1>1. /\ PollersInv /\ SeenEnds /\ TreeOf(poller[Top]) = Start /\ Top \in DOMAIN poller
      /\ Top' = Top /\ Seen' = Seen
    BY DEF CompleteInv, QueryInv, PollersInv, GoodPollers, Top, Seen
<1>2. Keeps(poller[Top], poller'[Top])
    BY <1>1 DEF Others
<1> QED BY <1>1, <1>2 DEF SeenEnds, TreeOf, Keeps

(***************************************************************************)
(* A poller that fails tells of it, if it is heard.                        *)
(***************************************************************************)
LEMMA FailSettles ==
    ASSUME CompleteInv, NEW a \in DOMAIN poller, zone' = zone, query' = query,
           reported' = reported, poller[a].at # "over",
           poller' = Fail(a) \/ poller' = [Fail(a) EXCEPT ![a].chan = <<>>]
    PROVE  QueryInv'
<1>1. /\ PollersInv /\ GoodPollers(poller) /\ NothingLost /\ SeenEnds /\ Top \in DOMAIN poller
      /\ TreeOf(poller[Top]) = Start /\ Top' = Top /\ Seen' = Seen
    BY DEF CompleteInv, QueryInv, PollersInv, GoodPollers, Top, Seen
<1>2. /\ Others(a) /\ DOMAIN poller' = DOMAIN poller
      /\ poller'[a].at = "send" /\ poller'[a].item = Broken /\ poller'[a].then = "end"
      /\ TreeOf(poller'[a]) = TreeOf(poller[a])
    BY <1>1, YieldFacts DEF Fail
<1>3. ASSUME Live(a) PROVE NothingLost'
  <2>1. Live(a)'
    <3>1. \A n \in 1 .. Len(a) - 1 : SubSeq(a, 1, n) # a
      <4>1. a \in Seq(Nat \cup TaskNames(zone))
          BY <1>1 DEF GoodPollers, GoodPoller, Paths
      <4> SUFFICES ASSUME NEW n \in 1 .. Len(a) - 1 PROVE SubSeq(a, 1, n) # a
          OBVIOUS
      <4>2. n \in 1 .. Len(a) /\ n # Len(a)
          BY <4>1
      <4>3. Len(SubSeq(a, 1, n)) = n
          BY <4>1, <4>2, PrefixFacts
      <4> QED BY <4>2, <4>3
    <3>2. ASSUME NEW n \in 1 .. Len(a) - 1 PROVE GoesOn(SubSeq(a, 1, n))'
      <4> DEFINE q == SubSeq(a, 1, n)
      <4>1. GoesOn(q) /\ q # a
          BY <1>3, <3>1 DEF Live
      <4> HIDE DEF q
      <4>2. GoesOn(q)'
          BY <1>2, <4>1 DEF GoesOn, Hearing, Others, Keeps
      <4> QED BY <4>2 DEF q
    <3> QED BY <1>2, <1>3, <3>2 DEF Live
  <2>2. Broken \in Owes(zone', a, poller'[a])
      BY <1>2 DEF Owes
  <2>3. Broken \in UnderWay'
      BY <2>1, <2>2, InUnderWay
  <2> QED BY <2>3 DEF NothingLost
<1>4. ASSUME ~Live(a) PROVE NothingLost'
    BY <1>2, <1>4, StepLosesNothing
<1>5. NothingLost'
    BY <1>3, <1>4
<1>6. SpawnedOnce'
    BY <1>2, SpawnedKept DEF Linking
<1>7. SeenEnds' /\ TreeOf(poller[Top])' = Start
  <2>1. CASE Top = a
      BY <1>1, <1>2, <2>1 DEF SeenEnds
  <2>2. CASE Top # a
    <3>1. Keeps(poller[Top], poller'[Top])
        BY <1>1, <1>2, <2>2 DEF Others
    <3> QED BY <1>1, <3>1 DEF SeenEnds, TreeOf, Keeps
  <2> QED BY <2>1, <2>2
<1> QED BY <1>5, <1>6, <1>7 DEF QueryInv

(***************************************************************************)
(* What is to be found, by where the poller is.                            *)
(***************************************************************************)
LEMMA TodoCases ==
    ASSUME NEW z, NEW p, NEW r
    PROVE  /\ r.at = "lookup" =>
                Todo(z, p, r) = IF Last(p).kind = "enr" THEN EnrBelow(z, Last(p).host, Last(p).hash)
                                                       ELSE LinkBelow(z, Last(p).host, Last(p).hash)
           /\ r.at = "root" => Todo(z, p, r) = NodesFrom(z, TreeOf(r))
           /\ Linking(r) => Todo(z, p, r) = EnrNodes(z, TreeOf(r))
           /\ r.at \notin {"lookup", "root"} /\ ~Linking(r) => Todo(z, p, r) = {}
<1> DEFINE name == Last(p)
<1> HIDE DEF name
<1>1. Todo(z, p, r) = CASE r.at = "lookup" ->
           IF name.kind = "enr" THEN EnrBelow(z, name.host, name.hash)
                                ELSE LinkBelow(z, name.host, name.hash)
      [] r.at = "root" -> NodesFrom(z, TreeOf(r))
      [] Linking(r) -> EnrNodes(z, TreeOf(r))
      [] OTHER -> {}
    BY DEF Todo, name
<1>2. Linking(r) => r.at \notin {"lookup", "root"}
    BY DEF Linking
<1>3. r.at = "lookup" => Todo(z, p, r) = IF name.kind = "enr" THEN EnrBelow(z, name.host, name.hash)
                                                       ELSE LinkBelow(z, name.host, name.hash)
    BY <1>1, <1>2
<1>4. r.at = "root" => Todo(z, p, r) = NodesFrom(z, TreeOf(r))
    BY <1>1, <1>2
<1>5. Linking(r) => Todo(z, p, r) = EnrNodes(z, TreeOf(r))
    BY <1>1, <1>2
<1>6. r.at \notin {"lookup", "root"} /\ ~Linking(r) => Todo(z, p, r) = {}
    BY <1>1
<1> QED BY <1>3, <1>4, <1>5, <1>6 DEF name

(***************************************************************************)
(* What is below the name of a new task is under way, if the task is heard. *)
(***************************************************************************)
LEMMA TaskUnderWay ==
    ASSUME zone' = zone, NEW c, Live(c)', NEW host, poller'[c] = New("lookup", host, None),
           NEW name, Last(c) = name,
           NEW x \in IF name.kind = "enr" THEN EnrBelow(zone, name.host, name.hash)
                                          ELSE LinkBelow(zone, name.host, name.hash)
    PROVE  x \in UnderWay'
<1>1. poller'[c].at = "lookup"
    BY DEF New
<1>2. x \in Todo(zone, c, poller'[c])
    BY <1>1, TodoCases
<1>3. x \in Owes(zone', c, poller'[c])
    BY <1>2 DEF Owes
<1> QED BY <1>3, InUnderWay

(***************************************************************************)
(* A poller may end that owes nothing, or whose tree was seen before.      *)
(***************************************************************************)
LEMMA EndSettles ==
    ASSUME CompleteInv, NEW a \in DOMAIN poller, zone' = zone, query' = query,
           reported' = reported, poller[a].at # "over", poller' = End(a),
           Hearing(poller[a]) => Children(a) = {},
           Live(a) /\ ~Seen => Owes(zone, a, poller[a]) = {}
    PROVE  QueryInv'
<1>1. /\ GoodPollers(poller) /\ SeenEnds /\ TreeOf(poller[Top]) = Start
      /\ Top' = Top /\ Seen' = Seen
    BY DEF CompleteInv, QueryInv, PollersInv, GoodPollers, Top, Seen
<1>2. /\ Others(a) /\ DOMAIN poller' \subseteq DOMAIN poller
      /\ a \in DOMAIN poller' => /\ poller'[a].at = "over" /\ poller'[a].item = "complete"
                                /\ TreeOf(poller'[a]) = TreeOf(poller[a])
      /\ IsTask(a) => a \notin DOMAIN poller'
      /\ ~IsTask(a) => a \in DOMAIN poller'
    BY <1>1, EndFacts
<1>3. NothingLost'
  <2>1. CASE Live(a) /\ Seen
      BY <1>1, <2>1 DEF NothingLost
  <2>2. CASE ~(Live(a) /\ Seen)
      BY <1>2, <2>2, StepLosesNothing
  <2> QED BY <2>1, <2>2
<1>4. SpawnedOnce'
    BY <1>2, SpawnedKept DEF Linking
<1>5. SeenEnds' /\ TreeOf(poller[Top])' = Start
  <2>1. CASE Top # a
      BY <1>2, <2>1, TopKept
  <2>2. CASE Top = a
    <3>0. ~IsTask(Top)
        BY DEF Top, IsTask
    <3>1. ~IsTask(a)
        BY <2>2, <3>0
    <3> QED BY <1>1, <1>2, <2>2, <3>1 DEF SeenEnds
  <2> QED BY <2>1, <2>2
<1> QED BY <1>3, <1>4, <1>5 DEF QueryInv

-----------------------------------------------------------------------------
(* Every step keeps the invariant.                                          *)

(***************************************************************************)
(* The task of resolve_branch: what its name owes is what its record says, *)
(* or what the names below owe.                                            *)
(***************************************************************************)
LEMMA LookupComplete ==
    ASSUME BranchesFit, CompleteInv, NEW a \in DOMAIN poller, IsTask(a), Lookup(a)
    PROVE  QueryInv'
<1> DEFINE name == Last(a)
           r == Record(name.host, name.hash)
           text == zone[name.host][name.hash]
<1>1. /\ PollersInv /\ GoodPollers(poller) /\ zone \in Zones /\ GoodPoller(zone, a, poller[a])
      /\ OfTree(zone, name) /\ name \in TaskNames(zone) /\ poller[a].at = "lookup"
    BY DEF CompleteInv, PollersInv, GoodPollers, GoodPoller, OfTree, Lookup
<1>2. UNCHANGED <<zone, query, reported>>
    BY DEF Lookup
<1>3. ~Hearing(poller[a]) /\ Owes(zone, a, poller[a]) = Todo(zone, a, poller[a])
    BY <1>1 DEF Hearing, Owes, Polling
<1>4. name.kind \in {"link", "enr"}
      /\ Todo(zone, a, poller[a]) = IF name.kind = "enr" THEN EnrBelow(zone, name.host, name.hash)
                                    ELSE LinkBelow(zone, name.host, name.hash)
  <2>1. name.kind \in {"link", "enr"}
      BY <1>1 DEF TaskNames
  <2> QED BY <1>1, <2>1, TodoCases
\* What is owed decides what the record is.
<1>5. ASSUME NEW x \in Owes(zone, a, poller[a])
      PROVE  \/ /\ r.type = "branch"
                /\ \E c \in r.children : x \in IF name.kind = "enr" THEN EnrBelow(zone, name.host, c)
                                                                    ELSE LinkBelow(zone, name.host, c)
             \/ r.type = "enr" /\ name.kind = "enr" /\ x = r.node
             \/ /\ r.type = "link" /\ name.kind = "link" /\ domain_is_allowed(r.domain, r.key)
                /\ x \in NodesFrom(zone, LinkTo(r))
  <2>1. CASE name.kind = "enr"
    <3>1. x \in EnrBelow(zone, name.host, name.hash)
        BY <1>3, <1>4, <1>5, <2>1
    <3>2. name.hash \in Names(zone, name.host)
        BY <3>1, EnrBelowUnfold
    <3>3. CASE text.type = "enr" /\ x = text.node
      <4>1. r = text
          BY <1>1, <3>2, <3>3, RecordWhole
      <4> QED BY <2>1, <3>3, <4>1
    <3>4. CASE text.type = "branch" /\ \E c \in ToSet(text.children) : x \in EnrBelow(zone, name.host, c)
      <4>1. r.type = "branch" /\ r.children = ToSet(text.children)
          BY <1>1, <3>2, <3>4, RecordWhole
      <4> QED BY <2>1, <3>4, <4>1
    <3> QED BY <3>1, <3>3, <3>4, EnrBelowUnfold
  <2>2. CASE name.kind = "link"
    <3>1. x \in LinkBelow(zone, name.host, name.hash)
        BY <1>3, <1>4, <1>5, <2>2
    <3>2. name.hash \in Names(zone, name.host)
        BY <3>1, LinkBelowUnfold
    <3>3. CASE AllowedLink(text) /\ x \in NodesFrom(zone, LinkTo(text))
      <4>1. r = text
          BY <1>1, <3>2, <3>3, RecordWhole DEF AllowedLink
      <4> QED BY <2>2, <3>3, <4>1 DEF AllowedLink
    <3>4. CASE text.type = "branch" /\ \E c \in ToSet(text.children) : x \in LinkBelow(zone, name.host, c)
      <4>1. r.type = "branch" /\ r.children = ToSet(text.children)
          BY <1>1, <3>2, <3>4, RecordWhole
      <4> QED BY <2>2, <3>4, <4>1
    <3> QED BY <3>1, <3>3, <3>4, LinkBelowUnfold
  <2> QED BY <1>4, <2>1, <2>2
<1>6. ASSUME Others(a), SpawnedOnce', Live(a) => \A x \in Owes(zone, a, poller[a]) : Settled(x)
      PROVE  QueryInv'
  <2>1. ~IsTask(Top)
      BY DEF Top, IsTask
  <2>2. Top # a
      BY <2>1
  <2> QED BY <1>1, <1>2, <1>3, <1>6, <2>2, StepLosesNothing, TopKept DEF QueryInv
<1> HIDE DEF name, r, text
\* The task ends.
<1>7. ASSUME poller' = End(a),
             r.type \notin {"branch", "enr"}, r.type = "link" => ~domain_is_allowed(r.domain, r.key)
      PROVE  QueryInv'
  <2>1. Others(a) /\ DOMAIN poller' \subseteq DOMAIN poller /\ a \notin DOMAIN poller'
      BY <1>1, <1>7, EndFacts
  <2>2. SpawnedOnce'
      BY <1>2, <2>1, SpawnedKept
  <2>3. Owes(zone, a, poller[a]) = {}
      BY <1>5, <1>7
  <2> QED BY <1>6, <2>1, <2>2, <2>3
<1>8. CASE r.type = "absent"
  <2>1. poller' = End(a)
      BY <1>8 DEF Lookup, r, name
  <2> QED BY <1>7, <1>8, <2>1
<1>9. CASE r.type = "branch"
  <2>1. poller' = Branch(a, "branch", name.host, r.children, name.kind)
      BY <1>9 DEF Lookup, r, name
  <2> DEFINE child(h) == [host |-> name.host, hash |-> h, kind |-> name.kind]
  <2>2. \A h \in r.children : child(h) \in TaskNames(zone)
    <3>1. r.children \subseteq Hashes \cup {None}
        BY <1>1, <1>9, RecordFacts DEF r
    <3> QED BY <1>1, <3>1 DEF TaskNames
  <2>3. /\ Others(a) /\ SpawnedOnce'
        /\ \A h \in r.children :
             /\ Append(a, child(h)) \in DOMAIN poller'
             /\ poller'[Append(a, child(h))] = New("lookup", name.host, None)
             /\ Last(Append(a, child(h))) = child(h)
             /\ Live(a) => Live(Append(a, child(h)))'
    <3>1. MaySpawn(a, "branch", name.host, r.children, name.kind)
        BY <1>1, <2>2 DEF MaySpawn
    <3>2. Spawns(a, "branch", name.host, r.children, name.kind)
        BY <1>2, <2>1, <3>1, BranchFacts DEF Polling
    <3> QED BY <3>2 DEF Spawns
  <2>4. ASSUME Live(a), NEW x \in Owes(zone, a, poller[a]) PROVE Settled(x)
    <3>1. PICK h \in r.children : x \in IF name.kind = "enr" THEN EnrBelow(zone, name.host, h)
                                                             ELSE LinkBelow(zone, name.host, h)
        BY <1>5, <1>9, <2>4
    <3> DEFINE c == Append(a, child(h))
    <3>2. Live(c)' /\ poller'[c] = New("lookup", name.host, None) /\ Last(c) = child(h)
        BY <2>3, <2>4
    <3> HIDE DEF c
    <3>3. child(h).kind = name.kind /\ child(h).host = name.host /\ child(h).hash = h
        OBVIOUS
    <3> HIDE DEF child
    <3>4. x \in UnderWay'
        BY <1>2, <3>1, <3>2, <3>3, TaskUnderWay
    <3> QED BY <3>4 DEF Settled
  <2> QED BY <1>6, <2>3, <2>4
<1>10. CASE r.type = "link" /\ name.kind = "link" /\ domain_is_allowed(r.domain, r.key)
  <2>1. poller' = [poller EXCEPT ![a] = New("root", r.domain, r.key)]
      BY <1>10 DEF Lookup, r, name
  <2>2. /\ Others(a) /\ DOMAIN poller' = DOMAIN poller
        /\ poller'[a] = New("root", r.domain, r.key)
      BY <2>1 DEF Others, Keeps
  <2>3. SpawnedOnce'
      BY <1>1, <1>2, <2>2, SpawnedKept
  <2>4. ASSUME Live(a), NEW x \in Owes(zone, a, poller[a]) PROVE Settled(x)
    <3>1. Live(a)'
        BY <1>1, <1>2, <1>3, <2>2, <2>4, StaysLive
    <3>2. x \in NodesFrom(zone, LinkTo(r))
        BY <1>5, <1>10, <2>4
    <3>3. x \in Todo(zone, a, poller'[a])
      <4>1. poller'[a].at = "root" /\ TreeOf(poller'[a]) = LinkTo(r)
          BY <2>2 DEF New, TreeOf, LinkTo
      <4> QED BY <3>2, <4>1, TodoCases
    <3>4. x \in UnderWay'
        BY <1>2, <3>1, <3>3, InUnderWay DEF Owes
    <3> QED BY <3>4 DEF Settled
  <2> QED BY <1>6, <2>2, <2>3, <2>4
<1>11. CASE r.type = "link" /\ name.kind = "link" /\ ~domain_is_allowed(r.domain, r.key)
  <2>1. poller' = End(a)
      BY <1>11 DEF Lookup, r, name
  <2> QED BY <1>7, <1>11, <2>1
<1>12. CASE r.type = "enr" /\ name.kind = "enr"
  <2>1. poller' = Yield(a, r.node, "end")
      BY <1>12 DEF Lookup, r, name
  <2>2. /\ Others(a) /\ DOMAIN poller' = DOMAIN poller
        /\ poller'[a].at = "send" /\ poller'[a].item = r.node
      BY <1>1, <2>1, YieldFacts
  <2>3. SpawnedOnce'
      BY <1>1, <1>2, <2>2, SpawnedKept
  <2>4. ASSUME Live(a), NEW x \in Owes(zone, a, poller[a]) PROVE Settled(x)
    <3>1. Live(a)'
        BY <1>1, <1>2, <1>3, <2>2, <2>4, StaysLive
    <3>2. x \in Owes(zone, a, poller'[a])
        BY <1>5, <1>12, <2>2, <2>4 DEF Owes
    <3>3. x \in UnderWay'
        BY <1>2, <3>1, <3>2, InUnderWay
    <3> QED BY <3>3 DEF Settled
  <2> QED BY <1>6, <2>2, <2>3, <2>4
<1>13. CASE /\ r.type \notin {"absent", "branch"}
            /\ ~(r.type = "link" /\ name.kind = "link") /\ ~(r.type = "enr" /\ name.kind = "enr")
  <2>1. poller' = Fail(a)
      BY <1>13 DEF Lookup, r, name
  <2> QED BY <1>1, <1>2, <2>1, FailSettles
<1> QED BY <1>8, <1>9, <1>10, <1>11, <1>12, <1>13

(***************************************************************************)
(* resolve_tree: a tree owes the nodes of its links, then its own.         *)
(***************************************************************************)
LEMMA LookupRootComplete ==
    ASSUME BranchesFit, CompleteInv, NEW a \in DOMAIN poller, LookupRoot(a)
    PROVE  QueryInv'
<1>0. PICK host : host = poller[a].host
    OBVIOUS
<1> DEFINE t == TreeOf(poller[a])
           r == Record(host, Apex)
<1>1. /\ PollersInv /\ GoodPollers(poller) /\ zone \in Zones /\ GoodPoller(zone, a, poller[a])
      /\ poller[a].at = "root" /\ UNCHANGED <<zone, query, reported>>
      /\ Top' = Top /\ Seen' = Seen /\ TreeOf(poller[Top]) = Start
    BY DEF CompleteInv, QueryInv, PollersInv, GoodPollers, LookupRoot, Top, Seen
<1>2. t.host = host /\ t.key = poller[a].key
    BY <1>0 DEF TreeOf
<1>3. ~Hearing(poller[a]) /\ Owes(zone, a, poller[a]) = NodesFrom(zone, t)
    BY <1>1, TodoCases DEF Hearing, Owes, Polling
<1>4. Valid(zone, t) <=> r.type = "root" /\ verify(r, poller[a].key)
  <2>1. ASSUME Valid(zone, t) PROVE r.type = "root" /\ verify(r, poller[a].key)
    <3>1. Apex \in Names(zone, host) /\ zone[host][Apex].type = "root"
        BY <1>2, <2>1 DEF Valid
    <3>2. r = zone[host][Apex]
        BY <1>1, <3>1, RecordWhole
    <3> QED BY <1>2, <2>1, <3>2 DEF Valid
  <2>2. ASSUME r.type = "root", verify(r, poller[a].key) PROVE Valid(zone, t)
    <3>1. Apex \in Names(zone, host) /\ r = zone[host][Apex]
        BY <1>1, <2>2, RecordFacts
    <3> QED BY <1>2, <2>2, <3>1 DEF Valid
  <2> QED BY <2>1, <2>2
<1>5. Valid(zone, t) => r = zone[host][Apex]
    BY <1>1, <1>2, RecordWhole DEF Valid
<1>6. ~Valid(zone, t) => Owes(zone, a, poller[a]) = {}
    BY <1>3, NodesFromUnfold
<1>7. ASSUME Valid(zone, t), a = Top
      PROVE  Seen <=> SeenSequence # None /\ r.seq <= SeenSequence
  <2>1. t = Start /\ host = Domain
      BY <1>1, <1>2, <1>7 DEF Start
  <2> QED BY <1>5, <1>7, <2>1 DEF Seen
<1>8. ~IsTask(Top)
    BY DEF Top, IsTask
<1>9. Live(a) /\ ~IsTask(a) => a = Top
  <2> SUFFICES ASSUME Live(a), ~IsTask(a) PROVE a = Top
      OBVIOUS
  <2>1. SpawnedOnce /\ a \in Seq(Nat \cup TaskNames(zone))
      BY <1>1 DEF CompleteInv, QueryInv, GoodPoller, Paths
  <2>2. Len(a) = 1
    <3>1. Len(a) >= 1
        BY <2>1 DEF SpawnedOnce
    <3>2. ~(Len(a) > 1)
        BY DEF IsTask
    <3>3. Len(a) \in Nat
        BY <2>1, LenProperties
    <3> QED BY <3>1, <3>2, <3>3, SMTT(40)
  <2>3. a = <<a[1]>>
      BY <2>1, <2>2
  <2> QED BY <2>3 DEF Live, Top
<1>10. CASE Valid(zone, t) /\ (~IsTask(a) => SeenSequence = None \/ ~(r.seq <= SeenSequence))
  <2>0. PICK link : link = r.link
      OBVIOUS
  <2>1. poller' = Branch(a, "links", host, {link}, "link")
      BY <1>0, <1>4, <1>10, <2>0 DEF LookupRoot
  <2> DEFINE child == [host |-> host, hash |-> link, kind |-> "link"]
             c == Append(a, child)
  <2>2. /\ Others(a) /\ SpawnedOnce' /\ a \in DOMAIN poller' /\ poller'[a].at = "links"
        /\ TreeOf(poller'[a]) = t /\ c \in DOMAIN poller'
        /\ poller'[c] = New("lookup", host, None) /\ Last(c) = child
        /\ Live(a) => Live(c)'
    <3>1. child \in TaskNames(zone)
      <4>1. host \in DOMAIN zone /\ Apex \in DOMAIN zone[host] /\ zone[host][Apex].type = "root"
          BY <1>2, <1>10 DEF Valid, Names
      <4>2. link \in Hashes
          BY <1>1, <1>5, <1>10, <2>0, <4>1, ZonesAssumption
      <4> QED BY <4>1, <4>2 DEF TaskNames
    <3> HIDE DEF r
    <3>2. MaySpawn(a, "links", host, {link}, "link")
        BY <1>1, <3>1 DEF MaySpawn
    <3>3. Spawns(a, "links", host, {link}, "link")
        BY <1>1, <2>1, <3>2, BranchFacts DEF Polling
    <3> DEFINE hashes == {link}
    <3>4. link \in hashes /\ Spawns(a, "links", host, hashes, "link")
        BY <3>3
    <3> HIDE DEF hashes
    <3> QED BY <3>4 DEF Spawns
  <2>3. ASSUME Live(a), NEW x \in Owes(zone, a, poller[a]) PROVE Settled(x)
    <3>1. Live(a)'
        BY <1>1, <1>3, <2>2, <2>3, StaysLive
    <3>2. CASE x \in EnrNodes(zone, t)
      <4>1. Linking(poller'[a])
          BY <2>2 DEF Linking
      <4>2. x \in Todo(zone, a, poller'[a])
          BY <2>2, <3>2, <4>1, TodoCases
      <4>3. x \in Owes(zone', a, poller'[a])
          BY <1>1, <4>2 DEF Owes
      <4>4. x \in UnderWay'
          BY <3>1, <4>3, InUnderWay
      <4> QED BY <4>4 DEF Settled
    <3>3. CASE x \in LinkBelow(zone, host, link)
      <4>1. child.kind = "link" /\ child.host = host /\ child.hash = link
          OBVIOUS
      <4> HIDE DEF child, c
      <4>2. zone' = zone /\ Live(c)' /\ poller'[c] = New("lookup", host, None) /\ Last(c) = child
          BY <1>1, <2>2, <2>3
      <4>3. x \in IF child.kind = "enr" THEN EnrBelow(zone, child.host, child.hash)
                                         ELSE LinkBelow(zone, child.host, child.hash)
          BY <3>3, <4>1
      <4> HIDE DEF r
      <4>4. x \in UnderWay'
          BY <4>2, <4>3, TaskUnderWay
      <4> QED BY <4>4 DEF Settled
    <3>4. x \in EnrNodes(zone, t) \/ x \in LinkBelow(zone, host, link)
        BY <1>2, <1>3, <1>5, <1>10, <2>0, <2>3, NodesFromUnfold
    <3> QED BY <3>2, <3>3, <3>4
  <2> HIDE DEF c, child, r
  <2>4. NothingLost'
      BY <1>1, <1>3, <2>2, <2>3, StepLosesNothing
  <2>5. SeenEnds' /\ TreeOf(poller[Top])' = Start
    <3>1. CASE Top # a
        BY <1>1, <2>2, <3>1, TopKept
    <3>2. CASE Top = a
      <4>1. ~Seen
          BY <1>7, <1>8, <1>10, <3>2
      <4> QED BY <1>1, <2>2, <3>2, <4>1 DEF SeenEnds
    <3> QED BY <3>1, <3>2
  <2> QED BY <2>2, <2>4, <2>5 DEF QueryInv
<1>11. CASE Valid(zone, t) /\ ~IsTask(a) /\ SeenSequence # None /\ r.seq <= SeenSequence
  <2>1. poller' = End(a)
      BY <1>0, <1>4, <1>11 DEF LookupRoot
  <2>2. Live(a) => Seen
      BY <1>7, <1>9, <1>11
  <2> HIDE DEF r, t
  <2> QED BY <1>1, <1>3, <2>1, <2>2, EndSettles
<1>12. CASE ~Valid(zone, t)
  <2>1. poller' = End(a) \/ poller' = Fail(a)
      BY <1>0, <1>4, <1>12 DEF LookupRoot
  <2> HIDE DEF r, t
  <2> QED BY <1>1, <1>3, <1>6, <1>12, <2>1, EndSettles, FailSettles
<1> QED BY <1>10, <1>11, <1>12

(***************************************************************************)
(* The item that came through the channel is now the poller's own.         *)
(***************************************************************************)
LEMMA ReceiveComplete ==
    ASSUME CompleteInv, NEW a \in DOMAIN poller, Receive(a)
    PROVE  QueryInv'
<1>0. PICK item : item = Head(poller[a].chan)
    OBVIOUS
<1>1. /\ PollersInv /\ GoodPollers(poller) /\ GoodPoller(zone, a, poller[a]) /\ SeenEnds
      /\ poller[a].at \in Polling /\ UNCHANGED <<zone, query, reported>>
      /\ Top' = Top /\ Seen' = Seen /\ TreeOf(poller[Top]) = Start
    BY DEF CompleteInv, QueryInv, PollersInv, GoodPollers, Receive, Top, Seen
<1>2. ToSet(poller[a].chan) = {item}
  <2>1. poller[a].chan \in Seq(Items(zone)) /\ Len(poller[a].chan) <= 1 /\ poller[a].chan # <<>>
      BY <1>1 DEF GoodPoller, CompleteInv, OneItem, Receive
  <2>2. Len(poller[a].chan) = 1
    <3> DEFINE n == Len(poller[a].chan)
    <3>1. n # 0 /\ n \in Nat /\ n <= 1
        BY <2>1, EmptySeq, LenProperties
    <3> HIDE DEF n
    <3>2. n = 1
        BY <3>1
    <3> QED BY <3>2 DEF n
  <2> QED BY <1>0, <2>1, <2>2 DEF ToSet
<1>3. CASE item = Broken
  <2>1. poller' = [Fail(a) EXCEPT ![a].chan = <<>>]
      BY <1>0, <1>3 DEF Receive
  <2>2. poller[a].at # "over"
      BY <1>1 DEF Polling
  <2> QED BY <1>1, <2>1, <2>2, FailSettles
<1>4. CASE item # Broken
  <2>1. poller' = [Yield(a, item, poller[a].at) EXCEPT ![a].chan = <<>>]
      BY <1>0, <1>4 DEF Receive
  <2>2. /\ Others(a) /\ DOMAIN poller' = DOMAIN poller
        /\ poller'[a].at = "send" /\ poller'[a].item = item /\ poller'[a].then = poller[a].at
        /\ TreeOf(poller'[a]) = TreeOf(poller[a])
      BY <1>1, <2>1, YieldFacts
  <2>3. Hearing(poller[a]) /\ Hearing(poller'[a]) /\ (Linking(poller'[a]) <=> Linking(poller[a]))
      BY <1>1, <2>2 DEF Hearing, Linking, Polling
  <2>4. SpawnedOnce'
      BY <1>1, <2>2, <2>3, SpawnedKept
  <2>5. Todo(zone, a, poller'[a]) = Todo(zone, a, poller[a])
    <3>1. poller[a].at \notin {"lookup", "root"} /\ poller'[a].at \notin {"lookup", "root"}
        BY <1>1, <2>2 DEF Polling
    <3> QED BY <2>2, <2>3, <3>1, TodoCases
  <2>6. ASSUME Live(a), NEW x \in Owes(zone, a, poller[a]) PROVE Settled(x)
    <3>1. Live(a)'
        BY <1>1, <2>2, <2>3, <2>6, StaysLive
    <3>2. poller[a].at # "send"
        BY <1>1 DEF Polling
    <3>3. x \in Todo(zone, a, poller[a]) \/ x = item
        BY <1>2, <2>6, <3>2 DEF Owes
    <3>4. x \in Owes(zone', a, poller'[a])
        BY <1>1, <2>2, <2>5, <3>3 DEF Owes
    <3> QED BY <3>1, <3>4, InUnderWay DEF Settled
  <2>7. NothingLost'
    <3>1. poller[a].at # "over" /\ reported \subseteq reported' /\ zone' = zone /\ query' = query
        BY <1>1 DEF Polling
    <3> QED BY <2>2, <2>3, <2>6, <3>1, StepLosesNothing
  <2>8. SeenEnds' /\ TreeOf(poller[Top])' = Start
    <3>1. CASE Top # a
        BY <1>1, <2>2, <3>1, TopKept
    <3>2. CASE Top = a
      <4>1. ~Seen
          BY <1>1, <3>2 DEF SeenEnds, Polling
      <4> QED BY <1>1, <2>2, <3>2, <4>1 DEF SeenEnds
    <3> QED BY <3>1, <3>2
  <2> QED BY <2>4, <2>7, <2>8 DEF QueryInv
<1> QED BY <1>3, <1>4

(***************************************************************************)
(* The end of a branch: nothing is in the channel and nobody can fill it.  *)
(* After its links a tree owes its own nodes, all below the name of the    *)
(* task that it starts.                                                    *)
(***************************************************************************)
LEMMA BranchEndsComplete ==
    ASSUME BranchesFit, CompleteInv, NEW a \in DOMAIN poller, BranchEnds(a)
    PROVE  QueryInv'
<1>1. /\ PollersInv /\ GoodPollers(poller) /\ GoodPoller(zone, a, poller[a]) /\ SeenEnds
      /\ zone \in Zones /\ poller[a].at \in Polling /\ UNCHANGED <<zone, query, reported>>
      /\ Top' = Top /\ Seen' = Seen /\ TreeOf(poller[Top]) = Start
      /\ poller[a].chan = <<>> /\ Children(a) = {}
    BY DEF CompleteInv, QueryInv, PollersInv, GoodPollers, BranchEnds, Exhausted, Top, Seen
<1>2. Owes(zone, a, poller[a]) = Todo(zone, a, poller[a])
  <2>1. ToSet(poller[a].chan) = {} /\ poller[a].at # "send"
      BY <1>1 DEF ToSet, Polling
  <2> QED BY <2>1 DEF Owes
<1>3. poller[a].at \notin {"lookup", "root", "over", "send"}
    BY <1>1 DEF Polling
<1>4. CASE poller[a].at # "links"
  <2>1. poller' = End(a)
      BY <1>4 DEF BranchEnds
  <2>2. Owes(zone, a, poller[a]) = {}
    <3>1. ~Linking(poller[a])
        BY <1>3, <1>4 DEF Linking
    <3> QED BY <1>2, <1>3, <3>1, TodoCases
  <2> QED BY <1>1, <1>3, <2>1, <2>2, EndSettles
<1>5. CASE poller[a].at = "links"
  <2>1. PICK host, enr, t : /\ host = poller[a].host /\ enr = Record(host, Apex).enr
                            /\ t = TreeOf(poller[a])
      OBVIOUS
  <2>2. poller' = Branch(a, "enrs", host, {enr}, "enr")
      BY <1>5, <2>1 DEF BranchEnds
  <2>3. t \in ValidTrees(zone) /\ t.host = host
      BY <1>1, <1>5, <2>1 DEF GoodPoller, TreeOf
  <2>4. /\ Apex \in Names(zone, host) /\ zone[host][Apex].type = "root"
        /\ host \in DOMAIN zone /\ Apex \in DOMAIN zone[host]
      BY <2>3 DEF ValidTrees, Valid, Names
  <2>5. Record(host, Apex) = zone[host][Apex]
      BY <1>1, <2>4, RecordWhole
  <2>6. enr \in Hashes
      BY <1>1, <2>1, <2>4, <2>5, ZonesAssumption
  <2> DEFINE child == [host |-> host, hash |-> enr, kind |-> "enr"]
             c == Append(a, child)
  <2>7. child \in TaskNames(zone) /\ child.host = host /\ child.hash = enr /\ child.kind = "enr"
      BY <2>4, <2>6 DEF TaskNames
  <2>8. Linking(poller[a]) /\ Hearing(poller[a])
      BY <1>1, <1>5 DEF Linking, Hearing
  <2>9. /\ Others(a) /\ SpawnedOnce' /\ a \in DOMAIN poller' /\ poller'[a].at = "enrs"
        /\ TreeOf(poller'[a]) = TreeOf(poller[a]) /\ c \in DOMAIN poller'
        /\ poller'[c] = New("lookup", host, None) /\ Last(c) = child
        /\ Live(a) => Live(c)'
    <3>1. MaySpawn(a, "enrs", host, {enr}, "enr")
        BY <2>7, <2>8 DEF MaySpawn
    <3>2. Spawns(a, "enrs", host, {enr}, "enr")
        BY <1>1, <2>2, <3>1, BranchFacts DEF Polling
    <3> QED BY <3>2 DEF Spawns
  <2>10. Hearing(poller'[a])
      BY <2>9 DEF Hearing, Polling
  <2>11. ASSUME Live(a), NEW x \in Owes(zone, a, poller[a]) PROVE Settled(x)
    <3>1. x \in EnrNodes(zone, t)
        BY <1>2, <2>1, <2>8, <2>11, TodoCases
    <3>2. x \in EnrBelow(zone, host, enr)
        BY <2>1, <2>3, <2>5, <3>1 DEF EnrNodes, EnrBelow
    <3> HIDE DEF child, c
    <3>3. x \in IF child.kind = "enr" THEN EnrBelow(zone, child.host, child.hash)
                                      ELSE LinkBelow(zone, child.host, child.hash)
        BY <2>7, <3>2
    <3>4. x \in UnderWay'
        BY <1>1, <2>9, <2>11, <3>3, TaskUnderWay
    <3> QED BY <3>4 DEF Settled
  <2> HIDE DEF c, child
  <2>12. NothingLost'
      BY <1>1, <1>3, <2>9, <2>10, <2>11, StepLosesNothing
  <2>13. SeenEnds' /\ TreeOf(poller[Top])' = Start
    <3>1. CASE Top # a
        BY <1>1, <2>9, <3>1, TopKept
    <3>2. CASE Top = a
      <4>1. ~Seen
          BY <1>1, <1>3, <3>2 DEF SeenEnds
      <4> QED BY <1>1, <2>9, <3>2, <4>1 DEF SeenEnds
    <3> QED BY <3>1, <3>2
  <2> QED BY <2>9, <2>12, <2>13 DEF QueryInv
<1> QED BY <1>4, <1>5

(***************************************************************************)
(* A poller that has passed its item on.                                   *)
(***************************************************************************)
LEMMA SentFacts ==
    ASSUME GoodPollers(poller), NEW a \in DOMAIN poller, poller[a].at = "send"
    PROVE  LET f == Sent(a) IN
           /\ DOMAIN f \subseteq DOMAIN poller
           /\ \A q \in DOMAIN poller \ {a} : q \in DOMAIN f /\ f[q] = poller[q]
           /\ poller[a].then # "end" =>
                /\ a \in DOMAIN f /\ f[a].at = poller[a].then /\ f[a].chan = poller[a].chan
                /\ f[a].at \in Polling /\ TreeOf(f[a]) = TreeOf(poller[a])
           /\ poller[a].then = "end" /\ IsTask(a) => a \notin DOMAIN f
           /\ poller[a].then = "end" /\ ~IsTask(a) =>
                /\ a \in DOMAIN f /\ f[a].at = "over" /\ TreeOf(f[a]) = TreeOf(poller[a])
                /\ f[a].chan = poller[a].chan
<1>1. GoodPoller(zone, a, poller[a])
    BY DEF GoodPollers
<1>2. CASE poller[a].then # "end"
  <2> DEFINE f == [poller EXCEPT ![a].at = poller[a].then, ![a].item = None]
  <2>1. Sent(a) = f
      BY <1>2 DEF Sent
  <2>2. /\ DOMAIN f = DOMAIN poller /\ \A q \in DOMAIN poller \ {a} : f[q] = poller[q]
        /\ f[a].at = poller[a].then /\ f[a].chan = poller[a].chan
        /\ f[a].host = poller[a].host /\ f[a].key = poller[a].key
      BY <1>1 DEF GoodPoller
  <2> HIDE DEF f
  <2>3. poller[a].then \in Polling
      BY <1>1, <1>2 DEF GoodPoller
  <2> QED BY <1>2, <2>1, <2>2, <2>3 DEF TreeOf
<1>3. CASE poller[a].then = "end" /\ IsTask(a)
  <2>1. Sent(a) = [q \in DOMAIN poller \ {a} |-> poller[q]]
      BY <1>3 DEF Sent, End, Restrict
  <2> QED BY <1>3, <2>1
<1>4. CASE poller[a].then = "end" /\ ~IsTask(a)
  <2> DEFINE f == [poller EXCEPT ![a].at = "over", ![a].item = "complete"]
  <2>1. Sent(a) = f
      BY <1>4 DEF Sent, End
  <2>2. /\ DOMAIN f = DOMAIN poller /\ \A q \in DOMAIN poller \ {a} : f[q] = poller[q]
        /\ f[a].at = "over" /\ f[a].chan = poller[a].chan
        /\ f[a].host = poller[a].host /\ f[a].key = poller[a].key
      BY <1>1 DEF GoodPoller
  <2> HIDE DEF f
  <2> QED BY <1>4, <2>1, <2>2 DEF TreeOf
<1> QED BY <1>2, <1>3, <1>4

(***************************************************************************)
(* Whoever passes its item on to somebody who hears owes the rest as       *)
(* before.                                                                 *)
(***************************************************************************)
LEMMA SentOwes ==
    ASSUME CompleteInv, NEW a \in DOMAIN poller, poller[a].at = "send", Others(a),
           zone' = zone, query' = query,
           poller[a].then # "end" =>
              /\ a \in DOMAIN poller' /\ poller'[a].at = poller[a].then
              /\ poller'[a].at \in Polling /\ TreeOf(poller'[a]) = TreeOf(poller[a])
              /\ poller'[a].chan = poller[a].chan
    PROVE  /\ Hearing(poller[a]) => a \in DOMAIN poller' /\ Hearing(poller'[a])
           /\ Linking(poller[a]) => a \in DOMAIN poller' /\ Linking(poller'[a])
           /\ poller[a].then # "end" /\ Linking(poller'[a]) => Linking(poller[a])
           /\ Live(a) => \A x \in Owes(zone, a, poller[a]) : x = poller[a].item \/ x \in UnderWay'
<1>1. PollersInv
    BY DEF CompleteInv
<1>2. "end" \notin Polling
    BY DEF Polling
<1>3. /\ Hearing(poller[a]) => a \in DOMAIN poller' /\ Hearing(poller'[a])
      /\ Linking(poller[a]) => a \in DOMAIN poller' /\ Linking(poller'[a])
      /\ poller[a].then # "end" /\ Linking(poller'[a]) => Linking(poller[a])
    BY <1>2 DEF Hearing, Linking, Polling
<1>4. ASSUME Live(a), NEW x \in Owes(zone, a, poller[a]), x # poller[a].item PROVE x \in UnderWay'
  <2>1. CASE Linking(poller[a]) /\ x \in EnrNodes(zone, TreeOf(poller[a]))
    <3>1. a \in DOMAIN poller' /\ Linking(poller'[a]) /\ TreeOf(poller'[a]) = TreeOf(poller[a])
        BY <1>3, <2>1 DEF Linking
    <3>2. Live(a)'
        BY <1>1, <1>3, <1>4, <3>1, StaysLive
    <3>3. x \in Todo(zone, a, poller'[a])
        BY <2>1, <3>1, TodoCases
    <3>4. x \in Owes(zone', a, poller'[a])
        BY <3>3 DEF Owes
    <3> QED BY <3>2, <3>4, InUnderWay
  <2>2. CASE Hearing(poller[a]) /\ x \in ToSet(poller[a].chan)
    <3>1. a \in DOMAIN poller' /\ Hearing(poller'[a]) /\ poller'[a].chan = poller[a].chan
        BY <1>2, <1>3, <2>2 DEF Hearing, Polling
    <3>2. Live(a)'
        BY <1>1, <1>3, <1>4, <3>1, StaysLive
    <3>3. x \in Owes(zone', a, poller'[a])
        BY <2>2, <3>1 DEF Owes
    <3> QED BY <3>2, <3>3, InUnderWay
  <2>3. x \in Todo(zone, a, poller[a]) => Linking(poller[a]) /\ x \in EnrNodes(zone, TreeOf(poller[a]))
      BY TodoCases
  <2>4. x \in Todo(zone, a, poller[a]) \/ (Hearing(poller[a]) /\ x \in ToSet(poller[a].chan))
      BY <1>4 DEF Owes
  <2> QED BY <2>1, <2>2, <2>3, <2>4
<1> QED BY <1>3, <1>4

(***************************************************************************)
(* A task that is heard puts its item into the empty channel above; one    *)
(* whose parent does not listen owed the pump nothing.                     *)
(***************************************************************************)
LEMMA SendComplete ==
    ASSUME CompleteInv, NEW a \in DOMAIN poller, Send(a)
    PROVE  QueryInv'
<1>0. PICK item : item = poller[a].item
    OBVIOUS
<1> DEFINE up == Front(a)
           f == Sent(a)
           S == Nat \cup TaskNames(zone)
<1>1. /\ PollersInv /\ GoodPollers(poller) /\ GoodPoller(zone, a, poller[a])
      /\ IsTask(a) /\ poller[a].at = "send" /\ UNCHANGED <<zone, query, reported>>
    BY DEF CompleteInv, PollersInv, GoodPollers, Send
<1>2. Top # a
  <2>1. ~IsTask(Top)
      BY DEF Top, IsTask
  <2> QED BY <1>1, <2>1
<1>3. a \in Seq(S) /\ Len(a) \in Nat /\ Len(a) > 1
    BY <1>1 DEF GoodPoller, Paths, IsTask
<1>4. /\ Len(up) = Len(a) - 1 /\ up = SubSeq(a, 1, Len(a) - 1) /\ up[1] = a[1]
      /\ \A n \in 1 .. Len(up) : SubSeq(up, 1, n) = SubSeq(a, 1, n)
  <2>1. Len(a) - 1 \in 1 .. Len(a) /\ Len(a) \in 1 .. Len(a)
      BY <1>3
  <2>2. SubSeq(a, 1, Len(a)) = a /\ up = SubSeq(a, 1, Len(a) - 1)
    <3>1. SubSeq(a, 1, Len(a)) = a
        BY <1>3, <2>1, PrefixFacts
    <3> QED BY <3>1 DEF Front
  <2> QED BY <1>3, <2>1, <2>2, PrefixFacts
<1>5. up # a
    BY <1>3, <1>4
<1>6. /\ DOMAIN f \subseteq DOMAIN poller
      /\ \A q \in DOMAIN poller \ {a} : q \in DOMAIN f /\ f[q] = poller[q]
      /\ poller[a].then # "end" =>
           /\ a \in DOMAIN f /\ f[a].at = poller[a].then /\ f[a].chan = poller[a].chan
           /\ f[a].at \in Polling /\ TreeOf(f[a]) = TreeOf(poller[a])
      /\ poller[a].then = "end" => a \notin DOMAIN f
    BY <1>1, SentFacts
<1>7. /\ Hears(up) => /\ poller[up].chan = <<>>
                      /\ poller' = [c \in DOMAIN f |->
                            IF c = up THEN [poller[c] EXCEPT !.chan = <<item>>] ELSE f[c]]
      /\ ~Hears(up) => poller' = f
    BY <1>0 DEF Send, Parent
<1> HIDE DEF f, up, S
<1>8. /\ DOMAIN poller' = DOMAIN f
      /\ \A q \in DOMAIN poller' : q # up => poller'[q] = f[q]
    BY <1>6, <1>7
<1>9. Hears(up) => /\ up \in DOMAIN poller /\ up \in DOMAIN poller'
                   /\ Keeps(poller[up], poller'[up])
                   /\ poller'[up].chan = <<item>>
  <2> SUFFICES ASSUME Hears(up)
               PROVE  /\ up \in DOMAIN poller /\ up \in DOMAIN poller'
                      /\ Keeps(poller[up], poller'[up]) /\ poller'[up].chan = <<item>>
      OBVIOUS
  <2>1. up \in DOMAIN poller /\ up \in DOMAIN f
      BY <1>5, <1>6 DEF Hears
  <2>2. poller'[up] = [poller[up] EXCEPT !.chan = <<item>>]
      BY <1>7, <2>1
  <2>3. GoodPoller(zone, up, poller[up])
      BY <1>1, <2>1 DEF GoodPollers
  <2>4. /\ poller'[up].chan = <<item>>
        /\ \A x \in {"at", "item", "then", "host", "key"} : poller'[up][x] = poller[up][x]
      BY <2>2, <2>3 DEF GoodPoller
  <2>5. ToSet(poller[up].chan) = {}
      BY <1>7 DEF ToSet
  <2> QED BY <1>8, <2>1, <2>4, <2>5 DEF Keeps
<1>10. ASSUME ~Hears(up), up \in DOMAIN poller PROVE poller'[up] = poller[up]
    BY <1>5, <1>6, <1>7, <1>10
<1>11. Others(a)
  <2> SUFFICES ASSUME NEW q \in DOMAIN poller \ {a}
               PROVE  q \in DOMAIN poller' /\ Keeps(poller[q], poller'[q])
      BY DEF Others
  <2>1. CASE q # up
      BY <1>6, <1>8, <2>1 DEF Keeps
  <2>2. CASE q = up /\ Hears(up)
      BY <1>9, <2>2
  <2>3. CASE q = up /\ ~Hears(up)
      BY <1>6, <1>8, <1>10, <2>3 DEF Keeps
  <2> QED BY <2>1, <2>2, <2>3
<1>12. poller[a].then # "end" =>
          /\ a \in DOMAIN poller' /\ poller'[a].at = poller[a].then
          /\ poller'[a].at \in Polling /\ TreeOf(poller'[a]) = TreeOf(poller[a])
          /\ poller'[a].chan = poller[a].chan
    BY <1>5, <1>6, <1>8
<1>13. /\ Hearing(poller[a]) => a \in DOMAIN poller' /\ Hearing(poller'[a])
       /\ poller[a].then # "end" /\ Linking(poller'[a]) => Linking(poller[a])
       /\ Live(a) => \A x \in Owes(zone, a, poller[a]) : x = poller[a].item \/ x \in UnderWay'
    BY <1>1, <1>11, <1>12, SentOwes
<1>14. SpawnedOnce'
  <2>1. a \in DOMAIN poller' => /\ poller'[a].at \notin {"lookup", "root"}
                                /\ Linking(poller'[a]) => Linking(poller[a])
      BY <1>6, <1>8, <1>12, <1>13 DEF Polling
  <2> QED BY <1>1, <1>6, <1>8, <1>11, <2>1, SpawnedKept
<1>15. Live(a) => GoesOn(up) /\ Hears(up) /\ Live(up)
  <2> SUFFICES ASSUME Live(a) PROVE GoesOn(up) /\ Hears(up) /\ Live(up)
      OBVIOUS
  <2>1. \A n \in 1 .. Len(a) - 1 : GoesOn(SubSeq(a, 1, n))
      BY DEF Live
  <2>2. Len(a) - 1 \in 1 .. Len(a) - 1
      BY <1>3
  <2>3. GoesOn(up)
      BY <1>4, <2>1, <2>2
  <2>4. \A n \in 1 .. Len(up) - 1 : n \in 1 .. Len(a) - 1 /\ n \in 1 .. Len(up)
      BY <1>3, <1>4
  <2>5. \A n \in 1 .. Len(up) - 1 : GoesOn(SubSeq(up, 1, n))
      BY <1>4, <2>1, <2>4
  <2>6. up \in DOMAIN poller /\ up[1] = query
      BY <1>4, <2>3 DEF GoesOn, Live
  <2> QED BY <2>3, <2>5, <2>6 DEF Live, GoesOn, Hears, Hearing
<1>16. Live(a) => item \in UnderWay'
  <2> SUFFICES ASSUME Live(a) PROVE item \in UnderWay'
      OBVIOUS
  <2>0. PICK u : u = up
      OBVIOUS
  <2>1. /\ u \in DOMAIN poller' /\ Keeps(poller[u], poller'[u]) /\ poller'[u].chan = <<item>>
        /\ GoesOn(u) /\ Live(u)
      BY <1>9, <1>15, <2>0
  <2>2. Live(u)'
      BY <1>1, <1>11, <1>13, <2>1, StaysLive
  <2>3. Hearing(poller'[u])
      BY <2>1 DEF GoesOn, Hearing, Keeps
  <2>4. item \in Owes(zone', u, poller'[u])
    <3>1. item \in ToSet(<<item>>)
        BY DEF ToSet
    <3> QED BY <2>1, <2>3, <3>1 DEF Owes
  <2> QED BY <2>2, <2>4, InUnderWay
<1>17. NothingLost'
  <2>1. Live(a) => \A x \in Owes(zone, a, poller[a]) : Settled(x)
      BY <1>0, <1>13, <1>16 DEF Settled
  <2> QED BY <1>1, <1>11, <1>13, <2>1, StepLosesNothing
<1>18. SeenEnds' /\ TreeOf(poller[Top])' = Start
    BY <1>1, <1>2, <1>11, TopKept
<1> QED BY <1>14, <1>17, <1>18 DEF QueryInv

(***************************************************************************)
(* The pump reports the node it was given, or skips it.                    *)
(***************************************************************************)
LEMMA PumpNodeComplete ==
    ASSUME CompleteInv, PumpNode
    PROVE  QueryInv'
<1>0. PICK a : a = Top
    OBVIOUS
<1>1. /\ PollersInv /\ GoodPollers(poller) /\ a \in DOMAIN poller /\ SeenEnds
      /\ poller[a].at = "send" /\ poller[a].item # Broken /\ poller' = Sent(a)
      /\ UNCHANGED <<zone, query>> /\ Top' = a /\ Seen' = Seen /\ TreeOf(poller[a]) = Start
    BY <1>0 DEF CompleteInv, QueryInv, PollersInv, GoodPollers, PumpNode, Top, Seen
<1>2. ~IsTask(a)
  <2>1. ~IsTask(Top)
      BY DEF Top, IsTask
  <2> QED BY <1>0, <2>1
<1>3. /\ DOMAIN poller' \subseteq DOMAIN poller
      /\ \A q \in DOMAIN poller \ {a} : q \in DOMAIN poller' /\ poller'[q] = poller[q]
      /\ a \in DOMAIN poller' /\ TreeOf(poller'[a]) = TreeOf(poller[a])
      /\ poller[a].then # "end" => /\ poller'[a].at = poller[a].then /\ poller'[a].at \in Polling
                                   /\ poller'[a].chan = poller[a].chan
      /\ poller[a].then = "end" => poller'[a].at = "over"
    BY <1>1, <1>2, SentFacts
<1>4. Others(a)
    BY <1>3 DEF Others, Keeps
<1>5. /\ Hearing(poller[a]) => Hearing(poller'[a])
      /\ poller[a].then # "end" /\ Linking(poller'[a]) => Linking(poller[a])
      /\ Live(a) => \A x \in Owes(zone, a, poller[a]) : x = poller[a].item \/ x \in UnderWay'
    BY <1>1, <1>3, <1>4, SentOwes
<1>6. SpawnedOnce'
  <2>1. /\ poller'[a].at \notin {"lookup", "root"}
        /\ Linking(poller'[a]) => Linking(poller[a])
      BY <1>3, <1>5 DEF Polling, Linking
  <2> QED BY <1>1, <1>3, <1>4, <2>1, SpawnedKept
<1>7. NothingLost'
  <2>1. poller[a].item \in NoTcp \/ poller[a].item \in reported'
      BY <1>0 DEF PumpNode
  <2>2. reported \subseteq reported'
      BY DEF PumpNode
  <2>3. Live(a) => \A x \in Owes(zone, a, poller[a]) : Settled(x)
      BY <1>1, <1>5, <2>1 DEF Settled
  <2> QED BY <1>1, <1>3, <1>4, <1>5, <2>2, <2>3, StepLosesNothing
<1>8. SeenEnds' /\ TreeOf(poller[Top])' = Start
  <2>1. ~Seen
      BY <1>0, <1>1 DEF SeenEnds
  <2> QED BY <1>1, <1>3, <2>1 DEF SeenEnds
<1> QED BY <1>6, <1>7, <1>8 DEF QueryInv

(***************************************************************************)
(* A query that the pump gives up does not count as complete.              *)
(***************************************************************************)
LEMMA GivenUp ==
    ASSUME CompleteInv, UNCHANGED <<zone, query, reported>>, NEW how, how # "complete",
           poller' = [poller EXCEPT ![Top].at = "over", ![Top].item = how]
    PROVE  QueryInv'
<1>0. PICK a : a = Top
    OBVIOUS
<1>1. /\ a \in DOMAIN poller /\ GoodPoller(zone, a, poller[a]) /\ SeenEnds
      /\ Top' = a /\ Seen' = Seen /\ TreeOf(poller[a]) = Start
    BY <1>0 DEF CompleteInv, QueryInv, PollersInv, GoodPollers, Top, Seen
<1>2. poller' = [poller EXCEPT ![a].at = "over", ![a].item = how]
    BY <1>0
<1>3. /\ DOMAIN poller' = DOMAIN poller
      /\ \A q \in DOMAIN poller \ {a} : poller'[q] = poller[q]
      /\ poller'[a].at = "over" /\ poller'[a].item = how
      /\ poller'[a].host = poller[a].host /\ poller'[a].key = poller[a].key
  <2> DEFINE f == [poller EXCEPT ![a].at = "over", ![a].item = how]
  <2>1. /\ DOMAIN f = DOMAIN poller
        /\ \A q \in DOMAIN poller \ {a} : f[q] = poller[q]
        /\ f[a].at = "over" /\ f[a].item = how
        /\ f[a].host = poller[a].host /\ f[a].key = poller[a].key
      BY <1>1 DEF GoodPoller
  <2> HIDE DEF f
  <2> QED BY <1>2, <2>1 DEF f
<1>4. Others(a)
    BY <1>3 DEF Others, Keeps
<1>5. SpawnedOnce'
    BY <1>1, <1>3, <1>4, SpawnedKept DEF Linking
<1>6. NothingLost'
    BY <1>1, <1>3 DEF NothingLost
<1>7. SeenEnds' /\ TreeOf(poller[Top])' = Start
    BY <1>1, <1>3 DEF SeenEnds, TreeOf
<1> QED BY <1>5, <1>6, <1>7 DEF QueryInv

\* The pump has just asked.
Asked ==
    /\ zone \in Zones /\ Top \in DOMAIN poller /\ Len(Top) = 1 /\ Top[1] = query
    /\ poller[Top] = New("root", Domain, Key)
    /\ reported = {} /\ SpawnedOnce

(***************************************************************************)
(* A new query owes the whole tree.                                        *)
(***************************************************************************)
LEMMA AskedComplete == Asked => QueryInv
<1> SUFFICES ASSUME Asked PROVE QueryInv
    OBVIOUS
<1>1. poller[Top].at = "root" /\ TreeOf(poller[Top]) = Start
    BY DEF Asked, New, TreeOf, Start
<1>2. Live(Top)
    BY DEF Asked, Live
<1>3. NodesFrom(zone, Start) \subseteq Owes(zone, Top, poller[Top])
    BY <1>1, TodoCases DEF Owes
<1>4. NodesFrom(zone, Start) \subseteq UnderWay
    BY <1>2, <1>3 DEF UnderWay, Live
<1>5. TreeNodes[zone] \subseteq NodesFrom(zone, Start)
    BY TreeNodesFrom DEF Asked
<1>6. NothingLost
    BY <1>4, <1>5 DEF NothingLost
<1>7. SeenEnds
    BY <1>1 DEF Asked, SeenEnds
<1> QED BY <1>1, <1>6, <1>7 DEF QueryInv, Asked

(***************************************************************************)
(* The tasks of earlier queries are not those of the next one.             *)
(***************************************************************************)
LEMMA PumpRestartsComplete ==
    ASSUME CompleteInv, PumpRestarts
    PROVE  QueryInv'
<1>0. PICK top : top = <<query + 1>>
    OBVIOUS
<1> DEFINE new == New("root", Domain, Key)
<1>1. /\ zone \in Zones /\ query \in Nat /\ SpawnedOnce
      /\ \A p \in DOMAIN poller : p \in Seq(Nat \cup TaskNames(zone))
    BY DEF CompleteInv, QueryInv, PollersInv, GoodPollers, GoodPoller, Paths
<1>2. /\ poller' = [p \in (DOMAIN poller \ {Top}) \cup {top} |-> IF p = top THEN new ELSE poller[p]]
      /\ zone' = zone /\ query' = query + 1 /\ reported' = {}
    BY <1>0 DEF PumpRestarts
<1>3. Top' = top /\ Len(top) = 1 /\ top[1] = query + 1
    BY <1>0, <1>2 DEF Top
<1> HIDE DEF new
<1>4. DOMAIN poller' = (DOMAIN poller \ {Top}) \cup {top}
      /\ poller'[top] = new /\ \A q \in DOMAIN poller' : q # top => q \in DOMAIN poller /\ poller'[q] = poller[q]
    BY <1>2
<1>5. SpawnedOnce'
  <2>1. ASSUME NEW p \in DOMAIN poller' PROVE Len(p) >= 1 /\ p[1] \in 1 .. query'
    <3>1. CASE p = top
      <4>1. Len(p) = 1 /\ p[1] = query + 1
          BY <1>3, <3>1
      <4>2. query + 1 \in 1 .. query + 1 /\ query' = query + 1
          BY <1>1, <1>2
      <4> QED BY <4>1, <4>2
    <3>2. CASE p # top
      <4>1. Len(p) >= 1 /\ p[1] \in 1 .. query
          BY <1>1, <1>4, <3>2 DEF SpawnedOnce
      <4> QED BY <1>1, <1>2, <4>1
    <3> QED BY <3>1, <3>2
  <2>2. ASSUME NEW p \in DOMAIN poller', NEW n \in 1 .. Len(p) - 1,
               NEW q \in DOMAIN poller', q = SubSeq(p, 1, n)
        PROVE  poller'[q].at \notin {"lookup", "root"} /\ (Linking(poller'[q]) => p[n + 1].kind = "link")
    <3>1. p # top
      <4>1. Len(top) = 1
          BY <1>3
      <4> HIDE <1>3
      <4> SUFFICES ASSUME p = top PROVE FALSE
          OBVIOUS
      <4>2. n \in 1 .. 0
          BY <4>1
      <4> QED BY <4>2
    <3>2. /\ p \in DOMAIN poller /\ p[1] \in 1 .. query
          /\ p \in Seq(Nat \cup TaskNames(zone)) /\ Len(p) \in Nat
        BY <1>1, <1>4, <3>1 DEF SpawnedOnce
    <3>3. q[1] = p[1]
      <4>1. n \in 1 .. Len(p)
          BY <3>2
      <4> QED BY <2>2, <3>2, <4>1, PrefixFacts
    <3>4. q # top
        BY <1>1, <1>3, <3>2, <3>3
    <3>5. q \in DOMAIN poller /\ poller'[q] = poller[q]
        BY <1>4, <3>4
    <3> QED BY <1>1, <2>2, <3>2, <3>5 DEF SpawnedOnce
  <2> QED BY <2>1, <2>2 DEF SpawnedOnce
<1>6. Asked'
    BY <1>1, <1>2, <1>3, <1>4, <1>5 DEF Asked, new
<1> QED BY <1>6, AskedComplete, PTL

ChansKept(f) ==
    \A q \in DOMAIN f : \/ q \in DOMAIN poller /\ f[q].chan = poller[q].chan
                        \/ Len(f[q].chan) <= 1

(***************************************************************************)
(* A channel holds one item.                                               *)
(***************************************************************************)
LEMMA OneItemKept == PollersInv /\ OneItem /\ [Next]_vars => OneItem'
<1> SUFFICES ASSUME PollersInv, OneItem, [Next]_vars PROVE OneItem'
    OBVIOUS
<1>1. GoodPollers(poller) /\ Top \in DOMAIN poller
    BY DEF PollersInv, GoodPollers
<1>2. ASSUME ChansKept(poller') PROVE OneItem'
    BY <1>2 DEF OneItem, ChansKept
<1>3. \A at, host, key : Len(New(at, host, key).chan) <= 1
    BY DEF New
<1>4. ASSUME NEW p \in DOMAIN poller
      PROVE  /\ ChansKept(End(p))
             /\ \A item, then : /\ ChansKept(Yield(p, item, then))
                                /\ ChansKept([Yield(p, item, then) EXCEPT ![p].chan = <<>>])
             /\ \A at, host, hashes, kind : ChansKept(Branch(p, at, host, hashes, kind))
             /\ poller[p].at = "send" => ChansKept(Sent(p))
             /\ \A how : ChansKept([poller EXCEPT ![p].at = "over", ![p].item = how])
  <2>1. GoodPoller(zone, p, poller[p])
      BY <1>1 DEF GoodPollers
  <2>2. \A how : ChansKept([poller EXCEPT ![p].at = "over", ![p].item = how])
      BY <2>1 DEF GoodPoller, ChansKept
  <2>3. ChansKept(End(p))
    <3>1. CASE IsTask(p)
      <4>1. End(p) = [q \in DOMAIN poller \ {p} |-> poller[q]]
          BY <3>1 DEF End, Restrict
      <4> QED BY <4>1 DEF ChansKept
    <3>2. CASE ~IsTask(p)
        BY <2>2, <3>2 DEF End
    <3> QED BY <3>1, <3>2
  <2>4. ASSUME NEW item, NEW then
        PROVE  ChansKept(Yield(p, item, then)) /\ ChansKept([Yield(p, item, then) EXCEPT ![p].chan = <<>>])
    <3> DEFINE f == Yield(p, item, then)
               g == [f EXCEPT ![p].chan = <<>>]
    <3>1. /\ DOMAIN f = DOMAIN poller /\ DOMAIN f[p] = DOMAIN poller[p]
          /\ \A q \in DOMAIN f : f[q].chan = poller[q].chan
        BY <2>1 DEF Yield, GoodPoller
    <3> HIDE DEF f
    <3>2. DOMAIN g = DOMAIN f /\ g[p].chan = <<>> /\ \A q \in DOMAIN g : q # p => g[q] = f[q]
        BY <2>1, <3>1 DEF GoodPoller
    <3> HIDE DEF g
    <3>3. Len(<<>>) <= 1
        OBVIOUS
    <3>4. ChansKept(f) /\ ChansKept(g)
        BY <3>1, <3>2, <3>3 DEF ChansKept
    <3> QED BY <3>4 DEF f, g
  <2>5. ASSUME NEW at, NEW host, NEW hashes, NEW kind PROVE ChansKept(Branch(p, at, host, hashes, kind))
    <3> DEFINE f == Branch(p, at, host, hashes, kind)
               r == [poller[p] EXCEPT !.at = at]
    <3>1. \A q \in DOMAIN f : \/ q = p /\ f[q] = r
                              \/ q \in DOMAIN poller /\ f[q] = poller[q]
                              \/ f[q] = New("lookup", host, None)
        BY DEF Branch
    <3>2. r.chan = poller[p].chan
        BY <2>1 DEF GoodPoller
    <3> HIDE DEF f, r
    <3>3. ChansKept(f)
        BY <1>3, <3>1, <3>2 DEF ChansKept
    <3> QED BY <3>3 DEF f
  <2>6. ASSUME poller[p].at = "send" PROVE ChansKept(Sent(p))
    <3>1. CASE poller[p].then = "end"
        BY <2>3, <3>1 DEF Sent
    <3>2. CASE poller[p].then # "end"
        BY <1>1, <2>6, <3>2, SentFacts DEF ChansKept
    <3> QED BY <3>1, <3>2
  <2> QED BY <2>2, <2>3, <2>4, <2>5, <2>6
<1>5. ASSUME NEW p \in DOMAIN poller, IsTask(p), Lookup(p) PROVE OneItem'
  <2>1. \/ poller' = End(p) \/ poller' = Fail(p)
        \/ \E at, host, hashes, kind : poller' = Branch(p, at, host, hashes, kind)
        \/ \E host, key : poller' = [poller EXCEPT ![p] = New("root", host, key)]
        \/ \E item : poller' = Yield(p, item, "end")
      BY <1>5 DEF Lookup
  <2>2. \A host, key : ChansKept([poller EXCEPT ![p] = New("root", host, key)])
    <3> SUFFICES ASSUME NEW host, NEW key PROVE ChansKept([poller EXCEPT ![p] = New("root", host, key)])
        OBVIOUS
    <3> DEFINE new == New("root", host, key)
    <3>1. Len(new.chan) <= 1
        BY <1>3
    <3> HIDE DEF new
    <3>2. ChansKept([poller EXCEPT ![p] = new])
        BY <3>1 DEF ChansKept
    <3> QED BY <3>2 DEF new
  <2>3. CASE poller' = End(p)
      BY <1>2, <1>4, <2>3
  <2>4. CASE \E item, then : poller' = Yield(p, item, then)
      BY <1>2, <1>4, <2>4
  <2>5. CASE \E at, host, hashes, kind : poller' = Branch(p, at, host, hashes, kind)
    <3>1. PICK at, host, hashes, kind : poller' = Branch(p, at, host, hashes, kind)
        BY <2>5
    <3>2. ChansKept(Branch(p, at, host, hashes, kind))
        BY <1>4, Zenon
    <3>3. ChansKept(poller')
        BY <3>1, <3>2
    <3> QED BY <1>2, <3>3
  <2>6. CASE \E host, key : poller' = [poller EXCEPT ![p] = New("root", host, key)]
      BY <1>2, <2>2, <2>6
  <2> QED BY <2>1, <2>3, <2>4, <2>5, <2>6 DEF Fail
<1>6. ASSUME NEW p \in DOMAIN poller, LookupRoot(p) \/ Receive(p) \/ BranchEnds(p) \/ LookupFails(p)
      PROVE  OneItem'
  <2>1. \/ poller' = End(p)
        \/ \E item, then : \/ poller' = Yield(p, item, then)
                           \/ poller' = [Yield(p, item, then) EXCEPT ![p].chan = <<>>]
        \/ \E at, host, hashes, kind : poller' = Branch(p, at, host, hashes, kind)
      BY <1>6 DEF LookupRoot, Receive, BranchEnds, LookupFails, Fail
  <2>2. CASE poller' = End(p)
      BY <1>2, <1>4, <2>2
  <2>3. CASE \E item, then : \/ poller' = Yield(p, item, then)
                             \/ poller' = [Yield(p, item, then) EXCEPT ![p].chan = <<>>]
    <3>1. PICK item, then : \/ poller' = Yield(p, item, then)
                            \/ poller' = [Yield(p, item, then) EXCEPT ![p].chan = <<>>]
        BY <2>3
    <3>2. /\ ChansKept(Yield(p, item, then))
          /\ ChansKept([Yield(p, item, then) EXCEPT ![p].chan = <<>>])
        BY <1>4, Zenon
    <3>3. ChansKept(poller')
        BY <3>1, <3>2
    <3> QED BY <1>2, <3>3
  <2>4. CASE \E at, host, hashes, kind : poller' = Branch(p, at, host, hashes, kind)
    <3>1. PICK at, host, hashes, kind : poller' = Branch(p, at, host, hashes, kind)
        BY <2>4
    <3>2. ChansKept(Branch(p, at, host, hashes, kind))
        BY <1>4, Zenon
    <3>3. ChansKept(poller')
        BY <3>1, <3>2
    <3> QED BY <1>2, <3>3
  <2> QED BY <2>1, <2>2, <2>3, <2>4
<1>7. ASSUME NEW p \in DOMAIN poller, Send(p) PROVE OneItem'
  <2> DEFINE f == Sent(p)
             item == poller[p].item
             up == Parent(p)
  <2>1. ChansKept(f)
      BY <1>4, <1>7 DEF Send
  <2>2. CASE ~Hears(up)
    <3>1. poller' = f
        BY <1>7, <2>2 DEF Send
    <3> QED BY <1>2, <2>1, <3>1
  <2>3. CASE Hears(up)
    <3> DEFINE r == [poller[up] EXCEPT !.chan = <<item>>]
    <3>1. poller' = [c \in DOMAIN f |-> IF c = up THEN [poller[c] EXCEPT !.chan = <<item>>] ELSE f[c]]
        BY <1>7, <2>3 DEF Send
    <3>2. GoodPoller(zone, up, poller[up])
        BY <1>1, <2>3 DEF Hears, GoodPollers
    <3>3. Len(r.chan) <= 1
        BY <3>2 DEF GoodPoller
    <3> HIDE DEF f, up, item
    <3>4. /\ DOMAIN poller' = DOMAIN f
          /\ \A c \in DOMAIN f : c # up => poller'[c] = f[c]
          /\ up \in DOMAIN f => poller'[up] = r
        BY <3>1
    <3> HIDE DEF r
    <3>5. ChansKept(poller')
        BY <2>1, <3>3, <3>4 DEF ChansKept
    <3> QED BY <1>2, <3>5
  <2> QED BY <2>2, <2>3
<1>8. ASSUME PumpNode \/ PumpError \/ PumpExpires PROVE OneItem'
  <2>1. \/ poller[Top].at = "send" /\ poller' = Sent(Top)
        \/ \E how : poller' = [poller EXCEPT ![Top].at = "over", ![Top].item = how]
      BY <1>8 DEF PumpNode, PumpError, PumpExpires
  <2>2. PICK p \in DOMAIN poller : p = Top
      BY <1>1
  <2> QED BY <1>2, <1>4, <2>1, <2>2, ZenonT(60)
<1>9. CASE PumpRestarts
  <2> DEFINE top == <<query + 1>>
             new == New("root", Domain, Key)
  <2>1. poller' = [p \in (DOMAIN poller \ {Top}) \cup {top} |-> IF p = top THEN new ELSE poller[p]]
      BY <1>9 DEF PumpRestarts
  <2>2. Len(new.chan) <= 1
      BY <1>3
  <2> HIDE DEF new, top
  <2>3. ChansKept(poller')
      BY <2>1, <2>2 DEF ChansKept
  <2> QED BY <1>2, <2>3
<1>10. CASE Dialer \/ UNCHANGED vars
    BY <1>10 DEF Dialer, vars, OneItem
<1> QED BY <1>5, <1>6, <1>7, <1>8, <1>9, <1>10 DEF Next, Poller

(***************************************************************************)
(* The invariant is inductive, if no branch is cut.                        *)
(***************************************************************************)
LEMMA NextCompleteInv == BranchesFit /\ CompleteInv /\ [Next]_vars => CompleteInv'
<1> SUFFICES ASSUME BranchesFit, CompleteInv, [Next]_vars PROVE CompleteInv'
    OBVIOUS
<1>1. PollersInv /\ OneItem /\ QueryInv
    BY DEF CompleteInv
<1>2. PollersInv' /\ OneItem'
    BY <1>1, NextPollersInv, OneItemKept
<1>3. ASSUME NEW p \in DOMAIN poller, Poller(p) PROVE QueryInv'
    BY <1>3, LookupComplete, LookupRootComplete, ReceiveComplete, BranchEndsComplete, SendComplete
    DEF Poller
<1>4. ASSUME NEW p \in DOMAIN poller, LookupFails(p) PROVE QueryInv'
  <2>1. UNCHANGED <<zone, query, reported>> /\ poller' = Fail(p) /\ poller[p].at # "over"
      BY <1>4 DEF LookupFails
  <2> QED BY <2>1, FailSettles
<1>5. ASSUME PumpError PROVE QueryInv'
    BY <1>5, GivenUp DEF PumpError
<1>6. ASSUME PumpExpires PROVE QueryInv'
    BY <1>6, GivenUp DEF PumpExpires
<1>7. ASSUME Dialer \/ UNCHANGED vars PROVE QueryInv'
  <2>1. UNCHANGED <<zone, query, poller, reported>>
      BY <1>7 DEF Dialer, vars
  <2>2. Top' = Top /\ Seen' = Seen /\ UnderWay' = UnderWay
      BY <2>1 DEF Top, Seen, UnderWay, Live, GoesOn
  <2>3. SpawnedOnce'
      BY <1>1, <2>1 DEF QueryInv, SpawnedOnce
  <2>4. NothingLost' /\ SeenEnds' /\ TreeOf(poller[Top])' = Start
      BY <1>1, <2>1, <2>2 DEF QueryInv, NothingLost, SeenEnds
  <2> QED BY <2>3, <2>4 DEF QueryInv
<1>8. QueryInv'
    BY <1>3, <1>4, <1>5, <1>6, <1>7, PumpNodeComplete, PumpRestartsComplete DEF Next
<1> QED BY <1>2, <1>8 DEF CompleteInv

(***************************************************************************)
(* The invariant holds at the start.                                       *)
(***************************************************************************)
LEMMA InitCompleteInv == Init => CompleteInv
<1> SUFFICES ASSUME Init PROVE CompleteInv
    OBVIOUS
<1> DEFINE new == New("root", Domain, Key)
           top == <<1>>
<1>1. zone \in Zones /\ query = 1 /\ poller = [p \in {top} |-> new] /\ reported = {}
    BY DEF Init
<1>2. Top = top /\ Len(top) = 1 /\ top[1] = 1
    BY <1>1 DEF Top
<1>3. Len(new.chan) <= 1
    BY DEF New
<1> HIDE DEF new, top
<1>4. OneItem
    BY <1>1, <1>3 DEF OneItem
<1>5. SpawnedOnce
  <2>1. \A p \in DOMAIN poller : p = top
      BY <1>1
  <2>2. Len(top) >= 1 /\ top[1] \in 1 .. query /\ 1 .. Len(top) - 1 = {}
      BY <1>1, <1>2
  <2> QED BY <2>1, <2>2 DEF SpawnedOnce
<1>6. Asked
    BY <1>1, <1>2, <1>5 DEF Asked, new
<1> QED BY <1>4, <1>6, AskedComplete, InitPollersInv DEF CompleteInv

(***************************************************************************)
(* When the stream of a query ends, nobody whom the pump would hear is     *)
(* left, so nothing is under way.                                          *)
(***************************************************************************)
LEMMA NobodyLeft ==
    ASSUME CompleteInv, poller[Top].at = "over"
    PROVE  UnderWay = {}
<1>1. /\ SpawnedOnce
      /\ \A p \in DOMAIN poller : p \in Seq(Nat \cup TaskNames(zone))
    BY DEF CompleteInv, QueryInv, PollersInv, GoodPollers, GoodPoller, Paths
<1>2. ~GoesOn(Top)
    BY DEF GoesOn, Hearing, Polling
<1>3. ASSUME NEW p \in DOMAIN poller, Live(p) PROVE p = Top
  <2>1. p \in Seq(Nat \cup TaskNames(zone)) /\ Len(p) \in Nat /\ Len(p) >= 1 /\ p[1] = query
      BY <1>1, <1>3, LenProperties DEF SpawnedOnce, Live
  <2>2. CASE Len(p) = 1
    <3>1. p = <<p[1]>>
        BY <2>1, <2>2
    <3> QED BY <2>1, <3>1 DEF Top
  <2>3. CASE Len(p) # 1
    <3> DEFINE n == Len(p)
    <3>0. n \in Nat /\ n >= 1 /\ n # 1
        BY <2>1, <2>3
    <3> HIDE DEF n
    <3>1. 1 \in 1 .. n - 1 /\ 1 \in 1 .. n
        BY <3>0
    <3> USE DEF n
    <3>2. GoesOn(SubSeq(p, 1, 1))
        BY <1>3, <3>1 DEF Live
    <3> DEFINE q == SubSeq(p, 1, 1)
    <3>3. q \in Seq(Nat \cup TaskNames(zone)) /\ Len(q) = 1 /\ q[1] = query
        BY <2>1, <3>1, PrefixFacts
    <3> HIDE DEF q
    <3>4. q = <<q[1]>>
        BY <3>3
    <3>5. q = Top
        BY <3>3, <3>4 DEF Top
    <3> QED BY <1>2, <3>2, <3>5 DEF q
  <2> QED BY <2>2, <2>3
<1>4. Owes(zone, Top, poller[Top]) = {}
  <2>1. ~Linking(poller[Top]) /\ ~Hearing(poller[Top])
      BY DEF Linking, Hearing, Polling
  <2> QED BY <2>1, TodoCases DEF Owes
<1> QED BY <1>3, <1>4 DEF UnderWay

(***************************************************************************)
(* A query that ends without an error has found every node of the trees    *)
(* that allowed links lead to, for any zone whose branches fit into one    *)
(* character-string, any whitelist, and any number of queries and failing  *)
(* lookups.  (A branch that does not fit loses children: the run           *)
(* dns_long_branch.)                                                       *)
(***************************************************************************)
THEOREM CompleteQueries == BranchesFit => (Spec => []CompleteQuery)
<1> SUFFICES ASSUME BranchesFit PROVE Spec => []CompleteQuery
    OBVIOUS
<1>1. CompleteInv => CompleteQuery
  <2> SUFFICES ASSUME CompleteInv, poller[Top].at = "over", poller[Top].item = "complete"
               PROVE  reported = IF Seen THEN {} ELSE TreeNodes[zone]
      BY DEF CompleteQuery
  <2>1. UnderWay = {}
      BY NobodyLeft
  <2>2. NothingLost /\ SeenEnds /\ reported \subseteq TreeNodes[zone]
      BY DEF CompleteInv, QueryInv, PollersInv, OnlyTreeNodes
  <2>3. (IF Seen THEN {} ELSE TreeNodes[zone]) \subseteq reported
      BY <2>1, <2>2 DEF NothingLost
  <2> QED BY <2>2, <2>3 DEF SeenEnds
<1>2. CompleteInv /\ [Next]_vars => CompleteInv'
    BY NextCompleteInv
<1> QED BY <1>1, <1>2, InitCompleteInv, PTL DEF Spec

==============================================================================
