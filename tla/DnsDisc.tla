------------------------------- MODULE DnsDisc -------------------------------
(***************************************************************************)
(* DNS discovery: the resolver of dnsdisc/src/lib.rs, its DNS backend and  *)
(* the pump of devp2p/src/disc/dns.rs, which asks again and again for the  *)
(* tree of one domain.                                                     *)
(*                                                                         *)
(* A query is a tree of pollers.  Its root is the stream that the pump     *)
(* polls; resolve_branch spawns a task for each child, all at once, and    *)
(* they send what they find through one channel(1) to the poller above.    *)
(* A poller is named by its path: the number of the query, then the names  *)
(* it went through.  A poller that meets an error stops polling: the tasks *)
(* below go on, but nobody hears them.                                     *)
(*                                                                         *)
(* The DNS is external: the zone does not change during a behaviour, but a *)
(* lookup may fail and may take any time.  A text is what it says.         *)
(***************************************************************************)
EXTENDS Integers, SequencesExt, FiniteSets

CONSTANTS
    Hashes,         \* hashes of records
    Zones,          \* possible contents of the DNS: domain -> hash -> record
    Apex,           \* the "hash" of the record at the domain itself
    Domain, Key,    \* what the pump asks for, the signer it expects or None
    Whitelist,      \* remote_whitelist: domain -> key, or None
    SeenSequence,   \* seen_sequence, a number or None
    NoTcp,          \* nodes whose record has no TCP socket
    TxtHashes,      \* hashes that fit into one character-string of a TXT
    Broken,         \* the error, among the items of a channel
    None,
    MaxQueries,     \* bound on queries
    MaxFailures     \* bound on failing lookups

\* What a text of each kind holds; what is left of a cut hash is no hash.
ASSUME ZonesAssumption ==
    /\ None \notin Hashes
    /\ \A z \in Zones : \A host \in DOMAIN z : \A hash \in DOMAIN z[host] :
         LET text == z[host][hash] IN
         /\ hash \in Hashes
         /\ text.type = "branch" => text \in [type : {"branch"}, children : Seq(Hashes)]
         /\ text.type = "root" => text.link \in Hashes /\ text.enr \in Hashes

ASSUME TxtAssumption == TxtHashes \in Nat

VARIABLES
    zone,
    query,          \* number of the pump's query
    poller,         \* path -> poller: where it is and the channel it polls
    out,            \* the channel(1) of DnsDiscovery
    reported,       \* history: nodes sent there by this query
    failures        \* history: failing lookups

vars == <<zone, query, poller, out, reported, failures>>

-----------------------------------------------------------------------------
(* Records.                                                                 *)

Absent == [type |-> "absent"]

\* get_record: only the first character-string of a TXT is read, so a branch
\* loses its last children; what is left of a cut hash names nothing.
get_record(host, hash) ==
    IF host \in DOMAIN zone /\ hash \in DOMAIN zone[host]
    THEN LET text == zone[host][hash] IN
         IF text.type = "branch" /\ Len(text.children) > TxtHashes
         THEN [text EXCEPT !.children = Append(SubSeq(@, 1, TxtHashes), None)]
         ELSE text
    ELSE Absent

\* DnsRecord::from_str: a branch is a set of hashes; what has none of the four
\* prefixes, or breaks off, is an error.
from_str(text) ==
    CASE text.type = "branch" -> [text EXCEPT !.children = ToSet(@)]
      [] text.type \in {"root", "link", "enr"} -> text
      [] OTHER -> [type |-> "invalid"]

Record(host, hash) ==
    LET text == get_record(host, hash) IN IF text = Absent THEN Absent ELSE from_str(text)

\* Defective variant of domain_is_allowed: the key is not compared.
domain_in_whitelist(domain, key) == Whitelist = None \/ domain \in DOMAIN Whitelist

domain_is_allowed(domain, key) ==
    Whitelist = None \/ (domain \in DOMAIN Whitelist /\ Whitelist[domain] = key)

verify(root, key) == key = None \/ root.signer = key

-----------------------------------------------------------------------------
(* Pollers.                                                                 *)

Polling == {"branch", "links", "enrs"}

New(at, host, key) ==
    [at |-> at, host |-> host, key |-> key, chan |-> <<>>, item |-> None, then |-> "end"]

Top == <<query>>
IsTask(p) == Len(p) > 1
Parent(p) == Front(p)
Children(p) == {c \in DOMAIN poller : IsTask(c) /\ Parent(c) = p}

\* The poller has not dropped its receiver: a task drops it at an error, before
\* it sends the error on; the pump drops the stream once it has sent the error.
Hears(p) ==
    /\ p \in DOMAIN poller
    /\ \/ poller[p].at \in Polling
       \/ poller[p].at = "send" /\ (poller[p].then \in Polling \/ ~IsTask(p))

\* resolve_branch: p polls, one task for each child looks its name up.
Branch(p, at, host, hashes, kind) ==
    LET tasks == {Append(p, [host |-> host, hash |-> h, kind |-> kind]) : h \in hashes}
    IN [c \in DOMAIN poller \cup tasks |->
          IF c = p THEN [poller[p] EXCEPT !.at = at]
          ELSE IF c \in DOMAIN poller THEN poller[c]
          ELSE New("lookup", host, None)]

\* The poller is through: a task ends, the pump sees the end of the stream.
End(p) ==
    IF IsTask(p) THEN Restrict(poller, DOMAIN poller \ {p})
    ELSE [poller EXCEPT ![p].at = "over", ![p].item = "complete"]

Yield(p, item, then) ==
    [poller EXCEPT ![p].at = "send", ![p].item = item, ![p].then = then]

Fail(p) == Yield(p, Broken, "end")

Init ==
    /\ zone \in Zones
    /\ query = 1
    /\ poller = [p \in {<<1>>} |-> New("root", Domain, Key)]
    /\ out = <<>> /\ reported = {} /\ failures = 0

\* get_record failed.
LookupFails(p) ==
    /\ poller[p].at \in {"lookup", "root"} /\ failures < MaxFailures
    /\ failures' = failures + 1
    /\ poller' = Fail(p)
    /\ UNCHANGED <<zone, query, out, reported>>

\* The task of resolve_branch for one child.
Lookup(p) ==
    LET name == Last(p)
        r    == Record(name.host, name.hash)
    IN
    /\ poller[p].at = "lookup"
    /\ poller' =
         CASE r.type = "absent" -> End(p)
           [] r.type = "branch" ->
                Branch(p, "branch", name.host, r.children, name.kind)
           [] r.type = "link" /\ name.kind = "link" ->
                IF domain_is_allowed(r.domain, r.key)
                THEN [poller EXCEPT ![p] = New("root", r.domain, r.key)]
                ELSE End(p)
           [] r.type = "enr" /\ name.kind = "enr" -> Yield(p, r.node, "end")
           [] OTHER -> Fail(p)
    /\ UNCHANGED <<zone, query, out, reported, failures>>

\* resolve_tree, up to the branch of the links.  Only the pump's own query
\* knows a sequence number.
LookupRoot(p) ==
    LET r == Record(poller[p].host, Apex) IN
    /\ poller[p].at = "root"
    /\ poller' =
         CASE r.type = "absent" -> End(p)
           [] r.type = "root" /\ verify(r, poller[p].key) ->
                IF ~IsTask(p) /\ SeenSequence # None /\ r.seq <= SeenSequence
                THEN End(p)
                ELSE Branch(p, "links", poller[p].host, {r.link}, "link")
           [] OTHER -> Fail(p)
    /\ UNCHANGED <<zone, query, out, reported, failures>>

\* An item came through the channel: pass it on, or stop at an error.
Receive(p) ==
    /\ poller[p].at \in Polling /\ poller[p].chan # <<>>
    /\ LET item == Head(poller[p].chan) IN
         poller' = IF item = Broken THEN [Fail(p) EXCEPT ![p].chan = <<>>]
                   ELSE [Yield(p, item, poller[p].at) EXCEPT ![p].chan = <<>>]
    /\ UNCHANGED <<zone, query, out, reported, failures>>

\* recv() returns None: the channel is empty and every sender is dropped.
Exhausted(p) == poller[p].chan = <<>> /\ Children(p) = {}

\* The end of a branch; after the links of a tree its nodes are resolved.
BranchEnds(p) ==
    /\ poller[p].at \in Polling /\ Exhausted(p)
    /\ poller' = IF poller[p].at = "links"
                 THEN LET host == poller[p].host IN
                      Branch(p, "enrs", host, {Record(host, Apex).enr}, "enr")
                 ELSE End(p)
    /\ UNCHANGED <<zone, query, out, reported, failures>>

\* Where a poller goes on after it has passed an item on.
Sent(p) == IF poller[p].then = "end" THEN End(p)
           ELSE [poller EXCEPT ![p].at = poller[p].then, ![p].item = None]

\* Defective variant of Send: gives up when the channel is full.
SendOrDrop(p) ==
    /\ IsTask(p) /\ poller[p].at = "send"
    /\ IF Hears(Parent(p)) /\ poller[Parent(p)].chan = <<>>
       THEN poller' = [c \in DOMAIN Sent(p) |->
              IF c = Parent(p) THEN [poller[c] EXCEPT !.chan = <<poller[p].item>>]
              ELSE Sent(p)[c]]
       ELSE poller' = Sent(p)
    /\ UNCHANGED <<zone, query, out, reported, failures>>

\* Defective variant of Send: waits even if nobody listens.
SendWaits(p) ==
    /\ IsTask(p) /\ poller[p].at = "send"
    /\ Hears(Parent(p)) /\ poller[Parent(p)].chan = <<>>
    /\ poller' = [c \in DOMAIN Sent(p) |->
         IF c = Parent(p) THEN [poller[c] EXCEPT !.chan = <<poller[p].item>>]
         ELSE Sent(p)[c]]
    /\ UNCHANGED <<zone, query, out, reported, failures>>

\* A task sends: waits for room, and does not care if nobody listens.
Send(p) ==
    /\ IsTask(p) /\ poller[p].at = "send"
    /\ IF Hears(Parent(p))
       THEN /\ poller[Parent(p)].chan = <<>>
            /\ poller' = [c \in DOMAIN Sent(p) |->
                 IF c = Parent(p) THEN [poller[c] EXCEPT !.chan = <<poller[p].item>>]
                 ELSE Sent(p)[c]]
       ELSE poller' = Sent(p)
    /\ UNCHANGED <<zone, query, out, reported, failures>>

-----------------------------------------------------------------------------
(* The pump.                                                                *)

\* A node without a TCP socket is skipped.
PumpNode ==
    LET item == poller[Top].item IN
    /\ poller[Top].at = "send" /\ item # Broken
    /\ poller' = Sent(Top)
    /\ IF item \in NoTcp THEN UNCHANGED <<out, reported>>
       ELSE /\ out = <<>> /\ out' = <<item>>
            /\ reported' = reported \cup {item}
    /\ UNCHANGED <<zone, query, failures>>

\* An error is passed on and ends the query.
PumpError ==
    /\ poller[Top].at = "send" /\ poller[Top].item = Broken
    /\ out = <<>> /\ out' = <<Broken>>
    /\ poller' = [poller EXCEPT ![Top].at = "over", ![Top].item = "error"]
    /\ UNCHANGED <<zone, query, reported, failures>>

\* MAX_RESOLUTION_DURATION: looked at after each item and each
\* MAX_SINGLE_RESOLUTION without one.
PumpExpires ==
    /\ poller[Top].at \in Polling \cup {"root"}
    /\ poller' = [poller EXCEPT ![Top].at = "over", ![Top].item = "expired"]
    /\ UNCHANGED <<zone, query, out, reported, failures>>

\* The next query starts at once.
PumpRestarts ==
    /\ poller[Top].at = "over" /\ query < MaxQueries
    /\ query' = query + 1
    /\ poller' = [p \in (DOMAIN poller \ {Top}) \cup {<<query + 1>>} |->
                    IF p = <<query + 1>> THEN New("root", Domain, Key) ELSE poller[p]]
    /\ reported' = {}
    /\ UNCHANGED <<zone, out, failures>>

\* The dialer takes what was found.
Dialer ==
    /\ out # <<>>
    /\ out' = <<>>
    /\ UNCHANGED <<zone, query, poller, reported, failures>>

-----------------------------------------------------------------------------
Poller(p) == \/ IsTask(p) /\ Lookup(p)
             \/ LookupRoot(p) \/ Receive(p) \/ BranchEnds(p) \/ Send(p)

Next ==
    \/ \E p \in DOMAIN poller : Poller(p) \/ LookupFails(p)
    \/ PumpNode \/ PumpError \/ PumpExpires \/ PumpRestarts \/ Dialer

Spec == Init /\ [][Next]_vars

\* Lookups return, tasks are polled and the dialer asks for more nodes.
Fairness ==
    /\ WF_vars(\E p \in DOMAIN poller : Poller(p))
    /\ WF_vars(PumpNode) /\ WF_vars(PumpError) /\ WF_vars(PumpRestarts) /\ WF_vars(Dialer)

FairSpec == Spec /\ Fairness

-----------------------------------------------------------------------------
(* What the tree of the domain holds, in terms of a zone z: the smallest    *)
(* sets that branches, and links to trees, do not lead out of.              *)

Names(z, host) == IF host \in DOMAIN z THEN DOMAIN z[host] ELSE {}

BranchesStay(z, host, names) ==
    \A h \in names : z[host][h].type = "branch" =>
        ToSet(z[host][h].children) \cap Names(z, host) \subseteq names

\* The names that branches lead to from a hash.
Below(z, host, hash) ==
    {h \in Names(z, host) :
        \A names \in SUBSET Names(z, host) :
            /\ hash \in Names(z, host) => hash \in names
            /\ BranchesStay(z, host, names)
            => h \in names}

Start == [host |-> Domain, key |-> Key]

Valid(z, tree) ==
    /\ Apex \in Names(z, tree.host)
    /\ z[tree.host][Apex].type = "root" /\ verify(z[tree.host][Apex], tree.key)

LinkTo(link) == [host |-> link.domain, key |-> link.key]

\* The trees that allowed links lead to, with the key they must be signed by.
Linked(z, tree) ==
    {LinkTo(z[tree.host][h]) : h \in
       {h \in Below(z, tree.host, z[tree.host][Apex].link) :
          /\ z[tree.host][h].type = "link"
          /\ Whitelist # None => <<z[tree.host][h].domain, z[tree.host][h].key>> \in
                                   {<<d, Whitelist[d]>> : d \in DOMAIN Whitelist}}}

AllLinked(z) ==
    {Start} \cup UNION {{LinkTo(z[d][h]) : h \in {h \in DOMAIN z[d] : z[d][h].type = "link"}}
                          : d \in DOMAIN z}

LinksStay(z, trees) == \A t \in trees : Valid(z, t) => Linked(z, t) \subseteq trees

Reached(z) ==
    {t \in AllLinked(z) :
        \A trees \in SUBSET AllLinked(z) :
            Start \in trees /\ LinksStay(z, trees) => t \in trees}

EnrNodes(z, tree) ==
    {z[tree.host][h].node : h \in
       {h \in Below(z, tree.host, z[tree.host][Apex].enr) : z[tree.host][h].type = "enr"}}

TreeNodes ==
    [z \in Zones |->
       (UNION {EnrNodes(z, t) : t \in {t \in Reached(z) : Valid(z, t)}}) \ NoTcp]

\* The root has the sequence number that the resolver was told of.
Seen == /\ SeenSequence # None /\ Valid(zone, Start)
        /\ zone[Domain][Apex].seq <= SeenSequence

-----------------------------------------------------------------------------
(* Properties.                                                              *)

(***************************************************************************)
(* The dialer is only offered nodes of the tree, or of trees that allowed  *)
(* links lead to and that their links' keys signed (lib.rs:68-78, 223-233, *)
(* 280-303), whatever tasks of earlier queries still run.                  *)
(***************************************************************************)
OnlyTreeNodes == reported \subseteq TreeNodes[zone]

(***************************************************************************)
(* A query that ends without an error has found every node ("Resolution of *)
(* tree at {} complete", lib.rs:390): no task's result is lost between the *)
(* channels, and a lookup that failed is not taken for the end of a branch *)
(* (lib.rs:262-348, 378-386).                                              *)
(***************************************************************************)
CompleteQuery ==
    poller[Top].at = "over" /\ poller[Top].item = "complete" =>
        reported = IF Seen THEN {} ELSE TreeNodes[zone]

(***************************************************************************)
(* Every query ends, and with it every task that it started, also those    *)
(* whose parent stopped listening (lib.rs:262-339, dns.rs:31-73).          *)
(***************************************************************************)
QueriesEnd == <>[](poller[Top].at = "over" /\ DOMAIN poller = {Top})

==============================================================================
