------------------------------ MODULE MCDnsDisc ------------------------------
(***************************************************************************)
(* DnsDisc for small zones.  The tree of d1 links to d2, whose key kb is   *)
(* whitelisted, and has two nodes, one without a TCP socket; d2 has one.   *)
(* The variants forbid, break or misplace a record.                        *)
(***************************************************************************)
EXTENDS DnsDisc

Root(link, enr, signer) ==
    [type |-> "root", link |-> link, enr |-> enr, seq |-> 2, signer |-> signer]
BranchOf(children) == [type |-> "branch", children |-> children]
Link(domain, key) == [type |-> "link", domain |-> domain, key |-> key]
Enr(node) == [type |-> "enr", node |-> node]

MCHashes == {"", "l", "l1", "l2", "e", "e1", "e2", "e3"}

Tree1 == ("" :> Root("l", "e", "ka")) @@ ("l" :> BranchOf(<<"l1", "l2">>))
           @@ ("l1" :> Link("d2", "kb")) @@ ("e" :> BranchOf(<<"e1", "e2">>))
           @@ ("e1" :> Enr("n1")) @@ ("e2" :> Enr("n2"))
Tree2(signer) == ("" :> Root("l", "e", signer)) @@ ("e" :> Enr("n3"))

Plain == ("d1" :> Tree1) @@ ("d2" :> Tree2("kb"))

MCZones == {
    Plain,
    ("d1" :> Tree1) @@ ("d2" :> Tree2("kc")),                            \* wrong signer
    [Plain EXCEPT !["d1"]["l1"] = Link("d2", "kc"), !["d2"] = Tree2("kc")],  \* forbidden
    [Plain EXCEPT !["d1"]["e1"] = Link("d2", "kb")],                     \* misplaced
    [Plain EXCEPT !["d2"] = "" :> Enr("n3")],                            \* not a root
    [Plain EXCEPT !["d1"]["e1"] = [type |-> "spf"]],                     \* not a record
    [Plain EXCEPT !["d1"][""].seq = 1],                                  \* seen before
    "d1" :> (("" :> Root("l", "e", "ka")) @@ ("e" :> Enr("n1")) @@ ("l" :> Enr("n2")))}

MCWhitelist == "d2" :> "kb"

\* A branch of more hashes than one character-string holds.
MCLongZones ==
    {"d1" :> (("" :> Root("l", "e", "ka")) @@ ("e" :> BranchOf(<<"e1", "e2", "e3">>))
                @@ ("e1" :> Enr("n1")) @@ ("e2" :> Enr("n3")) @@ ("e3" :> Enr("n4")))}

==============================================================================
