------------------------------- MODULE MCVex -------------------------------
(***************************************************************************)
(* A hub for an image and a Go program, and a third artifact nothing can   *)
(* file.  Each document starts absent, published by a vendor in either     *)
(* format, written by an earlier run, or unreadable.                       *)
(***************************************************************************)
EXTENDS VexProposals

Libc(ver) == [typ |-> "deb", ns |-> "debian", name |-> "libc", ver |-> ver]
Net(ver) == [typ |-> "golang", ns |-> "golang.org/x", name |-> "net", ver |-> ver]

MCLocations == {"img", "mod", "agg"}
MCProducts == <<"image", "module", "unfilable">>
MCHome == [p \in ToSet(MCProducts) |-> CASE p = "image" -> "img" [] p = "module" -> "mod" [] OTHER -> NoHome]

(* Findings: a library of the image; two of the program's module, one      *)
(* known by two ids; a bundle whose CVE the reader does not look it up by; *)
(* and the vulnerable version the program links as well.                   *)
Finding(product, sub, ids, joins, ruledOut, why) ==
  [product |-> product, sub |-> sub, vuln |-> Head(ids), ids |-> ToSet(ids), joins |-> joins,
   ruledOut |-> ruledOut, why |-> why]
Library == Finding("image", Libc("1"), <<"CVE-1", "DSA-1">>, {"CVE-1", "DSA-1"}, TRUE, "not_present")
Bundle == Finding("image", Libc("1"), <<"CVE-2", "RHSA-2">>, {"RHSA-2"}, TRUE, "not_in_path")
Linked == Finding("module", Net("1"), <<"CVE-2", "GHSA-2">>, {"CVE-2", "GHSA-2"}, TRUE, "not_in_path")
Other == Finding("module", Net("1"), <<"CVE-1">>, {"CVE-1"}, TRUE, "not_in_path")
Affected == Finding("module", Net("2"), <<"CVE-2", "GHSA-2">>, {"CVE-2", "GHSA-2"}, FALSE, "")
Nowhere == Finding("unfilable", Net("1"), <<"CVE-1">>, {"CVE-1"}, TRUE, "not_in_path")
Nameless == Finding("image", NoPurl, <<"CVE-1">>, {"CVE-1"}, TRUE, "not_present")
MCScans == {{Library, Bundle, Linked}, {Library, Linked, Affected, Other, Nowhere}, {Affected, Nameless}}

(* Documents of the image.                                                 *)
MCHubTime == 2
SaysAffected(product, subs, ids) == Statement(ids, product, subs, "affected", "", 2)
VendorExact == OpenVEX(1, <<SaysAffected("image", {Libc("1")}, {"CVE-1"}), Statement({"CVE-2"}, "image", {}, "fixed", "", 0)>>)
\* The second statement has the @id of one vulnerability and the name of another.
VendorLoose ==
  OpenVEX(1, <<SaysAffected("image", {Libc("2")}, {"CVE-1"}),
               [SaysAffected("image", {}, {"CVE-9"}) EXCEPT !.also = {"RHSA-2"}]>>)
\* What the vendor once cleared without a date it has since called affected.
VendorTurned ==
  OpenVEX(1, <<Statement({"CVE-1"}, "image", {Libc("1")}, "not_affected", "not_present", 0),
               SaysAffected("image", {Libc("1")}, {"CVE-1"})>>)

Pid(name) == <<"published", name>>
Lists(status, pids) == [k \in ToSet(StatusOrder) |-> IF k = status THEN pids ELSE <<>>]
Advisory(id, version, vulns) ==
  [kind |-> "csaf", id |-> id, version |-> version, ts |-> 1, vulns |-> vulns,
   tree |-> (Pid("image") :> "image") @@ (Pid("libc") :> Libc("9")) @@ [n \in {Pid("zlib"), Pid("deep"), Pid("box")} |-> NoPurl],
   relations |-> {[id |-> Pid("box"), component |-> Pid("zlib"), container |-> Pid("image")],
                  [id |-> Pid("deep"), component |-> Pid("libc"), container |-> Pid("box")]}]
\* A library nested two deep and an unscoped reason; an undated entry.
Nested(status) == [names |-> {"CVE-1"}, ts |-> 0, lists |-> Lists(status, <<Pid("deep")>>),
                   flags |-> <<[label |-> "not_present", pids |-> {}]>>]
VendorAdvisory == Advisory("vendor", 3, <<Nested("affected")>>)
OwnAdvisory(version) == Advisory("image", version, <<Nested("not_affected"),
                          [names |-> {"CVE-2"}, ts |-> 0, lists |-> Lists("not_affected", <<Pid("deep")>>),
                           flags |-> <<[label |-> "not_in_path", pids |-> {Pid("deep")}]>>]>>)

OwnTurned == Advisory("image", 1, <<Nested("not_affected"), [Nested("affected") EXCEPT !.ts = 2]>>)

ImageDocs == {NoDoc, VendorExact, VendorLoose, VendorTurned, VendorAdvisory, OwnAdvisory(1), OwnAdvisory(0),
              OwnTurned, Unreadable}
ModuleDocs == {NoDoc, OpenVEX(1, <<SaysAffected("module", {}, {"GHSA-2"})>>)}
Merged0 == OpenVEX(1, <<SaysAffected("module", {Net("1")}, {"CVE-1"})>>)
Entry(p, l) == [product |-> p, loc |-> l]
MCHubs ==
  {[index |-> <<Entry("elsewhere", Outside)>> \o i \o m,
    disk |-> [l \in MCLocations |-> CASE l = "img" -> d [] l = "mod" -> e [] OTHER -> a]]
   : i \in {<<Entry("image", "img")>>}, m \in {<<Entry("module", "mod")>>}, d \in ImageDocs, e \in ModuleDocs \ {NoDoc}, a \in {Merged0}}
  \cup {[index |-> <<>>, disk |-> [l \in MCLocations |-> NoDoc]]}
  \cup {[index |-> <<Entry("image", "img"), Entry("module", Outside)>>,
         disk |-> [l \in MCLocations |-> IF l = "img" THEN VendorExact ELSE NoDoc]]}
  \cup {[index |-> <<Entry("image", "img")>>, disk |-> [l \in MCLocations |-> IF l = "agg" THEN Merged0 ELSE NoDoc]]}

Setting(format, aggregates, hub) == [format |-> format, aggregates |-> aggregates, hub |-> hub]
MCSettings == {Setting("openvex", <<"agg">>, TRUE), Setting("openvex", <<>>, TRUE), Setting("csaf", <<>>, TRUE),
               Setting("openvex", <<"agg">>, FALSE), Setting("csaf", <<>>, FALSE)}
MCPublished == {SaysAffected("module", {Net("1")}, {"CVE-1"}), SaysAffected("image", {}, {"CVE-1"})}
=============================================================================
