------------------------------- MODULE MCFleet -------------------------------
(***************************************************************************)
(* Fleets of up to three images: named by flag, by lists that repeat,      *)
(* profile, contradict and misspell, by manifests whose containers agree   *)
(* and disagree, and by bundles packed, wrapped, damaged and mixed.  In a  *)
(* batch a scan has one of four results, or fails; an image scanned alone  *)
(* has any set of eight findings, over three kinds of scan.                *)
(***************************************************************************)
EXTENDS FleetScan

F(id, eco, comp, status, vex, sev, fix, kev) ==
  [id |-> id, eco |-> eco, comp |-> comp, version |-> "1", status |-> status, vex |-> vex,
   sev |-> sev, fix |-> fix, kev |-> kev]

Findings8 ==
  {F("A", "os", "libc", "linked", "none", "HIGH", 1, FALSE),
   F("B", "os", "libc", "linked", "affected", "", 2, TRUE),
   F("A", "os", "curl", "reachable", "none", "MEDIUM", 0, FALSE),
   F("C", "os", "curl", "linked", "not_affected", "CRITICAL", 1, TRUE),
   F("D", "npm", "tar", "reachable", "none", "LOW", 1, FALSE),
   F("E", "npm", "tar", "linked", "none", "CRITICAL", 2, FALSE),
   F("F", "npm", "tar", "undetermined", "none", "", 1, FALSE),
   F("G", "os", "zlib", "not_present", "none", "HIGH", 1, TRUE)}

Eco(id, families, failed) == [id |-> id, families |-> families, components |-> 2, failed |-> failed]
Result(findings, npmFailed, unreadable, withheld, unfixed, kevRead) ==
  [findings |-> findings,
   ecosystems |-> {Eco("os", {"Debian"}, FALSE), Eco("npm", {"npm"}, npmFailed)},
   unreadable |-> unreadable, withheld |-> withheld, unfixed |-> unfixed, corrections |-> 0,
   hubs |-> {[failed |-> ~kevRead]}, feeds |-> {[failed |-> FALSE, matched |-> 1]},
   triage |-> [on |-> TRUE, kevRead |-> kevRead]]

OfOs == {f \in Findings8 : f.eco = "os"}
MCOutcomes ==
  [batch \in BOOLEAN |->
     IF batch
     THEN {Result({}, FALSE, 0, 0, 0, TRUE),
           Result({f \in Findings8 : f.id \in {"A", "F"}}, FALSE, 0, 0, 0, TRUE),
           Result({f \in Findings8 : f.id \in {"C", "D"}}, FALSE, 0, 1, 0, TRUE),
           Result({f \in OfOs : f.id = "B"}, TRUE, 0, 0, 0, TRUE)}
     ELSE {Result(S, FALSE, 0, w, 1 - w, w = 1) : S \in SUBSET Findings8, w \in 0..1}
          \cup {Result(S, FALSE, 0, 0, 0, k) : S \in {{}, OfOs, {f \in Findings8 : ~f.kev}}, k \in BOOLEAN}
          \cup {Result(S, TRUE, 0, w, 0, TRUE) : S \in SUBSET OfOs, w \in 0..1}
          \cup {Result({}, FALSE, 2, w, 0, TRUE) : w \in 0..1}
          \cup {Result({F("Z", "", "", "undetermined", "none", "", 0, FALSE)}, FALSE, 0, 0, 0, TRUE),
                Result({F("Z", "os", "libc", "undetermined", "not_affected", "", 0, FALSE)}, FALSE, 0, 0, 0, TRUE)}]
-----------------------------------------------------------------------------
Field(key, words) == [key |-> key, words |-> words]
Image(name, fields) == [kind |-> "image", name |-> name, fields |-> fields]
ProfileLine(name, fields) == [kind |-> "profile", name |-> name, fields |-> fields]
Lines(lines) == [from |-> "list", lines |-> lines, docs |-> <<>>]
Docs(docs) == [from |-> "manifest", lines |-> <<>>, docs |-> docs]

Svc == ProfileLine("svc", <<Field("roots", <<"/svc">>), Field("entrypoint", <<"/bin/svc">>), Field("exec-policy", <<"assume-none">>)>>)
AsSvc == Field("profile", <<"svc">>)
Lists == {
  Lines(<<Image("a", <<>>), Image("b", <<>>), Image("a", <<>>)>>),
  Lines(<<Image("a", <<Field("roots", <<"/x">>)>>), Image("b", <<>>), Image("c", <<Field("cmd", <<>>)>>)>>),
  Lines(<<Image("a", <<AsSvc, Field("roots", <<"/y">>)>>), Svc, Image("b", <<AsSvc, Field("cmd", <<"run">>)>>)>>),
  Lines(<<Svc, Image("a", <<AsSvc>>), Image("b", <<Field("roots", <<"/x">>), Field("roots", <<"/y">>)>>)>>),
  Lines(<<Image("a", <<Field("roots", <<"/x">>)>>), Image("a", <<Field("roots", <<"/y">>)>>)>>),
  Lines(<<Image("a", <<>>), Image("a", <<Field("roots", <<"/y">>)>>)>>),
  Lines(<<Image("a", <<AsSvc>>)>>),
  Lines(<<Svc, Svc, Image("a", <<>>)>>),
  Lines(<<ProfileLine("idle", <<>>), Image("a", <<>>)>>),
  Lines(<<ProfileLine("nested", <<AsSvc>>), Image("a", <<>>)>>),
  Lines(<<Image("a", <<Field("entrypoint", <<>>)>>)>>),
  Lines(<<Image("a", <<Field("exec-policy", BadWords)>>)>>),
  Lines(<<Svc>>)}

Container(image, command, args, setsPath) == [image |-> image, command |-> command, args |-> args, setsPath |-> setsPath]
Doc(kind, containers) == [kind |-> kind, containers |-> containers, items |-> <<>>, names |-> <<>>]
ListDoc(items) == [kind |-> "List", containers |-> <<>>, items |-> items, names |-> <<>>]
HaulerDoc(kind, names) == [kind |-> kind, containers |-> <<>>, items |-> <<>>, names |-> names]
Run == <<"/bin/run">>
Manifests == {
  Docs(<<Doc("Pod", <<Container("a", Unset, Unset, FALSE), Container("b", Run, Unset, TRUE)>>), Doc("Service", <<>>)>>),
  Docs(<<Doc("Job", <<Container("a", Run, <<"x">>, FALSE)>>), Doc("Pod", <<Container("a", Run, <<"x">>, FALSE)>>)>>),
  Docs(<<Doc("Job", <<Container("a", Run, <<"x">>, FALSE)>>), Doc("Pod", <<Container("a", Run, Unset, FALSE)>>)>>),
  Docs(<<Doc("Job", <<Container("a", Unset, <<>>, FALSE)>>), Doc("Pod", <<Container("a", Unset, Unset, FALSE)>>)>>),
  Docs(<<ListDoc(<<Doc("Pod", <<Container("b", Unset, <<"x">>, FALSE)>>), Doc("Job", <<Container("c", <<>>, Unset, TRUE)>>)>>)>>),
  Docs(<<Doc("Pod", <<Container("a", Run, Unset, FALSE)>>), Doc("Widget", <<Container("b", Run, Unset, FALSE)>>)>>),
  Docs(<<Doc("Pod", <<Container("a", <<"relative">>, Unset, TRUE)>>)>>),
  Docs(<<Doc("Pod", <<Container("a", BadWords, Unset, FALSE)>>)>>),
  Docs(<<Doc("Pod", <<>>)>>),
  Docs(<<HaulerDoc("Images", <<"a", "", "b", "a">>), HaulerDoc("Charts", <<"chart">>), HaulerDoc("Images", <<"b">>)>>),
  Docs(<<HaulerDoc("Images", <<"c">>), Doc("Pod", <<Container("a", Run, Unset, FALSE)>>)>>),
  Docs(<<HaulerDoc("Files", <<"f">>)>>)}
-----------------------------------------------------------------------------
Item(name, original, kind, media, config) ==
  [name |-> name, original |-> original, containerd |-> "", kind |-> kind, media |-> media, config |-> config]
Store == <<Item("lib/a", "reg/a", "image", "oci manifest", "image"), Item("", "", "", "oci manifest", "image"),
           Item("chart", "", "", "oci manifest", "chart"), Item("lib/b", "a|b", "", "docker list", ""),
           Item("sig", "", "sigs", "oci manifest", ""), Item("odd", "", "", "oci manifest", "unreadable")>>
Bundle(packed, unpacks, layouts, readable, index) ==
  [packed |-> packed, unpacks |-> unpacks, layouts |-> layouts, readable |-> readable, index |-> index]
Bundles ==
  {Bundle(p, TRUE, l, TRUE, Store) : p \in BOOLEAN, l \in {{Top}, {"sub"}, {"sub", "other"}, {}}}
  \cup {Bundle(TRUE, FALSE, {Top}, TRUE, Store), Bundle(TRUE, TRUE, {Top}, FALSE, Store),
        Bundle(TRUE, TRUE, {Top}, TRUE, <<Item("chart", "", "", "oci manifest", "chart")>>),
        Bundle(TRUE, TRUE, {Top}, TRUE, <<Item("lib/a", "reg/a", "", "docker manifest", ""), Item("lib2/a", "reg/a", "", "oci index", "")>>)}
-----------------------------------------------------------------------------
GateOff == [on |-> FALSE, rank |-> 0, classes |-> {}]
Gate(label, classes) == [on |-> TRUE, rank |-> IF label = "ANY" THEN AnyRank ELSE Rank(label), classes |-> classes]
Gates == {GateOff, Gate("HIGH", {"affected"}), Gate("ANY", {"undetermined", "cleared"}), Gate("LOW", {"affected", "vexed"})}

Plainly == [k \in Keys |-> Unset]
Started == [Plainly EXCEPT !["entrypoint"] = <<"/sbin/flag">>, !["from"] = "--entrypoint", !["roots"] = <<"/r">>]
Invocation(images, list, bundle, options, valid, gate, vexOut, inventory) ==
  [images |-> images, list |-> list, bundle |-> bundle, options |-> options, valid |-> valid,
   gate |-> gate, vexOut |-> vexOut, inventory |-> inventory]
MCInvocations ==
  {Invocation(im, l, NoBundle, o, TRUE, GateOff, FALSE, FALSE) :
          im \in {<<>>, <<"b">>}, l \in Lists \cup Manifests, o \in {Plainly, Started}}
  \cup {Invocation(<<>>, NoList, b, Plainly, v, GateOff, FALSE, n) : b \in Bundles, v \in BOOLEAN, n \in BOOLEAN}
  \cup {Invocation(<<"a", "b", "a">>, NoList, NoBundle, Plainly, TRUE, g, x, FALSE) : g \in Gates, x \in BOOLEAN}
  \cup {Invocation(im, NoList, NoBundle, Plainly, v, g, TRUE, n) :
          im \in {<<"a">>}, v \in BOOLEAN, g \in Gates, n \in BOOLEAN}
=============================================================================
