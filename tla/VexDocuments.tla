---------------------------- MODULE VexDocuments ----------------------------
(***************************************************************************)
(* The documents of a VEX hub: how a reader matches a finding against the  *)
(* statements of one (internal/vex, internal/csaf) and how a writer adds   *)
(* claims to one without disturbing what it says (internal/vexpr).         *)
(*                                                                         *)
(* A component purl is a record: typ, ns, name and ver ("" for none).  A   *)
(* statement is a record: ids (what a reader finds it by: its name, or the *)
(* @id if it has none, and the aliases), also (what only the writer joins  *)
(* it on: the @id beside a name), products (an artifact and the components *)
(* it is scoped to, none for the whole artifact), status, why and ts (0    *)
(* for undated: the document's own date stands for it).  A document is one *)
(* of                                                                      *)
(*   NoDoc, Unreadable                                                     *)
(*   an OpenVEX document: its ts, and statements in order                  *)
(*   a CSAF advisory: its tracking id, its version (0 when not a number),  *)
(*   ts (the release date), tree (the purl of every product id it          *)
(*   defines), relations, and vulns, each with names, ts (0 for undated,   *)
(*   as above), status lists of product ids, and flags.                    *)
(* Letter case of ids is left out: every comparison of them ignores it.    *)
(***************************************************************************)
EXTENDS Integers, Sequences, SequencesExt, Selections

CONSTANT NoPurl   \* a product of a CSAF tree identified by something else

NoDoc == [kind |-> "none"]
Unreadable == [kind |-> "unreadable"]
OpenVEX(ts, statements) == [kind |-> "openvex", ts |-> ts, statements |-> statements]
Statement(ids, product, subs, status, why, ts) ==
  [ids |-> ids, also |-> {}, products |-> {[id |-> product, subs |-> subs]}, status |-> status, why |-> why, ts |-> ts]
Exculpatory(status) == status \in {"not_affected", "fixed"}

\* What is found on disk.  An id that the writer derives from a purl is made by
\* nobody else (the artifact, the component and the pair of them, see below).
IsList(s) == s \in Seq(ToSet(s))
IsFlag(f) == f = [label |-> f.label, pids |-> f.pids]
IsVuln(v) ==
  /\ v = [names |-> v.names, ts |-> v.ts, lists |-> v.lists, flags |-> v.flags]
  /\ v.lists = [k \in {"not_affected", "affected", "fixed", "under_investigation"} |-> v.lists[k]]
  /\ \A k \in DOMAIN v.lists : IsList(v.lists[k])
  /\ IsList(v.flags) /\ \A i \in DOMAIN v.flags : IsFlag(v.flags[i])
IsAdvisory(d) ==
  /\ d = [kind |-> "csaf", id |-> d.id, version |-> d.version, ts |-> d.ts, tree |-> d.tree,
          relations |-> d.relations, vulns |-> d.vulns]
  /\ IsList(d.vulns) /\ \A i \in DOMAIN d.vulns : IsVuln(d.vulns[i])
IsDocument(d) ==
  \/ d \in {NoDoc, Unreadable}
  \/ d.kind = "openvex" /\ d = OpenVEX(d.ts, d.statements) /\ IsList(d.statements)
  \/ d.kind = "csaf" /\ IsAdvisory(d)
WritersIds(d) ==
  /\ \A pid \in DOMAIN d.tree :
       /\ pid[1] = "pair" => d.tree[pid] = NoPurl
       /\ pid[1] \in {"artifact", "component"} => d.tree[pid] = pid[2]
  /\ \A r \in d.relations :
       /\ r.id[1] \notin {"artifact", "component"}
       /\ r.id[1] = "pair" => r.component = <<"component", r.id[2]>> /\ r.container = <<"artifact", r.id[3]>>
-----------------------------------------------------------------------------
(* CSAF: every product id is resolved through the tree.                    *)
StatusOrder == <<"not_affected", "affected", "fixed", "under_investigation">>
MaxRelationshipDepth == 8

Relation(doc, pid) == {r \in doc.relations : r.id = pid}
\* Resolve follows a container that is itself a relationship down to the
\* artifact; a chain of MaxRelationshipDepth hops, or a cycle, resolves to nothing.
TheRelation(doc, pid) == CHOOSE r \in Relation(doc, pid) : TRUE
Hop(doc, pid) == IF Relation(doc, pid) = {} THEN pid ELSE TheRelation(doc, pid).container
ContainerAfter(doc, pid) ==
  LET at[n \in 0..MaxRelationshipDepth] == IF n = 0 THEN pid ELSE Hop(doc, at[n - 1])
  IN at[MaxRelationshipDepth]
Purl(doc, pid) == IF pid \in DOMAIN doc.tree THEN {doc.tree[pid]} \ {NoPurl} ELSE {}

\* The artifact and the component a product id stands for: none when the
\* tree does not define them or the artifact has no purl.  A component
\* without a purl leaves the artifact alone: the whole of it.
Resolved(doc, pid) ==
  IF Relation(doc, pid) = {} THEN {[id |-> p, subs |-> {}] : p \in Purl(doc, pid)}
  ELSE LET r == TheRelation(doc, pid)
           bottom == ContainerAfter(doc, r.container)
       IN IF r.component \notin DOMAIN doc.tree \/ Relation(doc, bottom) # {} THEN {}
          ELSE {[id |-> p, subs |-> Purl(doc, r.component)] : p \in Purl(doc, bottom)}

\* A flag of no product ids is about all of them; the first that applies is
\* the reason.
AppliesTo(flag, pid) == flag.pids = {} \/ pid \in flag.pids
FlagFor(v, pid) == LET apply == {i \in DOMAIN v.flags : AppliesTo(v.flags[i], pid)}
                   IN IF apply = {} THEN "" ELSE v.flags[Min(apply)].label

\* csafStatements: one statement for each reason given in a status list.
StatementsOf(doc, v, status) ==
  LET pids == v.lists[status]
      reason(i) == FlagFor(v, pids[i])
      resolved == {i \in DOMAIN pids : Resolved(doc, pids[i]) # {}}
      firsts == InOrder(Len(pids), {i \in resolved : ~ \E j \in resolved : j < i /\ reason(j) = reason(i)})
  IN [n \in DOMAIN firsts |->
        [ids |-> v.names, status |-> status, why |-> reason(firsts[n]),
         ts |-> IF v.ts = 0 THEN doc.ts ELSE v.ts,
         products |-> UNION {Resolved(doc, pids[i]) : i \in {i \in resolved : reason(i) = reason(firsts[n])}}]]

\* parseOpenVEX: a statement without a date has its document's.
AsRead(s, ts) ==
  [ids |-> s.ids, status |-> s.status, why |-> s.why, ts |-> IF s.ts = 0 THEN ts ELSE s.ts, products |-> s.products]

\* ParseDoc: both serialisations become statements.
ReadStatements(doc) ==
  IF doc.kind = "openvex"
  THEN LET S == doc.statements
       IN Select([i \in DOMAIN S |-> AsRead(S[i], doc.ts)], {i \in DOMAIN S : S[i].ids # {} /\ S[i].products # {}})
  ELSE FlattenSeq([i \in DOMAIN doc.vulns |->
         IF doc.vulns[i].names = {} THEN <<>>
         ELSE FlattenSeq([k \in DOMAIN StatusOrder |-> StatementsOf(doc, doc.vulns[i], StatusOrder[k])])])
-----------------------------------------------------------------------------
(* Match: which statement speaks to a finding.                             *)
OSTypes == {"deb", "rpm", "apk"}
SamePackage(want, have) ==
  /\ want.typ = have.typ /\ want.name = have.name
  /\ want.typ \in OSTypes \/ want.ns = have.ns
  /\ want.typ \notin OSTypes /\ want.ver # "" => want.ver = have.ver
Speaks(p, product, sub) ==
  p.id = product /\ (p.subs = {} \/ (sub # NoPurl /\ \E s \in p.subs : SamePackage(s, sub)))
Scoped(s, product, sub) == \E p \in s.products : Speaks(p, product, sub) /\ p.subs # {}

\* The best of them: scoped before product-wide, then the newest, then the
\* first in the document.
Better(S, i, j, product, sub) ==
  LET a == Scoped(S[i], product, sub)
      b == Scoped(S[j], product, sub)
  IN IF a # b THEN a ELSE S[i].ts > S[j].ts \/ (S[i].ts = S[j].ts /\ i < j)
Match(doc, product, ids, sub) ==
  LET S == ReadStatements(doc)
      speaking == {i \in DOMAIN S : S[i].ids \cap ids # {} /\ \E p \in S[i].products : Speaks(p, product, sub)}
  IN {S[i] : i \in {i \in speaking : \A j \in speaking \ {i} : Better(S, i, j, product, sub)}}
-----------------------------------------------------------------------------
(* Writing OpenVEX.  A claim is a record: vuln, ids, product, sub, why,    *)
(* ts and covered.  A claim is redundant when a statement shares an id     *)
(* with it, its @id among them, and covers its component by name, or the   *)
(* whole product.  A merge that adds anything moves the document's date.   *)
CoversComponent(s, c) == \E p \in s.products : p.id = c.product /\ (p.subs = {} \/ c.sub \in p.subs)
StatementCovers(s, c) == (s.ids \cup s.also) \cap c.ids # {} /\ CoversComponent(s, c)
ClaimStatement(c) == Statement(c.ids, c.product, {c.sub}, "not_affected", c.why, c.ts)

\* Claims are added one at a time: one may make the next redundant.
AddStatement(S, c) == IF \E i \in DOMAIN S : StatementCovers(S[i], c) THEN S ELSE Append(S, ClaimStatement(c))
MergeClaims(statements, claims) ==
  LET merged[n \in 0..Len(claims)] == IF n = 0 THEN statements ELSE AddStatement(merged[n - 1], claims[n])
  IN merged[Len(claims)]

\* The outcome of a merge: the document to write, "nothing" to add, or a
\* refusal: "declined" or "unreadable".
Wrote(doc) == [outcome |-> "wrote", doc |-> doc]
Refusal(why) == [outcome |-> why, doc |-> NoDoc]
MergeOpenVEX(doc, claims, ts) ==
  IF doc.kind = "csaf" THEN Refusal("declined")
  ELSE IF doc = Unreadable THEN Refusal("unreadable")
  ELSE LET before == IF doc = NoDoc THEN <<>> ELSE doc.statements
           after == MergeClaims(before, claims)
       IN IF after = before THEN Refusal("nothing") ELSE Wrote(OpenVEX(ts, after))
-----------------------------------------------------------------------------
(* Writing CSAF.  A product id is the purl it stands for, and a component  *)
(* inside an artifact is the pair.                                         *)
NewAdvisory(id, ts) == [kind |-> "csaf", id |-> id, version |-> 1, ts |-> ts, tree |-> <<>>, relations |-> {}, vulns |-> <<>>]
ArtifactId(c) == <<"artifact", c.product>>
ComponentId(c) == <<"component", c.sub>>
PairId(c) == <<"pair", c.sub, c.product>>
VulnCovers(v, pid) == \E k \in DOMAIN v.lists : pid \in ToSet(v.lists[k])
FindVuln(doc, c) == LET known == {i \in DOMAIN doc.vulns : doc.vulns[i].names \cap c.ids # {}}
                    IN IF known = {} THEN 0 ELSE Min(known)
NewVuln(c) == [names |-> c.ids, ts |-> c.ts, lists |-> [k \in ToSet(StatusOrder) |-> <<>>], flags |-> <<>>]

\* Fault: an unscoped flag is listed the product, which narrows it.
AddFlagNarrowing(flags, label, pid) ==
  LET i == SelectInSeq(flags, LAMBDA f : f.label = label) IN
  IF i = 0 THEN Append(flags, [label |-> label, pids |-> {pid}])
  ELSE [flags EXCEPT ![i].pids = @ \cup {pid}]

\* addFlag: flags are shared by label, and one about everything is left so.
AddFlag(flags, label, pid) ==
  LET same == {i \in DOMAIN flags : flags[i].label = label} IN
  IF label = "" THEN flags
  ELSE IF same = {} THEN Append(flags, [label |-> label, pids |-> {pid}])
  ELSE IF flags[Min(same)].pids = {} THEN flags ELSE [flags EXCEPT ![Min(same)].pids = @ \cup {pid}]

\* The tree and the relations keep what they have under an id.
Defining(tree, pid, purl) == [k \in DOMAIN tree \cup {pid} |-> IF k \in DOMAIN tree THEN tree[k] ELSE purl]
Relating(relations, c) ==
  IF \E r \in relations : r.id = PairId(c) THEN relations
  ELSE relations \cup {[id |-> PairId(c), component |-> ComponentId(c), container |-> ArtifactId(c)]}
ListedIn(v, c) == [v EXCEPT !.lists["not_affected"] = Append(@, PairId(c)), !.flags = AddFlag(@, c.why, PairId(c))]

\* Fault: a component new to an advisory that has the vulnerability already
\* is listed, and its relationship to the artifact never written.
AddClaimUnrelated(doc, c) ==
  LET found == FindVuln(doc, c)
      at == IF found = 0 THEN Len(doc.vulns) + 1 ELSE found
      vulns == IF found = 0 THEN Append(doc.vulns, NewVuln(c)) ELSE doc.vulns
  IN IF found # 0 /\ (VulnCovers(doc.vulns[found], PairId(c)) \/ VulnCovers(doc.vulns[found], ArtifactId(c)))
     THEN doc
     ELSE [doc EXCEPT
            !.tree = Defining(Defining(Defining(@, ArtifactId(c), c.product), ComponentId(c), c.sub), PairId(c), NoPurl),
            !.vulns = [vulns EXCEPT ![at] = ListedIn(@, c)]]

AddClaim(doc, c) ==
  LET found == FindVuln(doc, c)
      at == IF found = 0 THEN Len(doc.vulns) + 1 ELSE found
      vulns == IF found = 0 THEN Append(doc.vulns, NewVuln(c)) ELSE doc.vulns
  IN IF found # 0 /\ (VulnCovers(doc.vulns[found], PairId(c)) \/ VulnCovers(doc.vulns[found], ArtifactId(c)))
     THEN doc
     ELSE [doc EXCEPT
            !.tree = Defining(Defining(Defining(@, ArtifactId(c), c.product), ComponentId(c), c.sub), PairId(c), NoPurl),
            !.relations = Relating(@, c),
            !.vulns = [vulns EXCEPT ![at] = ListedIn(@, c)]]

AddClaims(doc, claims) ==
  LET added[n \in 0..Len(claims)] == IF n = 0 THEN doc ELSE AddClaim(added[n - 1], claims[n])
  IN added[Len(claims)]

\* An advisory is amended only under the tracking id this writer derives
\* from the product, and only when its version can be advanced.
Revised(doc, ts) == [doc EXCEPT !.version = @ + 1, !.ts = ts]
MergeCSAF(doc, id, claims, ts) ==
  LET own == doc.kind = "csaf" /\ doc.id = id
      before == IF own THEN doc ELSE NewAdvisory(id, ts)
      after == AddClaims(before, claims)
  IN IF doc = Unreadable THEN Refusal("unreadable")
     ELSE IF doc # NoDoc /\ ~own THEN Refusal("declined")
     ELSE IF after = before THEN Refusal("nothing")
     ELSE IF ~own THEN Wrote(after)
     ELSE IF doc.version = 0 THEN Refusal("declined")
     ELSE Wrote(Revised(after, ts))
=============================================================================
