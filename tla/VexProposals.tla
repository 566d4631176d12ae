---------------------------- MODULE VexProposals ----------------------------
(***************************************************************************)
(* Runs of the program that read a VEX hub and write the findings they     *)
(* rule out back into it (--vexhub, --vex-out): vexpr_cli.go,              *)
(* internal/vexpr, internal/vex/hub.go, internal/analyze/vexhub.go.        *)
(* The output directory is a clone of the hub: what a run writes, the next *)
(* one reads.  A run may stop between two writes or in the middle of one,  *)
(* a document may fail to be fetched, and the hub's own publisher may add  *)
(* a statement between the scan and the proposal.                          *)
(*                                                                         *)
(* A finding is a record: product ("" when unknown), sub (NoPurl when      *)
(* unknown), vuln and ids (every id of its advisory), joins (the ids a     *)
(* reader looks it up by: a bundle's CVEs are not among them), ruledOut    *)
(* and why.                                                                *)
(***************************************************************************)
EXTENDS VexDocuments, FiniteSets

CONSTANTS
  Locations,     \* the paths documents live at
  Products,      \* the artifacts, in the order they are proposed
  Home,          \* where each is filed by default; NoHome if it cannot be
  NoHome, Outside, BadIndex,
  Scans,         \* the findings a scan may have
  Hubs,          \* the states of the directory before the first run
  Settings,      \* format, aggregates (paths, in order), hub (given to the first run)
  Published,     \* statements the hub's publisher may add
  HubTime,       \* when the hub was last published before the first run
  MaxRuns

IsIndex(ix) ==
  \/ ix = BadIndex
  \/ IsList(ix) /\ \A i \in DOMAIN ix : ix[i] = [product |-> ix[i].product, loc |-> ix[i].loc]
                                       /\ ix[i].loc \in Locations \cup {Outside}

\* No document is filed under two products.
OneProductEach(ix) ==
  ix # BadIndex =>
    \A i \in DOMAIN ix : ix[i].loc \in Locations =>
      /\ \A j \in DOMAIN ix : ix[j].loc = ix[i].loc => ix[j].product = ix[i].product
      /\ \A p \in ToSet(Products) : Home[p] = ix[i].loc => ix[i].product = p

\* Each artifact is proposed once and has a home of its own; a hub files each
\* document under one product, and an advisory of a product of ours is ours.
ASSUME HubAssumption ==
  /\ IsList(Products) /\ \A i, j \in DOMAIN Products : Products[i] = Products[j] => i = j
  /\ "index.json" \notin Locations /\ {NoHome, Outside} \cap Locations = {} /\ BadIndex # <<>>
  /\ Home \in [ToSet(Products) -> Locations \cup {NoHome}]
  /\ \A p, q \in ToSet(Products) : Home[p] = Home[q] => p = q \/ Home[p] = NoHome
  /\ \A F \in Scans : IsFiniteSet(F)
  /\ \A s \in Settings : s.aggregates \in Seq(Locations)
  /\ \A h \in Hubs :
       /\ IsIndex(h.index) /\ OneProductEach(h.index)
       /\ h.disk = [l \in Locations |-> h.disk[l]]
       /\ \A l \in Locations :
            /\ IsDocument(h.disk[l])
            /\ h.disk[l].kind = "csaf" /\ h.disk[l].id \in ToSet(Products) => WritersIds(h.disk[l])

\* What a reader relies on beyond that.  An index points each product at one
\* place; dates are numbers; and what an advisory of ours lists under an
\* id of the writer's it also defines.  A finding goes by some id.
Filings == [product : ToSet(Products) \cup UNION {{h.index[i].product : i \in DOMAIN h.index} : h \in {h \in Hubs : h.index # BadIndex}},
            loc : Locations \cup {Outside}]
OnePlaceEach(ix) == \A i, j \in DOMAIN ix : ix[i].product = ix[j].product => ix[i].loc = ix[j].loc
Dated(doc) ==
  /\ doc.kind = "openvex" => doc.ts \in Nat /\ \A i \in DOMAIN doc.statements : doc.statements[i].ts \in Nat
  /\ doc.kind = "csaf" => doc.ts \in Nat /\ \A i \in DOMAIN doc.vulns : doc.vulns[i].ts \in Nat
DefinesWhatItLists(doc) ==
  doc.kind = "csaf" /\ doc.id \in ToSet(Products) =>
    \A i \in DOMAIN doc.vulns : \A k \in DOMAIN doc.vulns[i].lists : \A pid \in ToSet(doc.vulns[i].lists[k]) :
      pid[1] \in {"artifact", "pair"} => Resolved(doc, pid) # {}

ASSUME ReaderAssumption ==
  /\ NoPurl \notin ToSet(Products) /\ BadIndex \notin Seq(Filings) /\ HubTime \in Nat
  /\ \A h \in Hubs :
       /\ h.index # BadIndex => OnePlaceEach(h.index)
       /\ \A l \in Locations : Dated(h.disk[l]) /\ DefinesWhatItLists(h.disk[l])
  /\ \A s \in Published : s = [ids |-> s.ids, also |-> s.also, products |-> s.products, status |-> s.status,
                               why |-> s.why, ts |-> s.ts]
  /\ \A F \in Scans : \A f \in F :
       /\ f = [product |-> f.product, sub |-> f.sub, vuln |-> f.vuln, ids |-> f.ids, joins |-> f.joins,
               ruledOut |-> f.ruledOut, why |-> f.why]
       /\ f.ids # {}

VARIABLES settings, index, disk, phase, findings, plan, runs, published
vars == <<settings, index, disk, phase, findings, plan, runs, published>>

\* A run that is given no hub starts one in an empty directory.
Init ==
  /\ settings \in Settings
  /\ \E h \in Hubs :
       /\ index = h.index /\ disk = h.disk
       /\ settings.hub \/ (h.index = <<>> /\ \A l \in Locations : h.disk[l] = NoDoc)
  /\ phase = "idle" /\ findings = {} /\ plan = <<>> /\ runs = 0 /\ published = FALSE

\* The first run may be starting a hub; the later ones are given it.
Given(run) == settings.hub \/ run > 1
UsesHub == Given(runs)

\* Each run has its own date, later than all that was in the hub before.
Today == HubTime + runs
-----------------------------------------------------------------------------
(* Reading: ix and dk are the index and the files of a hub.                *)
Opens(ix) == ix # BadIndex /\ ix # <<>>

\* The reader keeps the last entry of a product, the writer the first.
EntriesOf(ix, p) == {i \in DOMAIN ix : ix[i].product = p}
Lookup(ix, dk, p) ==
  IF ~Opens(ix) \/ EntriesOf(ix, p) = {} THEN NoDoc
  ELSE LET loc == ix[Max(EntriesOf(ix, p))].loc IN IF loc \in Locations THEN dk[loc] ELSE NoDoc
Answer(ix, dk, f) ==
  LET doc == Lookup(ix, dk, f.product)
  IN IF doc \in {NoDoc, Unreadable} THEN {} ELSE Match(doc, f.product, f.joins, f.sub)

\* vexOverlay, in a scan that could not fetch the documents of some products.
Annotated(F, run, lost) ==
  {[f |-> f, vex |-> IF Given(run) /\ f.product \notin lost THEN Answer(index, disk, f) ELSE {}] : f \in F}

Scan(F, lost) ==
  /\ phase \in {"idle", "written"} /\ runs < MaxRuns
  /\ runs' = runs + 1
  /\ findings' = Annotated(F, runs + 1, lost)
  /\ phase' = "scanned"
  /\ UNCHANGED <<settings, index, disk, plan, published>>

\* The publisher appends a statement of its own to a product's document.
Publish(s, l) ==
  /\ phase = "scanned" /\ ~published /\ disk[l].kind = "openvex"
  /\ published' = TRUE
  /\ disk' = [disk EXCEPT ![l].statements = Append(@, [s EXCEPT !.ts = Today])]
  /\ UNCHANGED <<settings, index, phase, findings, plan, runs>>
-----------------------------------------------------------------------------
(* Proposing: selectProposals.                                             *)
Claimable(f) == f.ruledOut /\ f.product # "" /\ f.sub # NoPurl
ClaimOf(a) == [vuln |-> a.f.vuln, ids |-> a.f.ids, product |-> a.f.product, sub |-> a.f.sub,
               why |-> a.f.why, ts |-> Today, covered |-> a.vex # {}]
Claims(A, p) ==
  LET of == {ClaimOf(a) : a \in {a \in A : Claimable(a.f) /\ a.f.product = p}}
      same(c) == {d \in of : d.vuln = c.vuln /\ d.sub = c.sub}
  IN SetToSeq({CHOOSE d \in same(c) : TRUE : c \in of})
\* Fault: a claim the hub already answers is proposed for the document too.
FreshAndCovered(A, p) == Claims(A, p)

Fresh(A, p) == LET all == Claims(A, p) IN Select(all, {i \in DOMAIN all : ~all[i].covered})

\* With no hub to merge against the index starts empty and no file exists.
Index0 == IF UsesHub THEN index ELSE <<>>
Raw(l) == IF UsesHub THEN disk[l] ELSE NoDoc
Indexed(p) == EntriesOf(Index0, p)
Location(p) == IF Indexed(p) # {} THEN Index0[Min(Indexed(p))].loc ELSE Home[p]

\* ensure refuses a location outside the hub; filable does not look at it.
Ensured(p) == Location(p) \notin {NoHome, Outside}
Filable(p) == Indexed(p) # {} \/ Home[p] # NoHome

Merged(A, p) == IF settings.format = "csaf" THEN MergeCSAF(Raw(Location(p)), p, Fresh(A, p), Today)
                ELSE MergeOpenVEX(Raw(Location(p)), Fresh(A, p), Today)
ToPropose(A) == {i \in DOMAIN Products : Fresh(A, Products[i]) # <<>> /\ Ensured(Products[i])}
Proposed(A) == Select(Products, ToPropose(A))
Writes(A) == Select(Products, {i \in ToPropose(A) : Merged(A, Products[i]).outcome = "wrote"})
DocumentChanges(A) == [i \in DOMAIN Writes(A) |-> [loc |-> Location(Writes(A)[i]), doc |-> Merged(A, Writes(A)[i]).doc]]

\* The index gains an entry for every product it had none for, and is
\* written if one of them gained a document.
IndexAfter(A) == LET new == Select(Products, {i \in ToPropose(A) : Indexed(Products[i]) = {}})
                 IN Index0 \o [i \in DOMAIN new |-> [product |-> new[i], loc |-> Home[new[i]]]]
IndexTouched(A) == \E i \in DOMAIN Writes(A) : Indexed(Writes(A)[i]) = {}
-----------------------------------------------------------------------------
(* Aggregates: every claim of every product that can be filed, the covered *)
(* ones too.                                                               *)
CanBeFiled(A, p) == IF Fresh(A, p) = <<>> THEN Filable(p) ELSE Ensured(p)
Eligible(A) == Select(Products, {i \in DOMAIN Products : Claims(A, Products[i]) # <<>> /\ CanBeFiled(A, Products[i])})
EligibleClaims(A) == FlattenSeq([i \in DOMAIN Eligible(A) |-> Claims(A, Eligible(A)[i])])
AggregateOf(A, l) == MergeOpenVEX(Raw(l), EligibleClaims(A), Today)

\* One that cannot be written fails the run, before anything is.
AggregateRefused(A, l) ==
  \/ \E i \in DOMAIN DocumentChanges(A) : DocumentChanges(A)[i].loc = l
  \/ UsesHub /\ Raw(l) = NoDoc
  \/ AggregateOf(A, l).outcome \in {"declined", "unreadable"}
AggregatesRefused(A) ==
  Eligible(A) # <<>> /\ \E i \in DOMAIN settings.aggregates : AggregateRefused(A, settings.aggregates[i])
AggregateChanges(A) ==
  LET paths == settings.aggregates
      changed == Select(paths, {i \in DOMAIN paths : Eligible(A) # <<>> /\ AggregateOf(A, paths[i]).outcome = "wrote"})
  IN [i \in DOMAIN changed |-> [loc |-> changed[i], doc |-> AggregateOf(A, changed[i]).doc]]

\* Fault: the index is written first.
IndexFirst(A) ==
  LET changes == DocumentChanges(A) \o AggregateChanges(A)
  IN IF changes = <<>> \/ ~(IndexTouched(A) \/ ~UsesHub) THEN changes
     ELSE <<[loc |-> "index.json", doc |-> IndexAfter(A)]>> \o changes

\* The files of a plan, in the order they are written: the index last.
Plan(A) ==
  LET changes == DocumentChanges(A) \o AggregateChanges(A)
  IN IF changes = <<>> \/ ~(IndexTouched(A) \/ ~UsesHub) THEN changes
     ELSE Append(changes, [loc |-> "index.json", doc |-> IndexAfter(A)])

NothingToClaim(A) == \A i \in DOMAIN Products : Claims(A, Products[i]) = <<>>
HubRefused == UsesHub /\ ~Opens(index)
Propose ==
  /\ phase = "scanned" /\ ~HubRefused
  /\ NothingToClaim(findings) \/ ~AggregatesRefused(findings)
  /\ plan' = IF NothingToClaim(findings) THEN <<>> ELSE Plan(findings)
  /\ phase' = "writing"
  /\ UNCHANGED <<settings, index, disk, findings, runs, published>>

\* The index or a document could not be fetched, or an aggregate refused.
ProposeFailed ==
  /\ phase = "scanned"
  /\ phase' = "idle"
  /\ UNCHANGED <<settings, index, disk, findings, plan, runs, published>>
-----------------------------------------------------------------------------
(* Writing.                                                                *)
Put(loc, doc) == IF loc = "index.json" THEN index' = doc /\ disk' = disk
                 ELSE disk' = [disk EXCEPT ![loc] = doc] /\ index' = index

Write ==
  /\ phase = "writing" /\ plan # <<>>
  /\ Put(Head(plan).loc, Head(plan).doc)
  /\ plan' = Tail(plan)
  /\ UNCHANGED <<settings, phase, findings, runs, published>>

Written ==
  /\ phase = "writing" /\ plan = <<>>
  /\ phase' = "written"
  /\ UNCHANGED <<settings, index, disk, findings, plan, runs, published>>

\* The run ends with files unwritten, or with one cut short: emptied or in
\* part.
Stop ==
  /\ phase = "writing" /\ plan # <<>>
  /\ phase' = "idle" /\ plan' = <<>>
  /\ UNCHANGED <<settings, index, disk, findings, runs, published>>
Tear(part) ==
  /\ phase = "writing" /\ plan # <<>>
  /\ Put(Head(plan).loc, IF Head(plan).loc = "index.json" THEN BadIndex ELSE part)
  /\ phase' = "idle" /\ plan' = <<>>
  /\ UNCHANGED <<settings, findings, runs, published>>

Next == \/ \E F \in Scans, lost \in {{}, ToSet(Products)} : Scan(F, lost)
        \/ \E s \in Published, l \in Locations : Publish(s, l)
        \/ Propose \/ ProposeFailed \/ Write \/ Written \/ Stop
        \/ \E part \in {NoDoc, Unreadable} : Tear(part)

Spec == Init /\ [][Next]_vars
-----------------------------------------------------------------------------
(* Properties.                                                             *)

\* What a document tells a reader: for each component of each product, the
\* verdict and its reason.
Said(doc) ==
  IF doc.kind \notin {"openvex", "csaf"} THEN {}
  ELSE UNION {{[ids |-> s.ids, product |-> p, status |-> s.status, why |-> s.why] : p \in s.products}
              : s \in ToSet(ReadStatements(doc))}
Foreign(doc) == doc.kind = "csaf" /\ doc.id \notin ToSet(Products)
Lost(doc) == doc \in {NoDoc, Unreadable}

\* Whatever a run writes, a document of the hub goes on saying everything it
\* said, with the reasons it gave (what it did not date gets the date of the
\* merge); one that could not be parsed and one that
\* somebody else signed stay exactly as they are.  Only a write cut short
\* loses a document.
PublishedIsKept ==
  [][\A l \in Locations :
       \/ Lost(disk'[l]) /\ phase' = "idle"
       \/ /\ Said(disk[l]) \subseteq Said(disk'[l])
          /\ disk[l] = Unreadable \/ Foreign(disk[l]) => disk'[l] = disk[l]
          /\ disk[l] # NoDoc => disk'[l].kind = disk[l].kind]_vars

\* A vendor that calls a component affected is not overruled by the scanner:
\* if the scan saw the answer, or the answer names the component exactly as
\* the scanner does, no later write turns a reader of the product's document
\* to not_affected.  This holds though the scan may have failed to fetch the
\* document, and the publisher may have spoken after the scan read it.  Left out
\* is a reader who is turned by the publisher itself: a not_affected that it made
\* of the component before and did not date is read under the document's date,
\* which every merge advances, and may so come to be the newest.
FoundSubs == UNION Scans
SeenByScan(f) == \E a \in findings : a.f = f /\ a.vex # {}
NamesExactly(s, f) == s.ids \cap f.ids # {} /\ CoversComponent(s, f)
SaidBefore(t, f) ==
  LET doc == Lookup(index, disk, f.product) IN
  ~Lost(doc) /\ \E u \in ToSet(ReadStatements(doc)) :
    /\ u.ids = t.ids /\ u.status = t.status /\ u.why = t.why /\ u.ts < t.ts
    /\ \E p \in u.products : Speaks(p, f.product, f.sub)
Overruled(s, f) ==
  /\ ~Exculpatory(s.status)
  /\ SeenByScan(f) \/ NamesExactly(s, f)
  /\ \E t \in Answer(index', disk', f) : Exculpatory(t.status) /\ ~SaidBefore(t, f)
NeverOverrules ==
  [][\A f \in FoundSubs : ~ \E s \in Answer(index, disk, f) : Overruled(s, f)]_vars

\* What a plan leaves behind when it is written whole: what is written last.
Applied(P) ==
  LET at(loc) == {n \in DOMAIN P : P[n].loc = loc}
      last(loc, before) == IF at(loc) = {} THEN before ELSE P[Max(at(loc))].doc
  IN [index |-> last("index.json", index), disk |-> [l \in Locations |-> last(l, disk[l])]]

\* A document nothing points at: a run stopped after writing it and before
\* the index.
Orphan(p) == Indexed(p) = {} /\ Raw(Location(p)) # NoDoc
Claimants(A, p) == {a \in A : Claimable(a.f) /\ a.f.product = p /\ ClaimOf(a) \in ToSet(Claims(A, p))}
Recorded(A) == {p \in ToSet(Proposed(A)) : Merged(A, p).outcome \in {"wrote", "nothing"} /\ ~Orphan(p)}
\* Only by its @id does a statement of the document cover the component.
ByIdAlone(doc, f) ==
  /\ doc.kind = "openvex" /\ \E i \in DOMAIN doc.statements : StatementCovers(doc.statements[i], f)
  /\ ~ \E i \in DOMAIN doc.statements : NamesExactly(doc.statements[i], f)
RoundTrips(A, P) ==
  LET after == Applied(P) IN
  /\ \A p \in Recorded(A) : \A a \in Claimants(A, p) : ~ByIdAlone(after.disk[Location(p)], a.f) =>
       Answer(after.index, after.disk, [a.f EXCEPT !.joins = a.f.joins \cup a.f.ids]) # {}
  /\ \A p \in Recorded(A) :
       LET doc == after.disk[Location(p)]
           again == IF settings.format = "csaf" THEN MergeCSAF(doc, p, Fresh(A, p), Today + 1)
                    ELSE MergeOpenVEX(doc, Fresh(A, p), Today + 1)
       IN again.outcome = "nothing"
  /\ \A l \in ToSet(settings.aggregates), c \in ToSet(EligibleClaims(A)) :
       \E i \in DOMAIN after.disk[l].statements : StatementCovers(after.disk[l].statements[i], c)

\* What a run proposes a reader finds: asked by the names of a finding it made a
\* claim of and could file, the product's document answers for that component,
\* unless the claim was held back for a statement whose @id alone names it;
\* proposing it all a second time adds nothing; and every aggregate holds every
\* claim.
RoundTrip == [][phase = "scanned" /\ phase' = "writing" => RoundTrips(findings, plan')]_vars

\* The index never points a product at a document that is not there, though
\* the run may stop, or be cut short, at any write.
Entries(ix) == IF ix = BadIndex THEN {} ELSE ToSet(ix)
IndexBacked == [][\A e \in Entries(index') \ Entries(index) : disk'[e.loc] # NoDoc]_vars
=============================================================================
