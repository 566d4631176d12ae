------------------------------- MODULE Reports -------------------------------
(***************************************************************************)
(* What one scan's result says in each output format: the text report, the *)
(* summary table, the fix plan, the SARIF run and the --fail-on gate       *)
(* (report.go, summary.go, fixplan.go, sarif.go, failon.go).  A format is  *)
(* the facts it states, not its layout.                                    *)
(*                                                                         *)
(* A finding is a record: id (the advisory), eco (the plugin, "" for a     *)
(* requested id no plugin spoke to), comp and version, status, vex (what a *)
(* published statement says), sev ("" when unrated), fix (0 when none is   *)
(* published, else its place in the distribution's order), kev and scored. *)
(* A result is a record: findings, ecosystems (id, families, components,   *)
(* failed), unreadable, withheld, unfixed, hubs, feeds, corrections and    *)
(* triage.                                                                 *)
(***************************************************************************)
EXTENDS Integers, Sequences, FiniteSets, FiniteSetsExt

Labels == <<"CRITICAL", "HIGH", "UNKNOWN", "MEDIUM", "LOW", "NONE">>
Display(sev) == IF sev = "" THEN "UNKNOWN" ELSE sev
Rank(label) == CHOOSE r \in 0..5 : Labels[r + 1] = label
RankOf(f) == Rank(Display(f.sev))

Affected(f) == f.status \in {"linked", "reachable"}
RuledOut(f) == f.status \in {"not_present", "not_in_execute_path"}
AlreadyVexed(f) == f.vex \in {"not_affected", "fixed"}

Failed(res) == res.unreadable > 0 \/ \E e \in res.ecosystems : e.failed

\* What a scan of an image puts in its result: a rating is one of the labels or
\* none, each plugin is recorded once, and a finding is stamped with the plugin
\* that made it, which did not fail (imageRun.analyze, stamp).
WellFormed(res) ==
  /\ IsFiniteSet(res.findings) /\ IsFiniteSet(res.ecosystems)
  /\ {res.unreadable, res.withheld, res.unfixed} \subseteq Nat
  /\ \A f \in res.findings :
       /\ f.sev \in {""} \cup {Labels[i] : i \in DOMAIN Labels}
       /\ f.fix \in Nat /\ f.kev \in BOOLEAN
       /\ f.status \in {"linked", "reachable", "undetermined", "not_present", "not_in_execute_path"}
       /\ f.eco # "" => \E e \in res.ecosystems : e.id = f.eco /\ ~e.failed
  /\ \A e, d \in res.ecosystems : e.id # "" /\ (e.id = d.id => e = d)
-----------------------------------------------------------------------------
(* The sections of the text report, and the rows counted from them.        *)
Buckets == <<"AFFECTED", "ALREADY VEXED", "UNDETERMINED", "RULED OUT">>

BucketOf(f) == IF Affected(f) THEN IF AlreadyVexed(f) THEN "ALREADY VEXED" ELSE "AFFECTED"
               ELSE IF RuledOut(f) THEN "RULED OUT" ELSE "UNDETERMINED"

Counts(F) == [b \in {Buckets[i] : i \in 1..4} |-> Cardinality({f \in F : BucketOf(f) = b})]
NoCounts == Counts({})

\* addAll, over the rows of a table.
SumOf(v) == MapThenSumSet(LAMBDA x : v[x], DOMAIN v)
AddAll(v) == [b \in DOMAIN NoCounts |-> SumOf([x \in DOMAIN v |-> v[x][b]])]

Sections(res) == [b \in {BucketOf(f) : f \in res.findings} |-> {f \in res.findings : BucketOf(f) = b}]

\* writeSummaryTable: a row for each ecosystem that ran and has anything to
\* show.  Findings are found under the plugin that produced them.
SummaryRows(res) ==
  {r \in {[id |-> e.id, components |-> e.components,
           counts |-> Counts({f \in res.findings : f.eco = e.id})] :
            e \in {e \in res.ecosystems : ~e.failed}} :
     r.components > 0 \/ r.counts # NoCounts}
SummaryTotal(res) == AddAll([r \in SummaryRows(res) |-> r.counts])

Remediation(res) ==
  LET open == {f \in res.findings : Affected(f) /\ ~AlreadyVexed(f)}
  IN [total |-> Cardinality(open), fixable |-> Cardinality({f \in open : f.fix > 0}),
      advisories |-> {f.id : f \in open}]

\* writePriority: the known-exploited clause of the priority line.
Exploited(res) ==
  LET here == {f \in res.findings : Affected(f) /\ ~AlreadyVexed(f)}
      kev == {f \in here : f.kev}
      elsewhere == {f \in res.findings \ here : f.kev}
  IN IF kev # {} THEN "some"
     ELSE IF elsewhere # {} THEN "elsewhere"
     ELSE IF res.triage.kevRead /\ here # {} THEN "none" ELSE "unsaid"
-----------------------------------------------------------------------------
(* The caveats at the head of every readable format.                       *)
Incomplete(res) == {e.id : e \in {e \in res.ecosystems : e.failed}}
                     \cup (IF res.unreadable > 0 THEN {"unreadable"} ELSE {})

Notes(res) ==
  {n \in {"severity", "fixed-only", "corrections", "hub", "feed", "feed matched nothing", "kev"} :
     CASE n = "severity"    -> res.withheld > 0 /\ res.findings # {}
       [] n = "fixed-only"  -> res.unfixed > 0 /\ res.findings # {}
       [] n = "corrections" -> res.corrections > 0
       [] n = "hub"         -> \E h \in res.hubs : h.failed
       [] n = "feed"        -> \E d \in res.feeds : d.failed
       [] n = "feed matched nothing" -> \E d \in res.feeds : ~d.failed /\ d.matched = 0
       [] n = "kev"         -> res.triage.on /\ ~res.triage.kevRead}

\* writeNoFindings, the body when nothing is left to list.
NoFindings(res) == IF Failed(res) THEN "incomplete"
                   ELSE IF res.withheld > 0 \/ res.unfixed > 0 THEN "filtered" ELSE "clean"

\* renderText: the summary counts only what is open, and again by section.
Text(res) ==
  [incomplete |-> Incomplete(res), notes |-> Notes(res),
   body |-> IF res.findings = {} THEN NoFindings(res) ELSE "sections",
   sections |-> Sections(res), open |-> Remediation(res), exploited |-> IF res.triage.on THEN Exploited(res) ELSE "unsaid"]
-----------------------------------------------------------------------------
(* The fix plan.                                                           *)
DebianFamily == {"Debian", "Ubuntu"}
DpkgPlugins(res) == {e.id : e \in {e \in res.ecosystems : e.families # {} /\ e.families \subseteq DebianFamily}}

\* The fault of keeping one finding's fix for the whole package.
UpgradeToOne(dpkg, F) ==
  LET some == CHOOSE f \in F : \A g \in F : f.fix <= g.fix IN
  [eco |-> some.eco, comp |-> some.comp, version |-> some.version, fixedIn |-> some.fix,
   advisories |-> {f.id : f \in F}, top |-> Min({RankOf(f) : f \in F}), kev |-> \E f \in F : f.kev]

\* One row per package, at the newest fix, where versions can be ordered;
\* one row per package and fix where they cannot.
SameUpgrade(dpkg, f, g) == /\ f.eco = g.eco /\ f.comp = g.comp /\ f.version = g.version
                           /\ f.eco \in dpkg \/ f.fix = g.fix
Upgrade(dpkg, F) ==
  LET some == CHOOSE f \in F : TRUE IN
  [eco |-> some.eco, comp |-> some.comp, version |-> some.version,
   fixedIn |-> IF some.eco \in dpkg THEN Max({f.fix : f \in F}) ELSE some.fix,
   advisories |-> {f.id : f \in F}, top |-> Min({RankOf(f) : f \in F}),
   kev |-> \E f \in F : f.kev]
GroupUpgrades(dpkg, F) == {Upgrade(dpkg, {g \in F : SameUpgrade(dpkg, f, g)}) : f \in F}

FixPlan(res) ==
  LET open == {f \in res.findings : Affected(f) /\ ~AlreadyVexed(f)}
      fixable == {f \in open : f.fix > 0}
  IN [upgrades |-> GroupUpgrades(DpkgPlugins(res), fixable), noFix |-> open \ fixable,
      fixable |-> fixable, cleared |-> {f.id : f \in fixable},
      vexed |-> {f \in res.findings : Affected(f) /\ AlreadyVexed(f)},
      undetermined |-> {f \in res.findings : ~Affected(f) /\ ~RuledOut(f)}]
-----------------------------------------------------------------------------
(* SARIF: a rule per advisory, a result per finding.                       *)
Level(f) == CASE f.sev \in {"CRITICAL", "HIGH"} -> "error"
              [] f.sev \in {"LOW", "NONE"} -> "note"
              [] OTHER -> "warning"
Suppressed(f) == f.status \in {"not_present", "not_in_execute_path"}
Sarif(res) == {[rule |-> f.id, of |-> f, level |-> Level(f), suppressed |-> Suppressed(f)] : f \in res.findings}
-----------------------------------------------------------------------------
(* The --fail-on gate: a rank (past every label for "any") and the classes it counts.     *)
AnyRank == Len(Labels) + 1

Classify(f) == IF AlreadyVexed(f) THEN "vexed"
               ELSE IF Affected(f) THEN "affected"
               ELSE IF f.status = "undetermined" THEN "undetermined" ELSE "cleared"

Evaluate(gate, res) ==
  LET counted == {f \in res.findings : Classify(f) \in gate.classes}
      tripped == {f \in counted : RankOf(f) <= gate.rank}
  IN [counted |-> Cardinality(counted), tripped |-> Cardinality(tripped),
      unweighable |-> Cardinality({f \in counted \ tripped : Display(f.sev) = "UNKNOWN"})]
-----------------------------------------------------------------------------
(* The five places that split the findings agree on the rows a reader acts *)
(* on: what the text lists as AFFECTED is what its summary line totals,    *)
(* what the fix plan plans for or names as unfixable, and what a gate on   *)
(* affected findings of any severity counts; and SARIF marks as suppressed *)
(* exactly what the text lists as RULED OUT.                               *)
Open(res) == {f \in res.findings : BucketOf(f) = "AFFECTED"}
FormatsAgree(res) ==
  LET plan == FixPlan(res) IN
  /\ Remediation(res).total = Cardinality(Open(res))
  /\ plan.fixable \cup plan.noFix = Open(res) /\ plan.fixable \cap plan.noFix = {}
  /\ Evaluate([rank |-> AnyRank, classes |-> {"affected"}], res).tripped = Cardinality(Open(res))
  /\ {s.of : s \in {s \in Sarif(res) : s.suppressed}} = {f \in res.findings : BucketOf(f) = "RULED OUT"}
  /\ plan.undetermined = {f \in res.findings : BucketOf(f) = "UNDETERMINED"}

(* Applying the plan clears every fixable finding: some row moves its      *)
(* package to a version that has the fix -- at or past it in a Debian      *)
(* order, exactly it where versions cannot be ordered -- and a row never   *)
(* claims an advisory its package does not have.  (groupUpgrades)          *)
PlanClears(res) ==
  LET plan == FixPlan(res) IN
  /\ \A f \in plan.fixable : \E u \in plan.upgrades :
        /\ u.eco = f.eco /\ u.comp = f.comp /\ u.version = f.version /\ f.id \in u.advisories
        /\ IF f.eco \in DpkgPlugins(res) THEN u.fixedIn >= f.fix ELSE u.fixedIn = f.fix
        /\ u.top <= RankOf(f) /\ (f.kev => u.kev)
  /\ \A u \in plan.upgrades : \A a \in u.advisories :
        \E f \in plan.fixable : f.id = a /\ f.eco = u.eco /\ f.comp = u.comp /\ f.version = u.version

(* The text report reads no cleaner than the scan: "no findings" is said   *)
(* without a qualification only of a whole scan with nothing filtered      *)
(* away, a hole is named at the head of the report, and "none known        *)
(* exploited" is said only if the catalog was read and no row at all is in *)
(* it.  Nothing of the kind is true of the SARIF run, which has results    *)
(* and no caveats.  (renderText, writeNoFindings, writePriority)           *)
TextLooksNoCleaner(res) ==
  LET text == Text(res) IN
  /\ text.body = "clean" => ~Failed(res) /\ res.withheld = 0 /\ res.unfixed = 0
  /\ text.body \in {"sections", "filtered"} /\ res.withheld + res.unfixed > 0
       => text.body = "filtered" \/ text.notes \cap {"severity", "fixed-only"} # {}
  /\ Failed(res) => text.incomplete # {}
  /\ text.exploited = "none" => res.triage.kevRead /\ \A f \in res.findings : ~f.kev

(* The totals of the summary are the sizes of the report's sections, less  *)
(* the findings of no ecosystem, which no row has; and a gate's class is   *)
(* the section a finding is in, but for a vendor's word on one that is not *)
(* affected, which the gate takes first.                                   *)
SummaryAgrees(res) == SummaryTotal(res) = Counts({f \in res.findings : f.eco # ""})
GateAgrees(res) ==
  \A f \in res.findings :
     \/ BucketOf(f) = CASE Classify(f) = "affected" -> "AFFECTED" [] Classify(f) = "vexed" -> "ALREADY VEXED"
                        [] Classify(f) = "undetermined" -> "UNDETERMINED" [] Classify(f) = "cleared" -> "RULED OUT"
     \/ ~Affected(f) /\ Classify(f) = "vexed"
=============================================================================
