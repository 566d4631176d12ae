----------------------------- MODULE ScanPipeline -----------------------------
(***************************************************************************)
(* One scan, analyze.Run from the options to the result: the temporary     *)
(* trees it makes and has to remove on every way out, the analyzers, any   *)
(* of which may not apply or fail, and the overlays and filters the        *)
(* findings go through afterwards, in their order.                         *)
(***************************************************************************)
EXTENDS Integers, Sequences, FiniteSets

CONSTANTS
  Configs,      \* the option sets considered, see ConfigType
  Ids,          \* advisory ids
  Ecosystems,   \* plugins
  Hubs,         \* --vexhub URLs
  AnalyzersOf,  \* AnalyzersOf[mode]: the analyzers of a mode, in order
  SourceFirst,  \* how many of them repo mode runs before it has a resolver
  Reports,      \* Reports[e]: the sets of findings plugin e may return
  Rating,       \* Rating[i]: the advisory's severity, "none" if none was read
  VendorRating, \* VendorRating[i]: a preferred vendor's, "none" if it has none
  HasFix,       \* HasFix[i]: a fixed version is published
  HubSays,      \* HubSays[h][i]: the statement of a hub's document, or "none"
  FeedSays      \* FeedSays[i]: the statement of the distribution's feed

Modes == {"image", "rootfs", "rpm", "rpmdeep", "sbom", "repo"}
Severities == {"CRITICAL", "LOW", "UNKNOWN"}
Statuses == {"not_present", "not_in_execute_path", "linked", "reachable", "undetermined"}
VEXStatuses == {"not_affected", "fixed", "affected", "none"}

NoStatement == [by |-> "nobody", says |-> "none"]

FindingType ==
  [id : Ids, eco : Ecosystems \cup {"none"}, status : Statuses,
   tainted : BOOLEAN, proven : BOOLEAN,
   reason : {"", "no_component_matched", "unproven_clean"},
   rating : Severities \cup {"none"}, fix : BOOLEAN,
   vex : [by : Hubs \cup {"feed", "nobody"}, says : VEXStatuses]]

ConfigType ==
  [mode : Modes, requested : SUBSET Ids, keep : SUBSET Severities,
   fixedOnly : BOOLEAN, hubs : Seq(Hubs), feed : BOOLEAN, vendor : BOOLEAN, llm : BOOLEAN]

ASSUME PipelineAssumption ==
  /\ Configs \subseteq ConfigType
  /\ AnalyzersOf \in [Modes -> Seq(Ecosystems)]
  /\ SourceFirst \in Nat
  /\ Reports \in [Ecosystems -> SUBSET SUBSET FindingType]
  /\ Rating \in [Ids -> Severities \cup {"none"}]
  /\ VendorRating \in [Ids -> Severities \cup {"none"}]
  /\ HasFix \in [Ids -> BOOLEAN]
  /\ HubSays \in [Hubs -> [Ids -> VEXStatuses]]
  /\ FeedSays \in [Ids -> VEXStatuses]
  /\ IsFiniteSet(FindingType)   \* there are finitely many ids, plugins and hubs
  /\ "none" \notin Ecosystems /\ {"feed", "nobody"} \cap Hubs = {}

\* What the code gives a scan to start from: a mode runs an analyzer once, and
\* stamp files a plugin's findings under the plugin.  Only unmapped gives the
\* reason of a placeholder, and only the overlays attach a statement.
ASSUME PluginAssumption ==
  /\ \A m \in Modes : \A j, k \in DOMAIN AnalyzersOf[m] : AnalyzersOf[m][j] = AnalyzersOf[m][k] => j = k
  /\ \A e \in Ecosystems : \A fs \in Reports[e] : \A f \in fs :
       f.eco = e /\ f.reason # "no_component_matched" /\ f.vex = NoStatement

VARIABLES
  config,    \* the options of this scan
  stage,     \* what runs next; "done" or "failed" at the end
  opened,    \* openTree has returned a tree, and its cleanup is deferred
  trees,     \* directories that exist: the user's, and temporary ones
  resolver,  \* newResolver has succeeded
  turn,      \* analyzers run so far
  ran,       \* ran[e]: "pending", "no", "ok" or "error", what really happened
  recorded,  \* the analyzers whose failure the result records
  applied,   \* how many analyzers applied
  lost,      \* inputs that could not be read: "rpm", "sbom", "walk"
  unreadable,\* the result's account of them
  findings,  \* the findings in the result
  withheld,  \* what --severity took out
  unfixed,   \* what --fixed-only took out
  hubs,      \* results per hub consulted
  billed     \* findings the model was asked about

vars == <<config, stage, opened, trees, resolver, turn, ran, recorded, applied,
          lost, unreadable, findings, withheld, unfixed, hubs, billed>>

tree == <<opened, trees>>
scan == <<resolver, turn, ran, recorded, applied>>
account == <<lost, unreadable>>
report == <<findings, withheld, unfixed, hubs, billed>>

Mode == config.mode
Clean(status) == status \in {"not_present", "not_in_execute_path"}
Affected(f) == f.status \in {"linked", "reachable"}
Named(f) == <<f.eco, f.id>>

Init ==
  /\ config \in Configs
  /\ stage = "rpms"
  /\ opened = FALSE
  /\ trees = IF config.mode = "rootfs" THEN {"user"} ELSE {}
  /\ resolver = FALSE
  /\ turn = 0
  /\ ran = [e \in Ecosystems |-> "pending"]
  /\ recorded = {}
  /\ applied = 0
  /\ lost = {}
  /\ unreadable = {}
  /\ findings = {} /\ withheld = {} /\ unfixed = {}
  /\ hubs = <<>>
  /\ billed = {}

-----------------------------------------------------------------------------
(* The temporary trees                                                     *)

\* The tree a mode is scanned in, and whether the scan made it.
TreeOf(mode) ==
  CASE mode = "image" -> "image" [] mode = "rootfs" -> "user"
    [] mode = "rpmdeep" -> "extract" [] mode = "repo" -> "checkout"
    [] mode \in {"rpm", "sbom"} -> "empty"

\* Mutant: the extraction is only removed by openTree's own cleanup.
DeferredByOpenTree == IF opened /\ Mode # "rootfs" THEN {TreeOf(Mode)} ELSE {}

\* What the deferred calls remove on the way out: openTree's tree unless it is
\* the user's, and before that the rpm extraction.
Deferred ==
  IF opened
  THEN IF Mode = "rootfs" THEN {} ELSE {TreeOf(Mode)}
  ELSE {"extract"}

Leave(where) == stage' = where /\ trees' = trees \ Deferred

Abort == Leave("failed") /\ UNCHANGED <<config, opened, scan, account, report>>

ReadRPMs ==
  /\ stage = "rpms"
  /\ \/ /\ stage' = "sbom"
        /\ trees' = IF Mode = "rpmdeep" THEN trees \cup {"extract"} ELSE trees
        /\ lost' \in {lost} \cup (IF Mode \in {"rpm", "rpmdeep"} THEN {lost \cup {"rpm"}} ELSE {})
        /\ UNCHANGED <<config, opened, scan, unreadable, report>>
     \/ Mode \in {"rpm", "rpmdeep"} /\ Abort

ReadSBOM ==
  /\ stage = "sbom"
  /\ \/ /\ stage' = "plan"
        /\ lost' \in {lost} \cup (IF Mode = "sbom" THEN {lost \cup {"sbom"}} ELSE {})
        /\ UNCHANGED <<config, tree, scan, unreadable, report>>
     \/ Mode = "sbom" /\ Abort

\* plan and newLLM: a bad selector or a missing provider fails the scan here.
Plan ==
  /\ stage = "plan"
  /\ \/ stage' = "open" /\ UNCHANGED <<config, tree, scan, account, report>>
     \/ Abort

\* openTree or source.Checkout; either removes what it made when it fails.
OpenTree ==
  /\ stage = "open"
  /\ \/ /\ stage' = "analyze"
        /\ opened' = TRUE
        /\ trees' = trees \cup {TreeOf(Mode)}
        /\ UNCHANGED <<config, scan, account, report>>
     \/ Mode # "rpmdeep" /\ Abort

-----------------------------------------------------------------------------
(* The analyzers                                                           *)

Analyzers == AnalyzersOf[Mode]

\* Repo mode runs its source analyzers before it makes a resolver.
NeedsResolver == ~resolver /\ (Mode # "repo" \/ turn >= SourceFirst)

NewResolver ==
  /\ stage = "analyze"
  /\ NeedsResolver
  /\ \/ resolver' = TRUE
        /\ UNCHANGED <<config, stage, tree, turn, ran, recorded, applied, account, report>>
     \/ Abort

Running ==
  /\ stage = "analyze"
  /\ ~NeedsResolver
  /\ turn < Len(Analyzers)

Analyzer == Analyzers[turn + 1]

\* The walks of an analyzer may meet paths they cannot read.
Walked == lost' \in {lost} \cup (IF Mode # "repo" THEN {lost \cup {"walk"}} ELSE {})

Ran(how) == ran' = [ran EXCEPT ![Analyzer] = how] /\ turn' = turn + 1

NotApplicable ==
  /\ Running
  /\ Ran("no")
  /\ UNCHANGED <<config, stage, tree, resolver, recorded, applied, account, report>>

Analyzed ==
  /\ Running
  /\ Ran("ok")
  /\ applied' = applied + 1
  /\ Walked
  /\ \E fs \in Reports[Analyzer] : findings' = findings \cup fs
  /\ UNCHANGED <<config, stage, tree, resolver, recorded, unreadable, withheld, unfixed, hubs, billed>>

\* Mutant: a detection that failed is taken for one that said no.
RecordedNever(e) == UNCHANGED <<recorded, applied>>

Recorded(e) == recorded' = recorded \cup {e} /\ applied' = applied + 1

\* Detection, inventory or analysis failed: a tree scan records it and goes
\* on, a repo scan ends.
AnalyzerFailed ==
  /\ Running
  /\ IF Mode = "repo"
     THEN Abort
     ELSE /\ Ran("error")
          /\ Recorded(Analyzer)
          /\ Walked
          /\ UNCHANGED <<config, stage, tree, resolver, unreadable, report>>

\* No analyzer applied, or every one that did failed.
NothingAnalyzed == applied = 0 \/ Cardinality(recorded) = applied

Placeholder(i) ==
  [id |-> i, eco |-> "none", status |-> "undetermined", tainted |-> FALSE,
   proven |-> FALSE, reason |-> "no_component_matched", rating |-> "none",
   fix |-> FALSE, vex |-> NoStatement]

\* unmapped: a requested id no finding names gets one of its own.
Unmapped == {Placeholder(i) : i \in config.requested \ {f.id : f \in findings}}

\* The analyzers are through: the loss of their walks and of the rpm and SBOM
\* readers becomes part of the result.
Account ==
  /\ stage = "analyze"
  /\ ~NeedsResolver
  /\ turn = Len(Analyzers)
  /\ IF NothingAnalyzed
     THEN Abort
     ELSE /\ findings' = findings \cup Unmapped
          /\ unreadable' = lost
          /\ stage' = "guard"
          /\ UNCHANGED <<config, tree, scan, lost, withheld, unfixed, hubs, billed>>

-----------------------------------------------------------------------------
(* Overlays and filters                                                    *)

\* Mutant: the findings are filtered by severity before a preferred vendor has
\* rated them.
AfterFilterFirst ==
  [guard |-> "severity", severity |-> "filter", filter |-> "vendor", vendor |-> "fix",
   fix |-> "fixedonly", fixedonly |-> "vex", vex |-> "feed", feed |-> "llm", llm |-> "done"]

\* The order of the overlays.
After ==
  [guard |-> "severity", severity |-> "vendor", vendor |-> "filter", filter |-> "fix",
   fix |-> "fixedonly", fixedonly |-> "vex", vex |-> "feed", feed |-> "llm", llm |-> "done"]

At(overlay) == stage = overlay

Advance ==
  IF After[stage] = "done"
  THEN Leave("done")
  ELSE stage' = After[stage] /\ UNCHANGED trees

\* Mutant: a clean is demoted only for a taint.
ValidateTaintOnly(f) ==
  IF Clean(f.status) /\ f.tainted THEN [f EXCEPT !.status = "linked"] ELSE f

\* Finding.Validate
Validate(f) ==
  CASE Clean(f.status) /\ f.tainted -> [f EXCEPT !.status = "linked"]
    [] Clean(f.status) /\ ~f.tainted /\ ~f.proven ->
         [f EXCEPT !.status = "undetermined", !.reason = "unproven_clean"]
    [] OTHER -> f

Rated(f) == [f EXCEPT !.rating = Rating[f.id]]
Rescored(f) == IF VendorRating[f.id] = "none" THEN f ELSE [f EXCEPT !.rating = VendorRating[f.id]]
Fixed(f) == [f EXCEPT !.fix = HasFix[f.id]]

EachFinding(Op(_)) ==
  /\ findings' = {Op(f) : f \in findings}
  /\ Advance
  /\ UNCHANGED <<config, opened, scan, account, withheld, unfixed, hubs, billed>>

SkipOverlay ==
  Advance /\ UNCHANGED <<config, opened, scan, account, report>>

Guard == At("guard") /\ EachFinding(Validate)
Severity == At("severity") /\ EachFinding(Rated)
FixedVersions == At("fix") /\ EachFinding(Fixed)

\* A vendor whose feed cannot be read leaves the rating alone.
PreferVendor ==
  /\ At("vendor")
  /\ \/ config.vendor /\ EachFinding(Rescored)
     \/ SkipOverlay

Display(rating) == IF rating = "none" THEN "UNKNOWN" ELSE rating

AlwaysReport(f) == f.reason = "no_component_matched" /\ f.status = "undetermined"

SeverityFilter ==
  /\ At("filter")
  /\ LET out == {f \in findings : /\ config.keep # {}
                                  /\ Display(f.rating) \notin config.keep
                                  /\ ~AlwaysReport(f)}
     IN  findings' = findings \ out /\ withheld' = out
  /\ Advance
  /\ UNCHANGED <<config, opened, scan, account, unfixed, hubs, billed>>

FixedOnlyFilter ==
  /\ At("fixedonly")
  /\ LET out == {f \in findings : config.fixedOnly /\ ~f.fix /\ ~AlwaysReport(f)}
     IN  findings' = findings \ out /\ unfixed' = out
  /\ Advance
  /\ UNCHANGED <<config, opened, scan, account, withheld, hubs, billed>>

\* The artifact a finding is filed under: a binary's main module for Go, the
\* image for the rest; a scan without an image has none to offer.
Product(f) ==
  CASE f.eco = "golang" -> "module"
    [] f.eco # "golang" /\ Mode = "image" -> "image"
    [] OTHER -> "none"

Unspoken(f) == f.vex = NoStatement

\* One hub: it cannot be opened, or any of its documents may fail to load.
ConsultHub ==
  /\ At("vex")
  /\ Len(hubs) < Len(config.hubs)
  /\ LET h == config.hubs[Len(hubs) + 1]
     IN \/ hubs' = Append(hubs, [url |-> h, error |-> TRUE, matched |-> 0]) /\ UNCHANGED findings
        \/ \E unread \in SUBSET {"module", "image"} :
             LET spoken == {f \in findings : /\ Unspoken(f)
                                             /\ Product(f) \notin unread \cup {"none"}
                                             /\ HubSays[h][f.id] # "none"}
                 said(f) == [f EXCEPT !.vex = [by |-> h, says |-> HubSays[h][f.id]]]
             IN  /\ findings' = (findings \ spoken) \cup {said(f) : f \in spoken}
                 /\ hubs' = Append(hubs, [url |-> h, error |-> FALSE, matched |-> Cardinality(spoken)])
  /\ UNCHANGED <<config, stage, tree, scan, account, withheld, unfixed, billed>>

HubsConsulted == At("vex") /\ Len(hubs) = Len(config.hubs) /\ SkipOverlay

\* The feed speaks to the packages of the OS that no hub spoke to, and only to
\* clear them.  Repo mode has no feed.
FeedSpoke(f) ==
  IF f.eco = "os" /\ Unspoken(f) /\ FeedSays[f.id] \in {"not_affected", "fixed"}
  THEN [f EXCEPT !.vex = [by |-> "feed", says |-> FeedSays[f.id]]] ELSE f

DistroFeed ==
  /\ At("feed")
  /\ \/ config.feed /\ Mode # "repo" /\ EachFinding(FeedSpoke)
     \/ SkipOverlay

ToAssess == {f \in findings : Affected(f)}

\* The model is asked about each affected row; a failed assessment is skipped.
\* Then the result is sorted and returned.
AskLLM ==
  /\ At("llm")
  /\ billed' = IF config.llm THEN {Named(f) : f \in ToAssess} ELSE {}
  /\ Advance
  /\ UNCHANGED <<config, opened, scan, account, findings, withheld, unfixed, hubs>>

Ended == stage \in {"done", "failed"} /\ UNCHANGED vars

Collect == NewResolver \/ NotApplicable \/ Analyzed \/ AnalyzerFailed \/ Account

Overlay ==
  \/ Guard \/ Severity \/ PreferVendor \/ SeverityFilter \/ FixedVersions
  \/ FixedOnlyFilter \/ ConsultHub \/ HubsConsulted \/ DistroFeed \/ AskLLM

Next == ReadRPMs \/ ReadSBOM \/ Plan \/ OpenTree \/ Collect \/ Overlay \/ Ended

Spec == Init /\ [][Next]_vars

-----------------------------------------------------------------------------
TypeOK ==
  /\ config \in Configs
  /\ stage \in DOMAIN After \cup {"rpms", "sbom", "plan", "open", "analyze", "done", "failed"}
  /\ opened \in BOOLEAN /\ resolver \in BOOLEAN
  /\ trees \subseteq {"user", "image", "empty", "extract", "checkout"}
  /\ turn \in 0 .. Len(Analyzers) /\ applied \in 0 .. turn
  /\ ran \in [Ecosystems -> {"pending", "no", "ok", "error"}]
  /\ recorded \subseteq Ecosystems
  /\ lost \subseteq {"rpm", "sbom", "walk"} /\ unreadable \subseteq lost
  /\ findings \cup withheld \cup unfixed \subseteq FindingType
  /\ hubs \in Seq([url : Hubs, error : BOOLEAN, matched : Nat])
  /\ billed \subseteq (Ecosystems \cup {"none"}) \X Ids

Over == stage \in {"done", "failed"}
PreOpen == {"rpms", "sbom", "plan", "open"}
PreGuard == PreOpen \cup {"analyze", "guard"}

\* Result.Failed
Failed == recorded # {} \/ unreadable # {}

UserTree == IF Mode = "rootfs" THEN {"user"} ELSE {}

\* A scan leaves no temporary tree behind on any way out, and never removes
\* the directory a user named.
TreesReleased == Over => trees = UserTree

Supported(f) == Clean(f.status) => f.proven /\ ~f.tainted

\* A clean verdict reaches the result, shown or withheld, only on a
\* deterministic test and never over a taint, whatever a plugin returned and a
\* hub, a feed or a vendor said since.
NoFalseClean ==
  stage = "done" => \A f \in findings \cup withheld \cup unfixed : Supported(f)

\* A report that shows and withholds nothing and does not admit a failure is
\* one of a target some analyzer recognized, every analyzer that did so
\* completed, every input was read, and no id was asked for: an empty report
\* cannot stand for a target that was not examined.
SilenceIsClean ==
  stage = "done" /\ findings \cup withheld \cup unfixed = {} /\ ~Failed =>
    /\ \E e \in Ecosystems : ran[e] = "ok"
    /\ \A e \in Ecosystems : ran[e] # "error"
    /\ lost = {}
    /\ config.requested = {}

\* The filters hide only what was asked to be hidden, by the ratings and fixes
\* as they stand in the end, and never the placeholder of a requested id:
\* nothing withheld by severity has a kept one, by vendor if one rated it, and
\* nothing withheld for want of a fix has a published fix.
WithheldJustly ==
  stage = "done" =>
    /\ \A f \in withheld : /\ Display(f.rating) \notin config.keep
                           /\ f.eco # "none"
    /\ \A f \in findings : f.eco # "none" /\ config.keep # {} => Display(f.rating) \in config.keep
    /\ \A f \in unfixed : ~HasFix[f.id] /\ f.eco # "none"
    /\ \A i \in config.requested : \E f \in findings \cup withheld \cup unfixed : f.id = i

\* The hub is consulted once: the --vexhub list may repeat one.
ConsultedOnce(n) == \A m \in DOMAIN hubs : hubs[m].url = hubs[n].url => m = n

SpokenBy(hub) == {f \in findings : f.vex.by = hub}

\* What the report says of its sources is about the rows it shows: a hub's
\* count is the number of rows that carry its statement, a row carries the
\* first hub's that spoke to it, and the model was paid for affected rows only.
HonestCounts ==
  stage = "done" =>
    /\ \A n \in DOMAIN hubs :
         ConsultedOnce(n) => hubs[n].matched = Cardinality(SpokenBy(hubs[n].url))
    /\ \A f \in findings : f.vex.by = "feed" => f.vex.says \in {"not_affected", "fixed"}
    /\ billed \subseteq {Named(f) : f \in {g \in findings : Affected(g)}}

\* What a report says of itself is so: its silence and its counts.
ReportIsHonest == SilenceIsClean /\ HonestCounts

-----------------------------------------------------------------------------
(* The inductive invariant                                                 *)

\* Which trees exist at every point of a scan: openTree takes over the
\* extraction, and from then on there is the user's tree and the scan's own.
TreesKept ==
  /\ stage \in PreOpen => ~opened
  /\ stage \notin PreOpen \cup {"failed"} => opened
  /\ ~opened /\ ~Over => trees = UserTree \/ (trees = {"extract"} /\ Mode = "rpmdeep")
  /\ opened /\ ~Over => trees = UserTree \cup {TreeOf(Mode)}
  /\ TreesReleased

\* From the guard on every clean verdict is supported; before it nothing has
\* been filtered.
CleanSupported ==
  /\ stage \in PreGuard => withheld = {} /\ unfixed = {}
  /\ stage \notin PreGuard \cup {"failed"} =>
       \A f \in findings \cup withheld \cup unfixed : Supported(f)

IInv == TypeOK /\ TreesKept /\ CleanSupported

\* What a run that ends well has been through.
Consulting == {"vex", "feed", "llm", "done"}
Filtered == {"fix", "fixedonly"} \cup Consulting
Accounted == {"guard", "severity", "vendor", "filter"} \cup Filtered

\* The result's record of its analyzers and inputs is what happened to them.
RunKept ==
  /\ \A e \in Ecosystems : ran[e] = "error" => e \in recorded
  /\ \A k \in DOMAIN Analyzers : k > turn => ran[Analyzers[k]] = "pending"
  /\ applied > 0 => recorded # {} \/ \E e \in Ecosystems : ran[e] = "ok"
  /\ stage \in Accounted => applied > 0 /\ unreadable = lost

\* A row without an ecosystem is a placeholder, and only such a row is.
Filed(f) == IF f.eco = "none" THEN AlwaysReport(f) ELSE f.reason # "no_component_matched"

OutBySeverity(f) == Display(f.rating) \notin config.keep /\ f.eco # "none"
OutByFix(f) == ~HasFix[f.id] /\ f.eco # "none"
KeptBySeverity(f) == f.eco # "none" /\ config.keep # {} => Display(f.rating) \in config.keep

\* What each filter has taken out and let through, by the ratings and fixes the
\* findings have from then on, and no requested id is lost on the way.
FiltersKept ==
  /\ \A f \in findings : Filed(f)
  /\ \A f \in withheld : OutBySeverity(f)
  /\ \A f \in unfixed : OutByFix(f)
  /\ stage \notin Filtered => withheld = {}
  /\ stage \notin Consulting => unfixed = {}
  /\ stage \in Filtered => \A f \in findings : KeptBySeverity(f)
  /\ stage = "fixedonly" => \A f \in findings : f.fix = HasFix[f.id]
  /\ stage \in Accounted =>
       \A i \in config.requested : \E f \in findings \cup withheld \cup unfixed : f.id = i

\* The statements on the rows are those of the hubs consulted so far, and of
\* the feed after them.
StatementsKept ==
  /\ stage \notin Consulting =>
       hubs = <<>> /\ \A f \in findings : f.vex = NoStatement
  /\ stage \in {"vex", "feed"} =>
       \A f \in findings : f.vex = NoStatement \/ \E n \in DOMAIN hubs : f.vex.by = hubs[n].url
  /\ \A n \in DOMAIN hubs : ConsultedOnce(n) => hubs[n].matched = Cardinality(SpokenBy(hubs[n].url))
  /\ \A f \in findings : f.vex.by = "feed" => f.vex.says \in {"not_affected", "fixed"}
  /\ stage = "done" => billed \subseteq {Named(f) : f \in {g \in findings : Affected(g)}}

HonestInv == RunKept /\ FiltersKept /\ StatementsKept
=============================================================================
