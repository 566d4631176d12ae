------------------------------ MODULE FleetScan ------------------------------
(***************************************************************************)
(* One invocation of the program, from the command line to the exit status *)
(* (main.go, batch.go, haul.go): the images are read from flags, a list or *)
(* a bundle, each is scanned under its own options, the reports are        *)
(* written, statements are proposed, and the gate decides the status.      *)
(*                                                                         *)
(* One scan (analyze.Run) is an outcome: a result, or a failure.  Between  *)
(* any two steps the process may be interrupted, a file or an upload may   *)
(* fail.                                                                   *)
(***************************************************************************)
EXTENDS Reports, ImageLists, HaulStore

CONSTANTS
  Invocations,   \* the command lines: see Invocation
  Outcomes       \* the results a scan may have, in a batch and alone

\* An invocation: the images named by flag, the list or bundle named
\* (NoList, NoBundle), the options and whether they are valid, the gate, and
\* the output asked for.
CONSTANTS NoList, NoBundle

\* What a scan returns; a threshold that parseFailOn accepts; and what is read
\* in order, a file being lines or documents and not both.
ASSUME OutcomeAssumption == \A batch \in BOOLEAN : \A o \in Outcomes[batch] : WellFormed(o)
ASSUME GateAssumption == \A i \in Invocations : i.gate.rank \in Nat

IsList(s) == s \in Seq(ToSet(s))
ASSUME InvocationAssumption ==
  \A i \in Invocations :
    /\ IsList(i.images)
    /\ i.bundle # NoBundle => IsList(i.bundle.index)
    /\ i.list # NoList =>
         LET docs == i.list.docs IN
         /\ IsList(i.list.lines) /\ IsList(docs) /\ (docs = <<>> \/ i.list.lines = <<>>)
         /\ \A d \in ToSet(docs) \cup UNION {ToSet(l.items) : l \in ToSet(docs)} :
               IsList(d.containers) /\ IsList(d.items) /\ IsList(d.names)

NoResult == [findings |-> {}, failed |-> TRUE]
Running == 99
ExitGate == 3

VARIABLES inv, phase, targets, results, ran, cut, tree, bundleDir, proposed, shown, exit
vars == <<inv, phase, targets, results, ran, cut, tree, bundleDir, proposed, shown, exit>>

Targets(entries) == [i \in DOMAIN entries |->
                       [ref |-> entries[i].ref, storeRef |-> "", assert |-> entries[i].assert]]
HaulTargets(bundle) == [i \in DOMAIN Images(bundle) |->
   [ref |-> Images(bundle)[i].ref, storeRef |-> Images(bundle)[i].storeRef, assert |-> NoAssertion]]
BatchMode == inv.list # NoList \/ inv.bundle # NoBundle \/ Len(targets) > 1
At == Len(results) + 1   \* the target the loop is at
Complete(i) == results[i].scanned /\ ~Failed(results[i].result)

Init ==
  /\ inv \in Invocations
  /\ phase = "start" /\ exit = Running
  /\ targets = <<>> /\ results = <<>> /\ ran = <<>> /\ cut = FALSE
  /\ tree = {} /\ bundleDir = "" /\ proposed = {} /\ shown = {}

Goto(p) == phase' = p /\ exit' = exit
Leave(status) == phase' = "done" /\ exit' = status
-----------------------------------------------------------------------------
(* Reading the command line.  fail() leaves with status 2.                 *)
ListRefused ==
  /\ phase = "start" /\ inv.list # NoList
  /\ ~ReadImageList(inv.list).ok \/ ReadImageList(inv.list).entries = <<>>
  /\ Leave(2)
  /\ UNCHANGED <<inv, targets, results, ran, cut, tree, bundleDir, proposed, shown>>

Entries == DedupeEntries(Plain(inv.images) \o
             (IF inv.list = NoList THEN <<>> ELSE ReadImageList(inv.list).entries))

\* A flag saying how images are started beside a list that says so for each.
FlagIgnored ==
  /\ phase = "start" /\ inv.list # NoList /\ ReadImageList(inv.list).ok /\ Entries # <<>>
  /\ inv.options["from"] # Unset /\ EveryEntrySaysHow(Entries)
  /\ Leave(2)
  /\ UNCHANGED <<inv, targets, results, ran, cut, tree, bundleDir, proposed, shown>>

ImagesNamed ==
  /\ phase = "start" /\ inv.bundle = NoBundle
  /\ inv.list # NoList => ReadImageList(inv.list).ok /\ ReadImageList(inv.list).entries # <<>>
  /\ ~ (inv.options["from"] # Unset /\ inv.list # NoList /\ EveryEntrySaysHow(Entries))
  /\ targets' = Targets(Entries)
  /\ Goto("options")
  /\ UNCHANGED <<inv, results, ran, cut, tree, bundleDir, proposed, shown>>

\* haul.Open: an archive is unpacked into a directory of its own.  Close
\* removes the directory the layout was found in: all of it, or a part.
Unpacked(bundle) == IF bundle.packed THEN {Top} ELSE {}
LeftOver(bundle) == IF bundle.packed /\ bundle.unpacks /\ HasLayout(bundle)
                    THEN {Top} \ {LayoutRoot(bundle)} ELSE {}
HaulRefused ==
  /\ phase = "start" /\ inv.bundle # NoBundle
  /\ ~Opens(inv.bundle) \/ Images(inv.bundle) = <<>>
  /\ tree' = LeftOver(inv.bundle)
  /\ Leave(2)
  /\ UNCHANGED <<inv, targets, results, ran, cut, bundleDir, proposed, shown>>

HaulOpened ==
  /\ phase = "start" /\ inv.bundle # NoBundle /\ Opens(inv.bundle) /\ Images(inv.bundle) # <<>>
  /\ tree' = Unpacked(inv.bundle)
  /\ bundleDir' = LayoutRoot(inv.bundle)
  /\ targets' = HaulTargets(inv.bundle)
  /\ Goto("options")
  /\ UNCHANGED <<inv, results, ran, cut, proposed, shown>>

OptionsRefused ==
  /\ phase = "options" /\ ~inv.inventory /\ ~inv.valid
  /\ Leave(2)
  /\ UNCHANGED <<inv, targets, results, ran, cut, tree, bundleDir, proposed, shown>>

OptionsAccepted ==
  /\ phase = "options" /\ (inv.inventory \/ inv.valid)
  /\ Goto("scan")
  /\ UNCHANGED <<inv, targets, results, ran, cut, tree, bundleDir, proposed, shown>>
-----------------------------------------------------------------------------
(* The loop.                                                               *)
Interrupt ==
  /\ ~cut /\ phase # "done"
  /\ cut' = TRUE
  /\ UNCHANGED <<inv, phase, targets, results, ran, tree, bundleDir, proposed, shown, exit>>

\* The fault of one set of options shared by every image.
OptionsCarried(i) == IF inv.inventory THEN inv.options
                     ELSE Apply(targets[i].assert, IF ran = <<>> THEN inv.options ELSE ran[Len(ran)].options)

\* Every target starts from a copy of the run's options.  An inventory
\* asks nothing that an assertion could change.
OptionsFor(i) == IF inv.inventory THEN inv.options ELSE Apply(targets[i].assert, inv.options)

\* An image of a bundle is read from the unpacked tree.
Readable(i) == targets[i].storeRef # "" /\ inv.bundle.packed => Top \in tree

Scanned(o) ==
  /\ phase = "scan" /\ At <= Len(targets) /\ Readable(At)
  /\ inv.inventory => o.findings = {} /\ \A e \in o.ecosystems : ~e.failed
  /\ ran' = Append(ran, [ref |-> targets[At].ref, storeRef |-> targets[At].storeRef, options |-> OptionsFor(At)])
  /\ results' = Append(results, [ref |-> targets[At].ref, scanned |-> TRUE, result |-> o])
  /\ UNCHANGED <<inv, phase, targets, cut, tree, bundleDir, proposed, shown, exit>>

\* A failure is recorded and the loop moves on, unless interrupted.
ScanFailed ==
  /\ phase = "scan" /\ At <= Len(targets)
  /\ results' = Append(results, [ref |-> targets[At].ref, scanned |-> FALSE, result |-> NoResult])
  /\ ran' = Append(ran, [ref |-> targets[At].ref, storeRef |-> targets[At].storeRef, options |-> OptionsFor(At)])
  /\ IF BatchMode THEN Goto(IF cut THEN "scanned" ELSE "scan") ELSE Leave(1)
  /\ UNCHANGED <<inv, targets, cut, tree, bundleDir, proposed, shown>>

\* The fault of leaving the close to the paths that end in success.
AfterScanUncut ==
  /\ phase = "scanned" \/ (phase = "scan" /\ At > Len(targets))
  /\ tree' = IF \A i \in DOMAIN results : results[i].scanned THEN tree \ {bundleDir} ELSE tree
  /\ Goto("render")
  /\ UNCHANGED <<inv, targets, results, ran, cut, bundleDir, proposed, shown>>

\* afterScan, once the last image has been read: Haul.Close removes the
\* directory the layout was found in.
AfterScan ==
  /\ phase = "scanned" \/ (phase = "scan" /\ At > Len(targets))
  /\ tree' = tree \ {bundleDir}
  /\ Goto("render")
  /\ UNCHANGED <<inv, targets, results, ran, cut, bundleDir, proposed, shown>>
-----------------------------------------------------------------------------
(* The output.                                                             *)
\* The fault of forgetting the marker of an incomplete image.
RowUnmarked(ref) ==
  LET at == {i \in DOMAIN results : results[i].ref = ref /\ results[i].scanned} IN
  IF at = {} THEN [target |-> ref, scanned |-> FALSE, incomplete |-> FALSE, counts |-> NoCounts]
  ELSE [target |-> ref, scanned |-> TRUE, incomplete |-> FALSE, counts |-> Counts(results[Max(at)].result.findings)]

\* batchRows: a row per reference of the list, in order, from the failures
\* and the last result under that name.
Row(ref) ==
  LET at == {i \in DOMAIN results : results[i].ref = ref /\ results[i].scanned} IN
  IF \E i \in DOMAIN results : results[i].ref = ref /\ ~results[i].scanned
  THEN [target |-> ref, scanned |-> FALSE, incomplete |-> FALSE, counts |-> NoCounts]
  ELSE LET res == results[Max(at)].result IN
       [target |-> ref, scanned |-> TRUE, incomplete |-> Failed(res), counts |-> Counts(res.findings)]
BatchRows == {Row(targets[i].ref) : i \in {i \in DOMAIN targets : \E j \in DOMAIN results : results[j].ref = targets[i].ref}}
\* writeBatchCaveats: the images named in the banner.
NotScanned == {results[i].ref : i \in {i \in DOMAIN results : ~results[i].scanned}}

Rendered ==
  /\ phase = "render"
  /\ shown' = IF BatchMode THEN BatchRows ELSE {Row(targets[1].ref)}
  /\ Goto(IF inv.inventory THEN "verdict" ELSE IF BatchMode THEN "propose" ELSE "single")
  /\ UNCHANGED <<inv, targets, results, ran, cut, tree, bundleDir, proposed>>

\* The report could not be written, or the gist not uploaded.
OutputFailed ==
  /\ phase = "render"
  /\ Leave(1)
  /\ UNCHANGED <<inv, targets, results, ran, cut, tree, bundleDir, proposed, shown>>

\* A batch proposes from the images that were wholly read; a single scan
\* with holes has left before it proposes.
Propose ==
  /\ phase = "propose" \/ (phase = "single" /\ Complete(1))
  /\ \/ proposed' = (IF inv.vexOut THEN {i \in DOMAIN results : Complete(i)} ELSE {}) /\ Goto("verdict")
     \/ inv.vexOut /\ (\E i \in DOMAIN results : Complete(i)) /\ proposed' = {} /\ Leave(1)
  /\ UNCHANGED <<inv, targets, results, ran, cut, tree, bundleDir, shown>>
-----------------------------------------------------------------------------
(* The exit status.                                                        *)
\* The fault of counting only the images that were scanned.
ScannedFailed == \E i \in DOMAIN results : results[i].scanned /\ ~Complete(i)

BatchFailed == \E i \in DOMAIN results : ~Complete(i)

BatchGate ==
  LET at == {i \in DOMAIN results : results[i].scanned}
      sum(f) == SumOf([i \in at |-> Evaluate(inv.gate, results[i].result)[f]])
  IN [tripped |-> sum("tripped"), unweighable |-> sum("unweighable")]

Verdict ==
  /\ phase = "verdict" \/ (phase = "single" /\ ~Complete(1))
  /\ Leave(IF BatchFailed THEN 1
           ELSE IF ~inv.inventory /\ inv.gate.on /\ BatchGate.tripped > 0 THEN ExitGate ELSE 0)
  /\ UNCHANGED <<inv, targets, results, ran, cut, tree, bundleDir, proposed, shown>>

Done == phase = "done" /\ UNCHANGED vars

Next == \/ ListRefused \/ FlagIgnored \/ ImagesNamed \/ HaulRefused \/ HaulOpened
        \/ OptionsRefused \/ OptionsAccepted
        \/ Interrupt \/ (\E o \in Outcomes[BatchMode] : Scanned(o)) \/ ScanFailed \/ AfterScan
        \/ Rendered \/ OutputFailed \/ Propose \/ Verdict \/ Done

Spec == Init /\ [][Next]_vars
-----------------------------------------------------------------------------
(* Properties.                                                             *)
Finished == phase = "render" /\ Len(results) = Len(targets)
ResultsAt(p) == IF phase = p THEN {results[i].result : i \in {i \in DOMAIN results : results[i].scanned}} ELSE {}

\* What the input asks, occurrence by occurrence.
Asked ==
  {[ref |-> inv.images[i], how |-> NoAssertion] : i \in DOMAIN inv.images} \cup
  (IF inv.list = NoList THEN {}
   ELSE {[ref |-> inv.list.lines[i].name, how |-> LineAssertion(inv.list.lines, i, inv.list.from)] :
            i \in {i \in DOMAIN inv.list.lines : inv.list.lines[i].kind = "image"}}
        \cup {[ref |-> c.image, how |-> K8sAssertion(c, inv.list.from)] : c \in ToSet(Containers(inv.list.docs))}
        \cup {[ref |-> n, how |-> NoAssertion] : n \in ToSet(HaulerNames(inv.list.docs)) \ {""}})

(* Every image the input names, at any place in it, is scanned, once, and  *)
(* under exactly what each of its mentions says: a list is refused rather  *)
(* than one of two different statements dropped, and no image is scanned   *)
(* under what was said of another.  An image of a bundle is read under its *)
(* own name in the store.  Of a file that is a workload manifest and a     *)
(* hauler manifest at once it does not hold: the names of the second are   *)
(* left out without a word.  (parseImageList, k8s.Dedupe, dedupeEntries,   *)
(* scanBatch's copy of the options)                                        *)
TwoManifests == inv.list # NoList /\ LooksLikeK8s(inv.list.docs) /\ ToSet(HaulerNames(inv.list.docs)) \ {""} # {}
ScannedAsAsked ==
  Finished /\ ~inv.inventory /\ ~TwoManifests =>
    IF inv.bundle # NoBundle
    THEN [i \in DOMAIN ran |-> ran[i].storeRef] = [i \in DOMAIN Images(inv.bundle) |-> Images(inv.bundle)[i].storeRef]
    ELSE /\ \A d \in Asked : \E i \in DOMAIN ran : ran[i].ref = d.ref
         /\ \A i, j \in DOMAIN ran : ran[i].ref = ran[j].ref => i = j
         /\ \A i \in DOMAIN ran :
              LET said == {d.how : d \in {d \in Asked : d.ref = ran[i].ref}} \ {NoAssertion}
              IN IF said = {} THEN ran[i].options = inv.options
                 ELSE \A how \in said : ran[i].options = Apply(how, inv.options)

(* The exit status says what happened: 0 and the gate's status are given   *)
(* only when every image asked for was scanned without a hole; after 0 no  *)
(* affected finding the gate weighs is at or above its threshold, in any   *)
(* image; after the gate's, one is.  (runBatch, main)                      *)
ExitIsHonest ==
  exit \in {0, ExitGate} =>
    /\ \A i \in DOMAIN targets : i \in DOMAIN results /\ Complete(i)
    /\ inv.gate.on /\ ~inv.inventory =>
        LET rows == UNION {results[i].result.findings : i \in DOMAIN results} IN
        IF exit = 0
        THEN \A f \in rows : BucketOf(f) = "AFFECTED" /\ "affected" \in inv.gate.classes => RankOf(f) > inv.gate.rank
        ELSE \E f \in rows : Classify(f) \in inv.gate.classes /\ RankOf(f) <= inv.gate.rank

(* The roll-up has a row for every image asked for, marked when it was not *)
(* scanned or was scanned with holes, and its total counts every finding.  *)
(* Of an interrupted batch, and of a bundle with two images under one      *)
(* reference, it does not.  (batchRows, writeBatchTable)                   *)
TableAccounts ==
  phase = "verdict" /\ BatchMode /\ ~cut /\ Cardinality({targets[i].ref : i \in DOMAIN targets}) = Len(targets) =>
    /\ \A i \in DOMAIN targets : \E r \in shown :
         r.target = targets[i].ref /\ r.scanned = results[i].scanned /\ (r.scanned => r.incomplete = Failed(results[i].result))
    /\ {r.target : r \in {r \in shown : ~r.scanned}} = NotScanned
    /\ \A b \in DOMAIN NoCounts :
         SumOf([r \in shown |-> r.counts[b]]) =
         SumOf([i \in DOMAIN results |-> Counts(results[i].result.findings)[b]])

(* An unpacked bundle is there while an image is still to be read from it, *)
(* and gone when the process ends, after whatever failure or interrupt,    *)
(* but for two exits at which the code leaves it behind: the layout lies   *)
(* below the top of the archive, or the options are refused once the       *)
(* bundle is open.  (openHaul, Haul.Close, afterScan)                      *)
BundleHeldThenReleased ==
  inv.bundle # NoBundle /\ inv.bundle.packed =>
    /\ phase = "scan" /\ At <= Len(targets) => Top \in tree
    /\ phase = "done" /\ Top \in inv.bundle.layouts /\ (inv.valid \/ inv.inventory) => tree = {}

(* Every result a report is made from: the formats agree on what is open, *)
(* the fix plan clears it, the summary and the gate count it as the report *)
(* does, and the text report reads no cleaner than the scan.               *)
ReportsAgree ==
  \A res \in ResultsAt("render") :
    FormatsAgree(res) /\ PlanClears(res) /\ SummaryAgrees(res) /\ GateAgrees(res) /\ TextLooksNoCleaner(res)
=============================================================================
