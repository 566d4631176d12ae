# A verification development of vexscan

vexscan takes a container image, a root file system, rpm files, an SBOM or a
source checkout, finds the components in it, asks an advisory source what is
known about them, and tries to show for each advisory that the code is absent
or cannot run. Its one unforgivable error is a clean verdict that is not true:
`report.go`, the analyzers and the overlays all say so. The models here follow
that concern through the program: from the HTTP batch that brings the
advisories, over the closures and inventories a verdict is drawn from, to the
documents a verdict is published in and the status a fleet exits with.

Paths below are relative to the repository root, those without a directory to
`src/`. `PROJECT.json` maps every definition to the lines it translates.

## 1. Inventory

| part | source | state it keeps | what it does, and what is hard | what makes it correct |
|---|---|---|---|---|
| Advisory batch client | `internal/osv/osv.go` 400-541, 801-861 | answers per component, records fetched, first error, token channel | lists ids chunk by chunk, then fetches records in a bounded pool that cancels itself at the first failure; retries with backoff inside each request | whole or nothing; the blamed error is the cause; bounded; always returns |
| Records and ranges | `osv.go` 560-800, `customranges.go`, `compare.go` | maps of id to advisory | index by id, alias and upstream; borrow ratings; set aside Go records that their custom ranges exclude | an id's own record outranks a bundle; ratings stay with their vulnerability and fill only what was left empty; nothing in range is dropped |
| Offline export | `internal/osv/local.go` | index of a zip, counts of unordered matches | does the range arithmetic osv.dev does online | agrees with the schema, errs toward reporting |
| Version comparators | `rpmver`, `debver`, `apkver`, `pep440`, `mavenver` | none | compare versions by five sets of rules | a total preorder each; antisymmetric whichever side a tail is on |
| Resolver | `internal/analyze/analyze.go` 1449-1850 | per-scan cache, freshness time, failures | prefetch in a batch, fall back to single lookups, share between analyzers; the key does not hold all of a component's names | what a component gets is what is listed for some component of its key, up to logged failures; one answer per key; freshness is conservative |
| Scan pipeline | `analyze.go` 702-1180, overlays beside it | trees opened, findings, counts, statuses per ecosystem | six modes; each step may fail; overlays and filters run in one order | no tree leaks; silence is never failure; no unsupported clean; filters hide only what they may |
| Distribution feeds | `internal/distrofeed/**` | SUSE index, document cache, semaphore; Debian tracker | concurrent documents under a mutex and a semaphore, remembered outcomes, two passes | an outage is not "no record"; one download each; a clear fails closed |
| Shared-library closure | `internal/elfgraph` | roots, nodes, pending plugins, taints | where execution starts, what the loader would load, what cannot be known | an object outside the closure cannot be loaded unless a taint says so |
| OS package analyzer | `internal/ecosystem/ospkg` | prepared package, symbol caches | turns closure and symbols into a verdict | each of two claims is gated by the taints that bear on it |
| Image extraction, file system | `internal/image`, `internal/target` | a directory, unreadable paths | layers in order, whiteouts, symlinks inside the tree | the tree is the one a runtime would see |
| Import closures | `internal/modgraph`, `ecosystem/npm/node.go`, `ecosystem/pypi/python.go` | reached files, edges, taints, a queue | breadth-first from what the command line starts, over a resolver per language | closed, or the hole is on record; nothing loadable is called out of path |
| Language verdicts | `ecosystem/{npm,pypi,maven}`, `langdb` | none | inventory, then verdict by increasing cost, with hints mined from an advisory's text | absence only where everything was read and named |
| Go analyzer | `ecosystem/golang` | versions recovered per module | versions from build info, linker flags, image tags; govulncheck's statements | no exposure lost to a version read too high, none invented |
| Fleets | `main.go`, `batch.go`, `haul.go`, `internal/haul`, `imagelist.go`, `k8smanifest.go`, `haulmanifest.go` | one result per image, an unpacked bundle, the exit status | images from flags, lists, manifests and bundles, some failing, an interrupt at any time | each image scanned as its mentions say; status and table never hide a failure; the bundle is released |
| Gates and reports | `failon.go`, `fixplan.go`, `report.go`, `summary.go`, `sarif.go` | none | exit code, fix plan, tables, SARIF | every format says the same of one result's findings; the text says what is missing |
| VEX reading and export | `internal/vex`, `internal/vexpr`, `internal/csaf`, `analyze/vexhub.go` | a hub's index and documents | match findings to statements; merge ruled-out findings back into either format | nothing published is lost, no vendor is overruled; what is written is found again |
| LLM client | `internal/llm` | answer cache, throttle | assessments and mined symbols, cached, retried | an assessment never changes a status |
| EPSS, KEV, NVD | `internal/triage`, `distrofeed/nvd` | disk and memory caches | aged caches, throttle | stale or missing data is said to be so |
| Inventories by parsing | `pkgdb`, `lockfile`, `lockmode`, `sbomsrc`, `rpmsrc`, `source` | none or a checkout | databases, archives and lock files | nothing installed is missed |

How they interact: `main` builds the options and a context that an interrupt
cancels, reads the fleet and loops over its images one after another;
`analyze.Run` opens the target, builds one resolver, runs the analyzers of the
mode in turn with it, and passes the findings through the overlays. The
resolver calls the batch client, the overlays the feeds, hubs and the LLM. The
OS analyzer builds the library closure once per image and asks it about every
package, the npm and PyPI analyzers likewise with the import closure. When all
results are in, the reports are rendered, statements proposed to the hub and
the gate decides the status. Goroutines run in the hydration pool, the SUSE
document fetch, the EPSS/KEV loads and the LLM miner; everything else is
sequential, and there what is hard is failure between two steps, ordering, data
read late, and boundary arithmetic.

`PROJECT.json` lists the hazards with their lines; those no property covers
say why.

## 2. Modules

| module | models | state and actions against the code |
|---|---|---|
| `BatchAnswer` | what `QueryBatch` promises | one variable: pending, then a whole answer or an error |
| `QueryBatch` | `Client.QueryBatch`, `batchIDs`, `hydrate`, `retry`, `do` | one program counter per goroutine, the poster included; `Spawn`, `Acquire`, `Attempt`, `Reply`, `Backoff`, `Record`, `Release` are the goroutine's lines in order, `HydrateDone`/`HydrateFailed` the join, `Interrupt` the signal context of `main` |
| `VersionRanges` | `sweep`, `affects`, `misranged` | operators over sets of range events, taken last boundary first |
| `AdvisoryRecords` | `buildMap`, `indexUpstream`, `borrowSeverity`, `merge`, `severities` | one `Query` per name of a component, `Cache`, then one `Visit` per cached advisory in any order: Go's map order |
| `VersionOrders` | the five comparators and `ecosystemComparator` | operators over versions as sequences of tokens |
| `RangeSweep` | `sortEvents`, `sweep` of the offline match | `Sort` (the insertion sort of a short `SliceStable`), `Boundary` per event, `Unordered` and `Incomparable` the matches by default |
| `Resolver` | `newResolver`, `prefetch`, `lookup`, `items` | `Prefetch` per analyzer (all of the batch or none), `Lookup` per component in inventory order, `NextAnalyzer` |
| `DistroVerdicts` | both `statementFor` functions, the worst score | operators over what was read |
| `DistroFeed` | `fetchAll`, `document`, `index`, `Scores`, `Lookup`, `distroOverlay` | one program counter per document goroutine, the semaphore, the index under its mutex, the cache, `Cancel` |
| `ScanPipeline` | `Run`, `runTree`, plugins' guard, overlays | `stage` is the next line of `runTree`; each step succeeds or takes its error return, and `Leave`/`Abort` run the deferred cleanups |
| `ElfClosure` | `elfgraph.Build` and `ospkg.evaluate` | `MarkPlugins`, `MarkUserRoots`, `MarkEntrypoint`, `ProbeExec` are `markRoots` in order; `StartWalk`, `Visit`, `Skip`, `AdmitPlugins` the queue of `walkClosure`; `CollectTaints`; `Verdict` is the package's row |
| `RootFS` | `target.Resolve`, `ResolveParent`, `DirFS.Walk`, `note` | operators over a tree, a function from paths to nodes: the loops of `Resolve` and `path.Clean` as recursive functions |
| `ImageLayers` | `image.ExtractSource`, `untar` and its helpers, `DirFS` | `BeginLayer`, `ReadEntry`, `EndLayer` are the loops over layers and entries; `TooLarge`, `StreamBreaks`, `WriteFails`, `MissingLayer` what goes wrong in them; `Walk` adds to the one account of the tree |
| `ModuleFiles` | what the language analyzers share | paths as sequences of components, the reading of a command line |
| `NodeLanguage`, `PythonLanguage` | `modgraph.Language` of npm and PyPI | `Roots`, `Imports`, `Resolve` as operators of an image: `node_modules`, `exports`, scopes of a computed require; `sys.path` with `.pth` files, packages and namespaces |
| `ModuleGraph` | `modgraph.Build`, `TaintsFor` | `TakeRoots`, `Visit`, `VisitUnreadable`, `Finish` are `Build` and its queue, `Skip` a scan that needs no closure; the language is a constant operator |
| `LangInventory` | `langdb`'s readers of npm, PyPI and Maven trees | operators: packages in order, what was unreadable, what could not be named |
| `PackageVerdicts` | `evaluate` of the npm, PyPI and Maven plugins | operators over the state of `ModuleGraph`, `LangInventory`'s answer and mined hints |
| `GoModules` | the Go analyzer | operators: each source of a version, grouping, verdicts for a binary and for govulncheck's word on source |
| `HaulStore` | `internal/haul`, `haul.go` | operators: which entries of a bundle are images, under which name, how it opens |
| `ImageLists` | `imagelist.go`, `internal/k8s`, hauler manifests | operators: entries in order or a refusal; assertions merged by mention |
| `Reports` | text, summary, fix plan, SARIF, gate | operators: the facts each format states of one result |
| `FleetScan` | `main`, `batch.go`, `haul.go` | reading (`ListRefused`, `FlagIgnored`, `ImagesNamed`, `HaulOpened`, ...), `OptionsAccepted`, one `Scanned` or `ScanFailed` per image, `AfterScan`, `Rendered`/`OutputFailed`, `Propose`, `Verdict`; `Interrupt` between any two |
| `VexDocuments` | `internal/vex`, `internal/csaf`, the merges of `internal/vexpr` | operators: match a finding against a document, add claims to one, in both formats |
| `VexProposals` | `vexOverlay`, `ProposeAll`, `selectProposals`, the index, `Plan.Write` | `Scan`, `Publish` (the vendor, meanwhile), `Propose`, then one write at a time, each of which may be the last or torn |
| `Selections` | loops that keep some elements of a list | what is kept is said by its places, so that it can be reasoned about |
| `*Proofs` | | theorems: section 5 (`ImageProofs` is about `ImageLayers`, `RootFS` and `ModuleGraph`, `ScanPipelineProofs` about `ScanPipeline` and `DistroFeed`, `VexProofs` about `VexProposals` and `VexDocuments`) |
| `MC*` | | the instances TLC checks |

`BatchAnswer` is an abstract specification that `QueryBatch` implements, safety
and liveness. `Resolver` takes from it that a batch is whole or fails; it stands
in `Resolver` as the single action `Prefetch`, which the refinement justifies.
`ScanPipeline` treats the resolver, the analyzers and the feeds as steps that
return anything their own modules allow, and `FleetScan` a whole scan as an
outcome. `AdvisoryRecords` uses `VersionRanges`, `DistroFeed` uses
`DistroVerdicts`, `ImageLayers` uses `RootFS`, `PackageVerdicts` composes
`ModuleGraph` with both languages, `FleetScan` composes `ImageLists`,
`HaulStore` and `Reports`, `VexProposals` writes with `VexDocuments` what it
reads with it in the next run. `RangeSweep` takes a comparator as a table of
its answers, which `MCVersions` fills from `VersionOrders`.

Three verdicts are checked against a definition of their own that shares none
of the code's shortcuts. `ElfClosure` defines what a set of running processes
may load (`Loadable`): a fixpoint over every chain of DT_NEEDED with the
DT_RPATH each chain hands down, the plugins of a loaded loader, and whatever an
unanswered `dlopen` caller chooses. `MCLanguages` defines what a Node or Python
program really loads (`TrueLoaded`): the interpreters' own rules for finding a
module, everything where it cannot be known; and, for Go, which version each
binary truly links.

## 3. Runs

| run | instance | states | shows |
|---|---|---|---|
| `query_batch` | 3 refs in chunks of 2, 3 ids (one shared), 2 tokens, 2 attempts for a request | 50,172 | the pool in every interleaving with failures, retries, the pool's own cancellation and an interrupt; refinement of `BatchAnswer`, so the call always returns |
| `advisory_records` | every pair of records over aliases, bundles, imports and ratings stated, absent or unreadable, with three second answers; every range of up to 3 events over 3 versions and an unorderable one, pairs of ranges, custom ranges | 142,068 | indexing, borrowing, merging, the map-order walk, the offline match |
| `resolver` | 4 inventories, 7 components of 6 keys: shared, doubly named, nameless, without an ecosystem, single, and two of one key under different names | 814 | any batch and any lookup may fail |
| `distro_feed` | 4 CVEs, 4 findings with a bundle of three CVEs, 2 slots, both distributions | 24,062 | score pass, then verdict pass, with failing downloads and cancellation |
| `scan_pipeline` | 7 option sets over the 6 modes, 2 plugins with up to 3 result sets each, 3 advisories, 2 hubs | 6,770 | each step failing or not |
| `elf_closure` | 17 objects, 213 scans: 8 command lines, 3 sets of `--roots`, the exec policy, 3 prober answers; 5 dlopen assertions with 3 sets of callers | 5,967 | 9 packages and 8 symbol outcomes judged in every final state |
| `image_layers` | images of up to 3 of 16 layers over paths of 3 names, 5 bytes of budget, one failing write; a root file system of 9 nodes with each set of up to 2 missing rights, 2 walks | 177,725 | layers against the union a runtime mounts; links; the account of the unreadable |
| `language_closure` | 2,937 scans: Node and Python images over command lines, `.pth` files, computed names, unread files and broken manifests; Java images of nested archives; Go binaries and govulncheck's statements; mined hints | 22,354 | the closures closed or holed on record, verdicts against what a program really loads, Go versions against what a binary really links |
| `fleet` | up to 3 images from flags, 13 lists, 11 manifests and 12 bundles; 4 gates; four results or a failure per image of a batch, any subset of 8 findings for an image alone | 51,615 | whole invocations with an interrupt between any two steps, from the command line to the status |
| `vex_out` | 2 runs, 3 products, 2 formats, with and without an aggregate; documents absent, exact, loosely spelled, with and without dates, naming by `@id` alone, CSAF, the program's own, unreadable; failed fetches | 52,405 | a vendor that publishes meanwhile, a stop or a torn file at any write |
| `version_order` | 8 to 12 versions of each of five ecosystems, one for each rule of its comparator, in ranges of 2 and 3 events listed in any order | 37,181 | the order laws, and the offline sweep against the OSV schema |
| `bundle_suppressed` | as `distro_feed` | 74 | the finding of section 6 |

What the properties say, run by run.

* `query_batch`. `AllOrNothing`: an answer has every id listed for every ref.
  `BlameIsGenuine`: the error returned is the one that cancelled the pool, not
  one the cancellation caused. `NoRequestAfterFailure` (of steps), and
  `Implements`.
* `advisory_records`. `RecordsFindable`: an id's own record is found under it
  whatever bundles mention it, and each record under each of its ids.
  `RatingsAreFair`: a borrowed rating belongs to the same vulnerability; an id is
  left unrated only if no record that has it rates it, or if a rating that
  cannot be read is in the field that would be filled (`Fill` tests for an empty
  text, as the code does); and the order of the map does not decide.
  `LocalMatchSound`.
* `resolver`. `CacheFaithful`: a work item holds what is listed under the names
  of the component its key was asked for (`askers`), short only of logged
  failures. That is the item's own component unless another with the same key
  and other names came first; then what its `Name` lists is there, and what only
  its own `AltNames` would find is not. `AsOfConservative`,
  `EveryComponentPaired`.
* `distro_feed`. `OutageIsNotSilence`, `OneDownload`; `ClearsJustly`: what is
  cleared each document that was read clears, and a hub's word stands;
  `PassesEnd`.
* `scan_pipeline`. `TreesReleased`, `NoFalseClean`, `WithheldJustly`;
  `ReportIsHonest`: an ecosystem that is said to be clean was read, and the
  counts are of what is shown.
* `elf_closure`. `UnreachableIsUnloadable`, `AbsenceIsComplete`,
  `ThreatsAreSaid`, `BuildEnds`.
* `image_layers`. `ResolvesPlainly`, `SkippedIsNoted`; `ImageIsUnion`: of the
  layers whose blob was there, where every write succeeded. The code also scans
  images of which that is not true (section 6); nothing is claimed of those.
* `language_closure`. `NothingPassedOver`: the closure has what its roots and
  files import, and each hole is a taint. `UnreachedIsUnloadable` and
  `AbsenceIsComplete` judge `not_in_path` and `not_present`. `GoTruthful`: an
  exposure is said, a module said to be linked is below the fix, a recovered
  version is marked as such, a targeted scan agrees with a full one, and a
  verdict from source is govulncheck's.
* `fleet`. `ScannedAsAsked`: each image once, under the options its mentions
  give, or none. `ExitIsHonest`: a status of 0 says no hole and nothing for the
  gate. `TableAccounts`; `BundleHeldThenReleased`, which names the two exits that
  leave the bundle behind; `ReportsAgree`: text, summary, plan, SARIF and gate
  say the same of a result's findings, and the text, which alone has room for
  caveats, reads no cleaner than the scan (`TextLooksNoCleaner`).
* `vex_out`. `PublishedIsKept` and `IndexBacked`. `NeverOverrules`: no claim
  turns a reader away from a vendor's word; where a merge redates what the vendor
  left undated, the reader is turned by the vendor's own earlier statement
  (`SaidBefore`), which the property leaves out. `RoundTrip`: the next run finds
  what this one wrote, but for a claim held back for a statement that covers it
  by its `@id` alone (`ByIdAlone`). All of steps, over both runs.
* `version_order`. `VersionsAreOrdered`, `MatchesSchema`.

Why the bounds are enough. Two tokens for three records leave one goroutine
waiting while two run, so a goroutine can wake after a failure and two failures
can race; chunks of two over three refs have a full and a short one, and the
shared id crosses them. The property of a pool, a cache or a bundle concerns at
most three parties (the one that fails, the one that was there first, the one
that comes late); every instance has them, and so do three images in a row: one
done before the failure or the interrupt, the one it meets, one never reached.
Range arithmetic depends only on the order of boundaries and version, so three
versions with one below, at and above each boundary realise each order of up to
three events. The image of `elf_closure` has one object for each line of
`markRoots`, `admitPlugins`, `resolve` and `collectTaints` that decides
something, and a cycle of libraries. Each layer of `image_layers` does one thing
`untar` treats specially, and three of them are the one that was there, the one
that changes it and the one that comes back to it. The language images have a
file or a manifest for each branch of the resolvers, and nesting to
`MaxNPMDepth`, 3, where the code's 64 cuts off the same way. What a run writes
the next one reads, so `MaxRuns` is 2. Versions are chosen one to a rule of the
comparator, with numbers at and past `MaxInt`, 9, standing for the width of a
machine integer where the code saturates.

TLC checks for deadlock except in `image_layers`, `language_closure`,
`vex_out` and `version_order`, whose systems end: an image is extracted, a
verdict given, the last run written.

Every property has a mutant in `PROJECT.json`: a definition changed the way a
slip in that code would change it, which breaks the property under its run.

## 4. Fairness

A Go call returns and its goroutine goes on, so each goroutine of `QueryBatch`
and the document fetches and passes of `DistroFeed` have weak fairness of their
own next step; an HTTP request ends because its context or the client's timeout
ends it. `Resolver` and `ElfClosure` are one goroutine that never blocks: weak
fairness of its steps. `BatchAnswer` promises an answer in the end. No fairness
is assumed of failures, interrupts or cancellation. The other modules claim
safety only.

## 5. Theorems

TLAPS proves these for every value of the constants that the named assumptions
allow. Each `IInv` is shown to hold at the start and to be kept by each action,
one lemma to an action, with a step for each conjunct the action can disturb.
TLC checked each invariant on a run before its proof was begun.

The library's induction theorems take an operator, which no prover here can
instantiate. Where a proof speaks of lists or sums of any length, induction is
done with a set of numbers, or of subsets of a finite set, and the least member
outside it (`NumberInduction`, `SubsetInduction`); a recursive function is first
shown to exist up to each length and then known by its equation. The loops that
are reasoned about this way are recursive functions or selections by place in
the models, never folds.

`OsvProofs` is about the advisory client: its batches, the comparators, and the
sweep of the offline match.

The batches (from `SizesAssumption`: positive sizes; `IdsAssumption`:
finitely many ids that are not the poster, listings of them). Beside types
`IInv` says that tokens and holders agree (`TokensHeld`), that what is listed
so far is a prefix of whole chunks (`ListedPrefix`), that a goroutine that has
settled without an error has stored its record (`SettledIsStored`), that the
pool's context is cancelled only after an error is recorded
(`CancelFollowsFailure`), and how many attempts are left. `AllOrNothing` alone
is not inductive: the answer is assembled from records, and only
`SettledIsStored` together with the join condition says they are all there.
From it follow `TypeCorrect`, `NoPartialAnswer`, `BlameCorrect`, `PoolBounded`,
`FailureStopsRequests` (an action property) and `ImplementsSafety`: initial
states map to initial states of `BatchAnswer` and each step to a step of it or
to none.

The comparators (`MaxIntAssumption`). `ComparatorsOrder` states
`VersionsAreOrdered` for any finite table whose entries are what the ecosystem's
comparator answers for versions of it (`OfComparator`). The heart is `Agree`:
what two comparisons say of three versions, the third says too, ties included.
It passes from the parts to the whole in two ways: a decision by several places
in turn agrees where each place does, and lists that are padded with what a
comparator takes to be beyond their end agree where the padded tokens do. What
remains is an order of tokens for each ecosystem: dpkg's characters with `~`
before the end; rpm's segments with `^` and `~`; apk's lexemes with the kind that
each one's predecessor leaves for it (`KindAt`); PyPI's releases without trailing
zeros, phases, and local versions part by part. For rpm the versions of a table
state the same of epoch and release (`StateTheSame`): the code leaves a release
out of the comparison where one side has none, so that `1` ties with `1-1` and
with `1-2`, which do not tie.

The sweep (`CasesAssumption`: a listing is a list of events, a table has a
number for any two readable versions). `SweepMatchesSchema` says `[]MatchesSchema` of every behaviour
whose table is ordered, `OfflineMatchIsTheSchemas` puts the two together.
`SweepIInv` says that the insertion sort has the same events in order so far
(`Arranged`), that `hit` is what the last boundary passed says of the version
(`InsideAfter`), and that a version without an order has met no boundary but the
open bottom. The schema speaks of sets of boundaries and the code of a sorted
list with ties; `Arranged` and the order of the table carry one to the other.

`ResolverProofs` (`KeysAssumption`: namings without repetition, as `queryNames`
makes them, listings, inventories, and a key for each component, of which
components that share it have the same `Name` and nothing else in common). `IInv` is types,
`AsOfConservative`, `ResolvedOnce`, `UnknownIsEmpty` (a key not in the cache has no advisories) and
`ItemsFromCache` (a component that has been paired has what the cache holds for
its key). From it: `TypeCorrect`, `FreshnessIsConservative`, `AskedOnce`,
`OneAnswerPerKey`. `AnswersKept` stands on it: `CacheAsked` (each key that is
cached was asked for some component, and holds what that one's names brought),
`GatheredSoFar` (what is gathered for the component at hand is what the names asked so far
brought) and `MissesAreSettled` (a failure is only ever on record for a
component that is cached since, or for the one being asked about). For a batch
the proof shows that the span of each component in the flattened request holds
its own names (`RefsInPlace`, `MergedIsListed`); by name it needs that no name
is asked twice, or an answer could be counted as missed. From it:
`CacheIsFaithful`: a component with the names of the one that was asked for has
all of its own, and any other has what the `Name` they share lists.

`ScanPipelineProofs` (`PipelineAssumption`, `PluginAssumption`: what a plugin
may return). `IInv` is types, `TreesKept` (which trees may exist at each stage)
and `CleanSupported` (a clean row past the guard is proven and untainted, or
carries a statement). From it: `TypeCorrect`, `NoTreeLeaks`,
`NoFalseCleanReported`. `HonestInv` stands on it: `RunKept` (the account is what
happened to each analyzer), `FiltersKept` (what each filter took out and let
through, by the ratings and fixes the rows have from then on, and no requested
id lost) and `StatementsKept` (each hub's count is that of the rows it has
spoken to). From it: `AccountsKept`, `FiltersAreJust`, `ReportsAreHonest`,
whatever plugins return and feeds, hubs and the model say.

The feed, in the same module (`FeedAssumption`: finitely many CVEs, bundles of
them, at least one slot). `FeedIInv` is types, `IndexLocked` (one goroutine asks for the
index, and no one knows it meanwhile), `IndexKnown` (what an index says is what
SUSE has), `DownloadsCounted` (a goroutine about to download found nothing
remembered), `OutageIsNotSilence`, `SaidAtTheEnd` (no finding has more than a
hub's word before the verdict pass ends) and `ClearsJustly`. `OneDownload`
needs the second and fourth: that a count is at most one follows from what a
goroutine read before it asked. From it: `FeedTypes`, `NeverSilenced`,
`DownloadedOnce`, `FeedClearsJustly`, `SlotsKept`, for any number of CVEs,
goroutines and slots.

`ImageProofs` holds what is proved of an image's files: its tree, and the closure
of what the modules in it import.

The tree (`RootFSAssumption`: ".." is no name; `LayersAssumption`: layers are
sequences of entries, sizes are numbers, a user's root file system is a tree).
First what `Resolve` and `Clean` compute, by induction over the cursor of the
loop: the cursors are well-founded by the links left to follow and the names left
to look at, so a path has one place at most, on no link, and the names after a
prefix go on from where the prefix leads (`PlainlyResolved`; from it
`PathsResolvePlainly`, which the run checks for paths of up to three names and
the lemma states for all). The lookup of a user without all rights agrees with it
wherever it gets to; where it does not, the place it stopped at is a gap
(`SkippedLemma`, the heart of `WalksAreAccountedFor`). Then what one entry makes
of a tree: for an entry that fits behind those before it the result is one tree,
that of the layers below with the entries so far over it and this one as well
(`EntryMade`, one lemma per type of entry); and a whole layer over a union is the
union with that layer (`UnionOver`). `IInv` is types, `LayersKept` and
`WalksKept`. `ImageIsUnion` speaks of the end only; `LayersKept` holds the tree to
the union from layer to layer and from entry to entry. `TreeTypes` needs no
well-formed layer: any entries in any order leave a tree.

The closure assumes nothing of the language: its roots, imports and resolver are
arbitrary operators. `BuildIInv` is types, `Queued` (what the roots are and what
a read file imports is reached or queued), `Staged` and `HolesRecorded`.
`ClosureClosed` speaks of the end only; `Queued` is what carries it through the
walk. From it: `ClosureTypes`, `ClosureIsClosed`, `HolesAreRecorded`,
`NothingIsPassedOver`, `UnblockedIsKnown` (what `not_in_path` rests on: where no
taint blocks a package's names, each reached file was read and nothing unresolved
goes by one of them), and the action property `TaintsOnlyGrow`.

`FleetScanProofs` has four parts. The first is about data: sums, lists that are
filtered or laid end to end, first occurrences. The second is about one result
and its formats (`ReportsDoAgree`, of the text alone where it speaks of caveats;
`OutcomeAssumption`: a result is `WellFormed`, as a scan of an image leaves it). The third is about the readers
of lists, manifests and bundles, up to the loop (`AsksAreHonoured`;
`InvocationAssumption`: a file is lines or documents, read in order). The
property leaves out `TwoManifests`, a stream that is a Kubernetes and a hauler
manifest at once, of which the code reads only the first: section 6. The fourth
is the run: `IInv` is `Paired` (each result goes with the account of one scan,
in order), `NothingCarried`, `Unpacking`, `LoopLeft` (a phase after the loop is
reached at its end or with a failure on record) and `StatusCoversAll`, and
`RInv` adds that each result is of its own target and that the table and the
gate say what the loop left. From them: `BundleIsReleased` (with the property's two
exceptions), `OptionsAreItsOwn`,
`StatusIsEarned`, `TablesAccount`, and `ExitsAreHonest`, which needs that the
gate's sum over the findings of each result is 0 only where no finding trips it
(`GateAssumption`: its rank is a number).

`ElfClosureProofs` (`ClosureAssumption`: finite lists of the image's objects,
probers and packages). `IInv` is types, `Fresh`, `PluginsKept` (a plugin that
waits for a library waits, is a root or is loaded), `UserRooted`, `EntryRooted`,
`Probed` (what the earlier stages of `markRoots` leave for the later ones),
`Walked` (what a visited object makes the linker load, along the first chain
that led to it, is visited or queued), `Settled` (once the walk is over no
plugin is left whose loader is loaded) and `Collected` (which taints the end
adds, and that no earlier step says them). `ClosureClosed` and `ThreatsSaid`
read it at the end of `Build`. For the verdicts the proof follows the rounds of
loading by induction: each round stays within the closure, or a blocking taint
says it may not. `UnreachableUnloadable` has two premises that the code does
not establish and the proof uses at one place each; the instance satisfies both
(`MeetsPremises`). `RPathsAreOwn`: no chain finds an object something that the
object's own DT_RPATH does not; `walkClosure` keeps the first chain's DT_RPATH.
`OneFamily`: the plugins of a loader's directories wait for one library;
`rootedPluginDirs` takes any of them for all. `AbsenceComplete` needs neither.

`AdvisoryRecordsProofs` (`InputAssumption`: answers are lists of records, and
"none" is no advisory's id). `LocalMatchIsSound` rests on `SweptIsInRange`: for
every finite set of boundaries the sweep answers what the schema says, because
the boundary taken last is after all others and decides as `OneMore` says.
`RatingsAreJust` rests on `Lending`, kept by each record that lends its ratings
in turn (`LendingGoesOn`): what an advisory has borrowed comes from a record
linked to it, or from one linked to such a record and from nowhere further, and
it has something, readable or not, wherever a record that lent to it has
(`HasRatings`). It is two links and not any number because a record that takes a name from one
before it carries import paths and the other does not, so the one before had
taken nothing and borrowed nothing when it lent. The run's `IInv` is types,
`AnswersIndexed` (each name asked has its index, corrections and notes),
`RatedSoFar` (each id has the most severe of what the visited advisories say of
it, which names no order) and `WalkInPhase`. From it also: `RecordsAreFound`.

`VexProofs` (`HubAssumption`). That a run takes nothing out of the hub comes down
to one fact, that a merge only adds: what a document says, with the reasons it gives, it says afterwards.
For OpenVEX that is a list that grows (`StatementsMerged`). For CSAF
(`AdvisoryMerged`) it is less plain, since a claim is entered among vulnerabilities
that are there, its id appended to a status list and to a flag: a reader reports
one statement for all product ids that share a reason, and takes the reason from
the first flag that applies. `ClaimAdded` shows that no id known before is
resolved otherwise, that a flag without products is never given any, which would
narrow it, and that an id the entry lists already is not entered again, so that
its reason stays. `PlanIsPlanned` then says what a plan is: changes that each amend
the document at their place, at places of their own or with the same content, and
an index last whose every new entry is on disk or earlier in the plan.
`PlanGoesOn` says that what is left after a write is such a plan for the hub as
it is now; this, not any property of the plan alone, is what survives a stop
between two writes, and it is why `IInv` speaks of `plan`, `index` and `disk`
together. Beside it `IInv` has types, `OwnIds` (ids that the writer derives are
bound as it binds them), `OneProductEach` and `StartsEmpty`. From it:
`IndexIsBacked` and `PublishedStays`, for any number of products, findings,
claims, aggregates and documents already there.

That a reader finds what a run wrote (`RoundTripsHold`) is the other direction.
A merge leaves a document that has each claim, in a statement that covers it or
under its product id among those not affected (`StatementsHaveThem`,
`AdvisoryHasThem`), and one that has them all is not written again
(`StatementsOnceMore`, `AdvisoryOnceMore`). For CSAF that means that the ids the
writer derives resolve to the artifact and the component they were derived from,
however many claims came after (`StandsFor`, `StillAnswered`). What covers a
claim speaks to its component, unless it does so by its `@id` alone
(`StatementSpeaks`, `AdvisorySpeaks`), and a reader
who looks among the statements that speak is answered: scope, then date, then
place in the document prefer one of any of them (`OneIsBest`, `Heard`). The rest is
the plan: no aggregate is written over a product's new document, and one written
over a document that had its claims already leaves them there (`ChangesAre`,
`ProductLeft`, `AggregateLeft`), and the index points at the document
(`FoundThere`). A claim
that was covered when the image was scanned is not in the plan at all; that it is
still answered is why the invariant `RInv` has to say that what answered the scan
is in the document yet (`Told`), through whatever the publisher appends. It also
has `Filing` (the index points each product at one place) and `Reliable`
(statements or their document are dated, and an advisory of ours defines the product ids it lists),
of the hub and of every change still to be written.

What `ReaderAssumption` adds for this, and only this: the hub before the first
run is one of which `Filing` and `Reliable` hold (a statement may be undated, its
document is not), it is older than the runs (`HubTime`, after which `Today`
counts), and a finding goes by some id. A reader dates what is undated as its
document is (`AsRead`), so that every statement has a date when two are compared (`Heard`).
It excludes an index that names a product twice at different places, of which
the writer takes the first and the reader the last (section 6): there a run
writes a document that no reader is led to, and `RoundTrip` is false (TLC finds
it so when such an index is added to the instance).

What `HubAssumption` asks: products without repetition, as `selectProposals`
groups them; finitely many findings; documents of the two formats with lists
where the formats have lists; an index that can be told from an unreadable one.
Two of its parts exclude hubs the code accepts. An index may not file two products
under one document and no two products may have one home: `ProposeAll` merges
each from the bytes the hub had before the run, so the second write drops what the
first added (section 6), and `PublishedIsKept` is false there. And in an advisory whose
tracking id is the writer's own, a product id of the form the writer derives
means what it means to the writer: somebody who edits such an advisory may
not give `artifact`, `component` or `pair` ids another meaning.

Only model-checked:

* liveness (the fairness part of `Implements`, `EveryComponentPaired`,
  `PassesEnd`, `BuildEnds`): the prover handles no ENABLED;
* what a fold or a recursive operator computes where the models keep one: the
  language truth sets of `MCLanguages`;
* of `VexProposals`, `NeverOverrules`, which is not true of every set of
  findings: two findings that share an id are answered by one statement, so that
  a claim for the one may answer for the other, of which the scan was told it is
  affected; the instance has no such pair;
* Maven's comparator, of which `ComparatorsOrder` says nothing: an item that is a
  list is compared with the end of the other version by its own first items, so
  that no order of tokens stands behind it. TLC finds its tables ordered.

## 6. Where code and documentation disagree

One disagreement is a run that TLC ends with a violation, quoted in
`PROJECT.json`: `bundle_suppressed`. On Debian the first CVE of a bundle with a
verdict clears the bundle while another is open (`debian.go` 150 against
`analyze.go` 1970-1972).

The others were met while modelling. The models do what the code does, and the
instances or the properties leave these cases out where they say so.

Advisories:
`Component.Key` leaves out the `AltNames`, since "Components sharing a key need
only one OSV lookup" (`ecosystem/ecosystem.go` 317-321), but two binary packages
of one Debian or Alpine source share a key and have names of their own, every
one of which callers are to query (`pkgdb/pkgdb.go` 85-95): the second is never asked
about by its own name, and nothing is logged. A vector that cannot be scored, or
a label nobody knows, is kept like a rating (`osv.go` 649-662): the id stays
UNKNOWN though an alias rates it.
`misranged` sweeps the events of all custom ranges as one list, so a version
inside one of two overlapping ranges is set aside (`customranges.go` 106).
`severities` ranks UNKNOWN above MEDIUM, so an unrated record can hide a rating
(`analyze.go` 1824). An installed version that cannot be compared matches
offline without being counted in the notes that `osv/local.go` 31-32 promises
(519-523). rpm's `Compare` is not transitive when only some versions state an
epoch or a release (`1:1` > `0:2` > `1` > `1:1`). The package comment of
`mavenver` puts `1.0-foo` below `1.0`; `rankOf` puts an unknown qualifier above
the release.

Feeds, closures, trees:
a SUSE bundle is cleared from the documents that arrived while another of its
CVEs could not be read (`suse.go` 185 against `analyze/distrofeed.go` 69-72). A
library reached along two chains keeps the first chain's DT_RPATH, without the
taint the comment promises (`elfgraph/graph.go` 890-891). Two
`--dlopen-assume-none` names of one caller leave the second reported as matching
nothing (1143-1156). `loaders.go` 63-68 says of a loader's plugin directories
that every plugin in them is already a root; of `/security/` only files named
`pam_*` are, and any rooted plugin whose path contains the directory answers for
it (1285), a `.node` addon too. An ELF file that does not parse is left out of the index,
and a package with no other object is said to install none (350-359). A file
whose write fails while the budget holds is left cut or missing and the image is
scanned all the same (`image/extract.go` 328-335), and so is an image with a
layer whose blob is missing, which is passed over (196-202). `path.Clean` shortens `a/..`
in a link's text even where `a` is a link, which a kernel follows first
(`target/rootfs.go` 349).

Languages:
- npm: `require("string_decoder/")` is taken for the builtin
  (`node.go` 1024-1030); scoped and dotted names never match in `TaintsFor`
  (`modgraph/graph.go` 404-440); `node -r preload` is skipped (`node.go`
  452-459); `exports` tries "require" first; NODE_PATH, aliased installs and
  undeclared dependencies outside the dynamic scope are not followed; a bin shim
  whose program has no extension counts as no code; unlistable scopes and nested
  `node_modules` are skipped silently.
- Both: source above the size limit hides its imports silently (`node.go` 512,
  `python.go` 551); an explicit root suppresses the bundle's taint; `-e` or `-c`
  with assume-none drops it; a second copy whose manifest is unreadable hides
  behind the first.
- PyPI: `owners` names the first distribution of a namespace; imports of a `.so`
  and of a parent package's `__init__` are not followed (`python.go` 796-894); an
  import in a `.pth` file is remembered for the whole scan.
- Maven: shaded classes and archives nested deeper than one level are not read;
  the comment on an unidentified archive's artifact differs from `couldBe`.
- Go: a tag with a project's build suffix (`k3s`) is believed for whichever
  module's main version is missing (`imageversion.go` 181-184 against `golang.go`
  263-268); an empty main version
  is dropped (462); an unreadable binary is passed over in `AnalyzeImage`
  (665-669); `--package stdlib` with a devel toolchain; of two source statements
  that share an alias the last wins (827-845); a replacement by directory is
  keyed by its path; accounts are shared by component.

Fleets and reports:
the gate classes a statement before a status (`failon.go` 44-46); after an
interrupt the images never reached have no row (`batch.go` 285-289); rows of one
reference named twice in a bundle are merged; the unpacked bundle stays behind
for a layout below the archive's top, and when options are refused after it was
opened; a batch's SARIF leaves out failed images and holes; a hauler document in
a Kubernetes stream is dropped with the images it names, "exactly like a manifest
that did not mention them" (`k8s/manifest.go` 72-78, `haulmanifest.go` 24-26);
the scan of a repository fills in no ecosystems, so its summary has no rows
beside the findings of its report (`analyze.go` 1446, `summary.go` 24-27); a
known kind without a pod specification is skipped, and ephemeral containers are
not read.

VEX:
`statementCovers` compares whole purls (`openvex.go` 452), while the reader
matches type and name (`vex/match.go` 48), so a loosely spelled vendor statement
is given a newer one beside it, which `openvex.go` 336 says cannot be; so it is
after a failed lookup. An undated statement takes its document's date
(`vex/openvex.go` 167-169), which every merge advances (`openvex.go` 365): a
vendor's old undated `not_affected` so comes to overrule its newer, dated
`affected`, whatever the merge was about. `statementCovers` joins on the
vulnerability's `@id` too (400-407), which the reader ignores beside a name
(`vex/openvex.go` 149-155): a claim is held back as answered that no reader finds
answered. An aggregate keeps claims that the product's document
covers and the merged report says `not_affected` where the vendor says affected
(`select.go` 40-42). A stop between document and index leaves the document
unindexed by every later run (`propose.go` 248-252), an index keeps its entry
for a document that was declined, and `WriteFile` is not atomic. The writer
percent-encodes a Go module's key otherwise than the reader, which takes the
last entry of the index where the writer takes the first (`merge.go` 85-87). Two
products may share a location or a tracking slug; each is merged from what the hub
had before the run, and the second write drops what the first added
(`propose.go` 220-247). A run without a hub overwrites
a directory that is not empty. A CSAF component without a purl is read as the
whole product (`csaf.go` 99-105); undated entries are redated by a revision; an
unscoped flag gives the new claim its reason; of two entries that share ids the
first is used. The writer joins on upstream ids, the reader does not, and the
reader of OS packages ignores versions.

## 7. Not modelled, and why

Parsing and encoding (ELF headers, class files, build info, OSV, CSAF and VEX
JSON, package databases, lock files, SBOMs, archives, YAML): long code over
input formats with hardly any state; the models start from what parsing yields.
Wording, layout, paging and colour. CVSS arithmetic and the table from
`os-release` to an ecosystem: no states. Loader configuration files
(`opensslConfigRedirects`, `pamConfigRedirects`) are one answer of the scan, and
a DT_NEEDED that is a path an ordinary name. The registry copy that skopeo makes
is an outcome, and so are govulncheck's own answers. Environment lookups and
gist upload are input and output. Time is a counter where freshness needs it and
is left out elsewhere.

What could still be added, by worth:

1. The clients that cache, throttle and retry (LLM, NVD, EPSS and KEV) as
   instances of one abstract answer cache. No verdict depends on them; stale
   scores and labels do.
2. The id joins of `cveSets` (`analyze.go` 1995-2004), where the last record in
   map order wins an id.
