-------------------------- MODULE ScanPipelineProofs --------------------------
(***************************************************************************)
(* What ScanPipeline guarantees for every set of options, advisories,      *)
(* plugins and hubs, and whatever the plugins return.  The feed it asks of *)
(* a distribution is proved about in the second half (DistroFeed).         *)
(***************************************************************************)
EXTENDS ScanPipeline, DistroFeed, FiniteSetTheorems, TLAPS

LEMMA Constants ==
  /\ Configs \subseteq ConfigType
  /\ AnalyzersOf \in [Modes -> Seq(Ecosystems)]
  /\ Reports \in [Ecosystems -> SUBSET SUBSET FindingType]
  /\ Rating \in [Ids -> Severities \cup {"none"}]
  /\ VendorRating \in [Ids -> Severities \cup {"none"}]
  /\ HasFix \in [Ids -> BOOLEAN]
  /\ HubSays \in [Hubs -> [Ids -> VEXStatuses]]
  /\ FeedSays \in [Ids -> VEXStatuses]
  /\ IsFiniteSet(FindingType)
  /\ "none" \notin Ecosystems /\ "feed" \notin Hubs /\ "nobody" \notin Hubs
BY PipelineAssumption

\* The order of the overlays is closed and never returns to the guard.
LEMMA AfterGuard ==
  /\ DOMAIN After \cap PreOpen = {} /\ "analyze" \notin DOMAIN After
  /\ \A s \in DOMAIN After : After[s] \in (DOMAIN After \cup {"done"}) \ {"guard"}
BY DEF After, PreOpen

\* Every function the overlays map over the findings returns a finding and
\* leaves a supported one supported.
LEMMA OverlayFunctions ==
  ASSUME NEW f \in FindingType
  PROVE  /\ Validate(f) \in FindingType /\ Supported(Validate(f))
         /\ Rated(f) \in FindingType /\ (Supported(f) => Supported(Rated(f)))
         /\ Rescored(f) \in FindingType /\ (Supported(f) => Supported(Rescored(f)))
         /\ Fixed(f) \in FindingType /\ (Supported(f) => Supported(Fixed(f)))
         /\ FeedSpoke(f) \in FindingType /\ (Supported(f) => Supported(FeedSpoke(f)))
<1> USE Constants DEF FindingType
<1>1. Validate(f) \in FindingType /\ Supported(Validate(f))
  <2>1. CASE Clean(f.status) /\ f.tainted
    BY <2>1 DEF Validate, Supported, Clean, Statuses
  <2>2. CASE Clean(f.status) /\ ~f.tainted /\ ~f.proven
    BY <2>2 DEF Validate, Supported, Clean, Statuses
  <2>3. CASE ~Clean(f.status) \/ (~f.tainted /\ f.proven)
    BY <2>3 DEF Validate, Supported, Clean
  <2> QED
    BY <2>1, <2>2, <2>3
<1>2. Rated(f) \in FindingType /\ (Supported(f) => Supported(Rated(f)))
  BY DEF Rated, Supported, Clean
<1>3. Rescored(f) \in FindingType /\ (Supported(f) => Supported(Rescored(f)))
  BY DEF Rescored, Supported, Clean
<1>4. Fixed(f) \in FindingType /\ (Supported(f) => Supported(Fixed(f)))
  BY DEF Fixed, Supported, Clean
<1>5. FeedSpoke(f) \in FindingType /\ (Supported(f) => Supported(FeedSpoke(f)))
  <2> DEFINE g(says) == [f EXCEPT !.vex = [by |-> "feed", says |-> says]]
  <2>1. \A says \in {"not_affected", "fixed"} : g(says) \in FindingType
    BY DEF VEXStatuses
  <2>2. \A says \in {"not_affected", "fixed"} :
          g(says).status = f.status /\ g(says).proven = f.proven /\ g(says).tainted = f.tainted
    OBVIOUS
  <2>3. FeedSpoke(f) = f \/ \E says \in {"not_affected", "fixed"} : FeedSpoke(f) = g(says)
    BY DEF FeedSpoke
  <2> HIDE DEF g
  <2>4. ASSUME NEW says \in {"not_affected", "fixed"}, FeedSpoke(f) = g(says)
        PROVE  FeedSpoke(f) \in FindingType /\ (Supported(f) => Supported(FeedSpoke(f)))
    <3>1. Supported(f) => Supported(g(says))
      BY ONLY <2>2 DEF Supported, Clean
    <3> HIDE DEF FindingType
    <3> QED
      BY ONLY <2>1, <2>4, <3>1
  <2>5. ASSUME FeedSpoke(f) = f
        PROVE  FeedSpoke(f) \in FindingType /\ (Supported(f) => Supported(FeedSpoke(f)))
    <3> HIDE DEF FindingType
    <3> QED
      BY ONLY <2>5, f \in FindingType
  <2> QED
    BY ONLY <2>3, <2>4, <2>5
<1> QED
  BY <1>1, <1>2, <1>3, <1>4, <1>5

LEMMA InitIInv == Init => IInv
<1> SUFFICES ASSUME Init PROVE IInv
  OBVIOUS
<1> USE Constants DEF Init
<1>1. config.mode \in Modes
  BY DEF ConfigType
<1>2. TypeOK
  <2>1. Len(Analyzers) \in Nat
    BY <1>1 DEF Analyzers, Mode
  <2>2. turn \in 0 .. Len(Analyzers) /\ applied \in 0 .. turn
    BY <2>1
  <2>3. trees \subseteq {"user", "image", "empty", "extract", "checkout"}
    OBVIOUS
  <2>4. ran \in [Ecosystems -> {"pending", "no", "ok", "error"}]
    OBVIOUS
  <2>5. hubs \in Seq([url : Hubs, error : BOOLEAN, matched : Nat])
    BY DEF Init
  <2> HIDE DEF Init
  <2> QED
    BY <2>2, <2>3, <2>4, <2>5, Zenon DEF TypeOK, Init
<1>3. TreesKept
  BY DEF TreesKept, PreOpen, Over, UserTree, TreesReleased, Mode
<1>4. CleanSupported
  BY DEF CleanSupported, PreGuard, PreOpen
<1> QED
  BY <1>2, <1>3, <1>4 DEF IInv

\* Giving up at any point keeps the invariant: what is deferred by then is
\* exactly what the scan has made.
LEMMA AbortKeepsIInv ==
  ASSUME IInv, Abort, ~Over
  PROVE  IInv'
<1> USE DEF IInv, Abort, Leave, scan, account, report
<1>1. TypeOK'
  BY DEF TypeOK, Analyzers, Mode, After
<1>2. TreesKept'
  <2>1. TreesReleased'
    BY DEF TreesKept, TreesReleased, Deferred, TreeOf, UserTree, Over, Mode, TypeOK
  <2> QED
    BY <2>1 DEF TreesKept, PreOpen, Over
<1>3. CleanSupported'
  BY DEF CleanSupported, PreGuard, PreOpen
<1> QED
  BY <1>1, <1>2, <1>3

\* Moving on to the next overlay, or out of the scan after the last one, keeps
\* the account of the trees.
LEMMA AdvanceKeepsTrees ==
  ASSUME TypeOK, TreesKept, stage \in DOMAIN After, Advance, UNCHANGED <<config, opened>>
  PROVE  /\ stage' \in (DOMAIN After \cup {"done"}) \ {"guard"}
         /\ stage' \notin PreGuard
         /\ trees' \subseteq {"user", "image", "empty", "extract", "checkout"}
         /\ TreesKept'
<1>1. stage' \in (DOMAIN After \cup {"done"}) \ {"guard"}
  BY AfterGuard DEF Advance, Leave
<1>2. stage' \notin PreGuard /\ stage' \notin PreOpen
  BY <1>1, AfterGuard DEF PreGuard, PreOpen
<1>3. opened /\ ~Over /\ trees = UserTree \cup {TreeOf(Mode)}
  BY AfterGuard DEF TreesKept, PreOpen, Over, After
<1>4. trees' \subseteq trees
  BY DEF Advance, Leave
<1>5. TreesKept'
  <2>1. UserTree' = UserTree /\ TreeOf(Mode)' = TreeOf(Mode)
    BY DEF UserTree, TreeOf, Mode
  <2>2. CASE After[stage] = "done"
    <3>1. trees' = UserTree
      BY <1>3, <2>2 DEF Advance, Leave, Deferred, UserTree, TreeOf
    <3>2. stage' = "done"
      BY <2>2 DEF Advance, Leave
    <3> QED
      BY <1>3, <2>1, <3>1, <3>2 DEF TreesKept, PreOpen, Over, TreesReleased
  <2>3. CASE After[stage] # "done"
    <3>1. trees' = trees /\ stage' \in DOMAIN After
      BY <1>1, <2>3 DEF Advance
    <3>2. ~Over'
      BY <3>1 DEF Over, After
    <3> QED
      BY <1>2, <1>3, <2>1, <3>1, <3>2 DEF TreesKept, TreesReleased
  <2> QED
    BY <2>2, <2>3
<1> QED
  BY <1>1, <1>2, <1>4, <1>5 DEF TypeOK

\* An overlay that leaves only supported findings keeps the invariant.
LEMMA OverlayKeepsIInv ==
  ASSUME IInv, stage \in DOMAIN After, Advance,
         UNCHANGED <<config, opened, scan, account, hubs>>,
         findings' \cup withheld' \cup unfixed' \subseteq FindingType,
         \A f \in findings' \cup withheld' \cup unfixed' : Supported(f),
         billed' \subseteq (Ecosystems \cup {"none"}) \X Ids
  PROVE  IInv'
<1> USE DEF IInv, scan, account
<1>1. /\ stage' \in (DOMAIN After \cup {"done"}) \ {"guard"}
      /\ stage' \notin PreGuard
      /\ trees' \subseteq {"user", "image", "empty", "extract", "checkout"}
      /\ TreesKept'
  BY AdvanceKeepsTrees
<1>2. TypeOK'
  BY <1>1 DEF TypeOK, Analyzers, Mode
<1>3. CleanSupported'
  BY <1>1 DEF CleanSupported
<1> QED
  BY <1>1, <1>2, <1>3

\* Past the guard every finding is supported.
LEMMA PastGuard ==
  ASSUME IInv, stage \in DOMAIN After \ {"guard"}
  PROVE  /\ \A f \in findings \cup withheld \cup unfixed : Supported(f)
         /\ findings \cup withheld \cup unfixed \subseteq FindingType
         /\ billed \subseteq (Ecosystems \cup {"none"}) \X Ids
BY AfterGuard DEF IInv, CleanSupported, TypeOK, PreGuard, After

\* The steps up to the opened tree.
LEMMA OpeningKeepsIInv ==
  ASSUME IInv, ReadRPMs \/ ReadSBOM \/ Plan \/ OpenTree
  PROVE  IInv'
<1> USE DEF IInv, tree, scan, account, report
<1>1. ~Over /\ stage \in PreOpen
  BY DEF ReadRPMs, ReadSBOM, Plan, OpenTree, Over, PreOpen
<1>2. CASE Abort
  BY <1>1, <1>2, AbortKeepsIInv
<1>3. CASE ReadRPMs /\ ~Abort
  <2>1. TypeOK'
    BY <1>3 DEF ReadRPMs, TypeOK, Analyzers, Mode
  <2>2. TreesKept'
    BY <1>1, <1>3 DEF ReadRPMs, TreesKept, PreOpen, Over, UserTree, TreesReleased, Mode
  <2>3. CleanSupported'
    BY <1>3 DEF ReadRPMs, CleanSupported, PreGuard, PreOpen
  <2> QED
    BY <2>1, <2>2, <2>3
<1>4. CASE (ReadSBOM \/ Plan) /\ ~Abort
  <2>1. TypeOK'
    BY <1>4 DEF ReadSBOM, Plan, TypeOK, Analyzers, Mode
  <2>2. TreesKept'
    BY <1>1, <1>4 DEF ReadSBOM, Plan, TreesKept, PreOpen, Over, UserTree, TreesReleased, Mode
  <2>3. CleanSupported'
    BY <1>4 DEF ReadSBOM, Plan, CleanSupported, PreGuard, PreOpen
  <2> QED
    BY <2>1, <2>2, <2>3
<1>5. CASE OpenTree /\ ~Abort
  <2>1. /\ stage' = "analyze" /\ opened' = TRUE /\ trees' = trees \cup {TreeOf(Mode)}
        /\ UNCHANGED <<config, scan, account, report>>
    BY <1>5 DEF OpenTree
  <2>2. Mode \in Modes
    BY Constants DEF TypeOK, ConfigType, Mode
  <2>3. TreeOf(Mode) \in {"user", "image", "empty", "extract", "checkout"}
    BY <2>2 DEF TreeOf, Modes
  <2>4. TypeOK'
    BY <2>1, <2>3 DEF TypeOK, Analyzers, Mode, After
  <2>5. trees' = UserTree \cup {TreeOf(Mode)}
    BY <1>1, <2>1 DEF TreesKept, TreeOf, UserTree
  <2>6. TreesKept'
    BY <2>1, <2>5 DEF TreesKept, PreOpen, Over, TreesReleased, UserTree, Mode, TreeOf
  <2>7. CleanSupported'
    BY <1>1, <2>1 DEF CleanSupported, PreGuard, PreOpen
  <2> QED
    BY <2>4, <2>6, <2>7
<1> QED
  BY <1>2, <1>3, <1>4, <1>5

\* The steps that run the analyzers.
LEMMA CollectKeepsIInv ==
  ASSUME IInv, Collect
  PROVE  IInv'
<1> USE DEF IInv, tree, scan, account, report
<1>1. stage = "analyze" /\ ~Over /\ opened /\ withheld = {} /\ unfixed = {}
  BY DEF Collect, NewResolver, NotApplicable, Analyzed, AnalyzerFailed, Account, Running,
         Over, TreesKept, CleanSupported, PreOpen, PreGuard
<1>2. CASE Abort
  BY <1>1, <1>2, AbortKeepsIInv
<1>3. CASE stage' = "analyze" /\ UNCHANGED <<config, tree, withheld, unfixed>> /\ TypeOK'
  <2>1. TreesKept'
    BY <1>1, <1>3 DEF TreesKept, PreOpen, Over, TreesReleased, UserTree, Mode
  <2>2. CleanSupported'
    BY <1>1, <1>3 DEF CleanSupported, PreGuard, PreOpen
  <2> QED
    BY <1>3, <2>1, <2>2
<1>4. Len(Analyzers) \in Nat /\ Mode \in Modes
  BY Constants DEF TypeOK, ConfigType, Mode, Analyzers
<1>5. ASSUME Running
      PROVE  /\ Analyzer \in Ecosystems /\ turn + 1 \in 0 .. Len(Analyzers)
             /\ applied \in 0 .. turn + 1 /\ applied + 1 \in 0 .. turn + 1
  BY <1>4, <1>5, Constants DEF Running, Analyzer, Analyzers, TypeOK
<1>6. CASE NewResolver /\ ~Abort
  <2>1. TypeOK'
    BY <1>6 DEF NewResolver, TypeOK, Analyzers, Mode
  <2> QED
    BY <1>1, <1>3, <1>6, <2>1 DEF NewResolver
<1>7. CASE NotApplicable
  <2>1. TypeOK'
    BY <1>5, <1>7 DEF NotApplicable, Ran, TypeOK, Analyzers, Mode
  <2> QED
    BY <1>1, <1>3, <1>7, <2>1 DEF NotApplicable
<1>8. CASE Analyzed
  <2>1. findings' \subseteq FindingType
    BY <1>5, <1>8, Constants DEF Analyzed, TypeOK
  <2>2. TypeOK'
    BY <1>5, <1>8, <2>1 DEF Analyzed, Ran, Walked, TypeOK, Analyzers, Mode
  <2> QED
    BY <1>1, <1>3, <1>8, <2>2 DEF Analyzed
<1>9. CASE AnalyzerFailed /\ ~Abort
  <2>1. TypeOK'
    BY <1>5, <1>9 DEF AnalyzerFailed, Ran, Recorded, Walked, TypeOK, Analyzers, Mode
  <2> QED
    BY <1>1, <1>3, <1>9, <2>1 DEF AnalyzerFailed
<1>10. CASE Account /\ ~Abort
  <2>1. /\ findings' = findings \cup Unmapped /\ unreadable' = lost /\ stage' = "guard"
        /\ UNCHANGED <<config, tree, scan, lost, withheld, unfixed, hubs, billed>>
    BY <1>10 DEF Account
  <2>2. \A i \in Ids : Placeholder(i) \in FindingType
    BY DEF Placeholder, FindingType, NoStatement, Statuses, VEXStatuses
  <2>3. Unmapped \subseteq FindingType
    BY <2>2, Constants DEF Unmapped, TypeOK, ConfigType
  <2>4. TypeOK'
    BY <2>1, <2>3 DEF TypeOK, Analyzers, Mode, After
  <2>5. TreesKept'
    BY <1>1, <2>1 DEF TreesKept, PreOpen, Over, TreesReleased, UserTree, Mode
  <2>6. CleanSupported'
    BY <1>1, <2>1 DEF CleanSupported, PreGuard
  <2> QED
    BY <2>4, <2>5, <2>6
<1> QED
  BY <1>2, <1>6, <1>7, <1>8, <1>9, <1>10 DEF Collect

\* The overlays that map a function over the findings.
LEMMA MappingKeepsIInv ==
  ASSUME IInv, Guard \/ Severity \/ PreferVendor \/ FixedVersions \/ DistroFeed
  PROVE  IInv'
<1> USE DEF EachFinding, SkipOverlay, At, report
<1>1. stage \in DOMAIN After
  BY DEF Guard, Severity, PreferVendor, FixedVersions, DistroFeed, After
<1>2. stage # "guard" =>
        /\ \A f \in findings \cup withheld \cup unfixed : Supported(f)
        /\ findings \cup withheld \cup unfixed \subseteq FindingType
  BY <1>1, PastGuard
<1>3. findings \subseteq FindingType /\ billed \subseteq (Ecosystems \cup {"none"}) \X Ids
  BY DEF IInv, TypeOK
<1>4. CASE Guard
  <2>1. /\ findings' = {Validate(f) : f \in findings} /\ Advance
        /\ UNCHANGED <<config, opened, scan, account, withheld, unfixed, hubs, billed>>
    BY <1>4 DEF Guard
  <2>2. withheld = {} /\ unfixed = {}
    BY <1>4 DEF Guard, IInv, CleanSupported, PreGuard
  <2>3. \A f \in findings' : f \in FindingType /\ Supported(f)
    BY <1>3, <2>1, OverlayFunctions
  <2> QED
    BY <1>1, <1>3, <2>1, <2>2, <2>3, OverlayKeepsIInv
<1>5. CASE Severity
  <2>1. /\ findings' = {Rated(f) : f \in findings} /\ Advance /\ stage # "guard"
        /\ UNCHANGED <<config, opened, scan, account, withheld, unfixed, hubs, billed>>
    BY <1>5 DEF Severity
  <2>2. \A f \in findings' : f \in FindingType /\ Supported(f)
    BY <1>2, <2>1, OverlayFunctions
  <2> QED
    BY <1>1, <1>2, <1>3, <2>1, <2>2, OverlayKeepsIInv
<1>6. CASE FixedVersions
  <2>1. /\ findings' = {Fixed(f) : f \in findings} /\ Advance /\ stage # "guard"
        /\ UNCHANGED <<config, opened, scan, account, withheld, unfixed, hubs, billed>>
    BY <1>6 DEF FixedVersions
  <2>2. \A f \in findings' : f \in FindingType /\ Supported(f)
    BY <1>2, <2>1, OverlayFunctions
  <2> QED
    BY <1>1, <1>2, <1>3, <2>1, <2>2, OverlayKeepsIInv
<1>7. CASE PreferVendor
  <2>1. /\ findings' \in {findings, {Rescored(f) : f \in findings}} /\ Advance /\ stage # "guard"
        /\ UNCHANGED <<config, opened, scan, account, withheld, unfixed, hubs, billed>>
    BY <1>7 DEF PreferVendor
  <2>2. \A f \in findings' : f \in FindingType /\ Supported(f)
    BY <1>2, <2>1, OverlayFunctions
  <2> QED
    BY <1>1, <1>2, <1>3, <2>1, <2>2, OverlayKeepsIInv
<1>8. CASE DistroFeed
  <2>1. /\ findings' \in {findings, {FeedSpoke(f) : f \in findings}} /\ Advance /\ stage # "guard"
        /\ UNCHANGED <<config, opened, scan, account, withheld, unfixed, hubs, billed>>
    BY <1>8 DEF DistroFeed
  <2>2. \A f \in findings' : f \in FindingType /\ Supported(f)
    BY <1>2, <2>1, OverlayFunctions
  <2> QED
    BY <1>1, <1>2, <1>3, <2>1, <2>2, OverlayKeepsIInv
<1> QED
  BY <1>4, <1>5, <1>6, <1>7, <1>8

\* The filters move findings, the model reads them, and nothing is said of
\* them anew.
LEMMA FilteringKeepsIInv ==
  ASSUME IInv, SeverityFilter \/ FixedOnlyFilter \/ HubsConsulted \/ AskLLM
  PROVE  IInv'
<1> USE DEF At, SkipOverlay, report
<1>1. stage \in DOMAIN After \ {"guard"}
  BY DEF SeverityFilter, FixedOnlyFilter, HubsConsulted, AskLLM, After
<1>2. /\ \A f \in findings \cup withheld \cup unfixed : Supported(f)
      /\ findings \cup withheld \cup unfixed \subseteq FindingType
      /\ billed \subseteq (Ecosystems \cup {"none"}) \X Ids
  BY <1>1, PastGuard
<1>3. Advance /\ UNCHANGED <<config, opened, scan, account, hubs>>
  BY DEF SeverityFilter, FixedOnlyFilter, HubsConsulted, AskLLM
<1>4. findings' \cup withheld' \cup unfixed' \subseteq findings \cup withheld \cup unfixed
  BY DEF SeverityFilter, FixedOnlyFilter, HubsConsulted, AskLLM
<1>5. billed' \subseteq (Ecosystems \cup {"none"}) \X Ids
  <2>1. CASE AskLLM
    <3>1. \A f \in ToAssess : Named(f) \in (Ecosystems \cup {"none"}) \X Ids
      BY <1>2 DEF ToAssess, Named, FindingType
    <3> QED
      BY <2>1, <3>1 DEF AskLLM
  <2>2. CASE ~AskLLM
    BY <1>2, <2>2 DEF SeverityFilter, FixedOnlyFilter, HubsConsulted
  <2> QED
    BY <2>1, <2>2
<1> QED
  BY <1>1, <1>2, <1>3, <1>4, <1>5, OverlayKeepsIInv

\* A hub adds its statements and its result, and touches no verdict.
LEMMA HubKeepsIInv ==
  ASSUME IInv, ConsultHub
  PROVE  IInv'
<1> USE DEF At, tree, scan, account
<1>1. stage = "vex" /\ stage \in DOMAIN After \ {"guard"} /\ stage \notin PreGuard
  BY DEF ConsultHub, After, PreGuard, PreOpen
<1>2. /\ \A f \in findings \cup withheld \cup unfixed : Supported(f)
      /\ findings \cup withheld \cup unfixed \subseteq FindingType
  BY <1>1, PastGuard
<1>3. hubs \in Seq([url : Hubs, error : BOOLEAN, matched : Nat]) /\ config \in ConfigType
  BY Constants DEF IInv, TypeOK
<1>4. UNCHANGED <<config, stage, tree, scan, account, withheld, unfixed, billed>>
  BY DEF ConsultHub
<1> DEFINE h == config.hubs[Len(hubs) + 1]
<1>5. h \in Hubs
  BY <1>3 DEF ConsultHub, ConfigType
<1>6. /\ findings' \subseteq FindingType
      /\ \A f \in findings' : Supported(f)
      /\ hubs' \in Seq([url : Hubs, error : BOOLEAN, matched : Nat])
  <2>1. CASE UNCHANGED findings /\ hubs' = Append(hubs, [url |-> h, error |-> TRUE, matched |-> 0])
    BY <1>2, <1>3, <1>5, <2>1
  <2>2. CASE ~(UNCHANGED findings /\ hubs' = Append(hubs, [url |-> h, error |-> TRUE, matched |-> 0]))
    <3> DEFINE said(f) == [f EXCEPT !.vex = [by |-> h, says |-> HubSays[h][f.id]]]
    <3>1. PICK spoken \in SUBSET findings :
            /\ findings' = (findings \ spoken) \cup {said(f) : f \in spoken}
            /\ hubs' = Append(hubs, [url |-> h, error |-> FALSE, matched |-> Cardinality(spoken)])
      BY <2>2 DEF ConsultHub
    <3>2. Cardinality(spoken) \in Nat
      <4>1. spoken \in SUBSET FindingType
        BY <1>2
      <4> QED
        BY <4>1, Constants, FS_Subset, FS_CardinalityType
    <3>3. ASSUME NEW f \in FindingType
          PROVE  said(f) \in FindingType /\ (Supported(f) => Supported(said(f)))
      <4> DEFINE v == [by |-> h, says |-> HubSays[h][f.id]]
      <4>1. v \in [by : Hubs \cup {"feed", "nobody"}, says : VEXStatuses]
        <5>1. f.id \in Ids
          BY DEF FindingType
        <5> HIDE DEF h
        <5> QED
          BY <1>5, <5>1, Constants
      <4>2. said(f) = [f EXCEPT !.vex = v]
        OBVIOUS
      <4> HIDE DEF v, said
      <4>3. said(f) \in FindingType
        BY <4>1, <4>2 DEF FindingType
      <4>4. said(f).status = f.status /\ said(f).proven = f.proven /\ said(f).tainted = f.tainted
        BY <4>2 DEF FindingType
      <4> QED
        BY <4>3, <4>4 DEF Supported
    <3>4. [url |-> h, error |-> FALSE, matched |-> Cardinality(spoken)] \in
            [url : Hubs, error : BOOLEAN, matched : Nat]
      BY <1>5, <3>2
    <3> HIDE DEF said, h
    <3>5. \A f \in findings' : f \in FindingType /\ Supported(f)
      BY <1>2, <3>1, <3>3
    <3> QED
      BY <1>3, <3>1, <3>4, <3>5
  <2> QED
    BY <2>1, <2>2
<1>7. TypeOK'
  BY <1>4, <1>6 DEF IInv, TypeOK, Analyzers, Mode
<1>8. TreesKept'
  BY <1>4 DEF IInv, TreesKept, Over, UserTree, TreesReleased, Mode
<1>9. CleanSupported'
  BY <1>1, <1>2, <1>4, <1>6 DEF CleanSupported
<1> QED
  BY <1>7, <1>8, <1>9 DEF IInv

LEMMA StutterKeepsIInv ==
  ASSUME IInv, UNCHANGED vars
  PROVE  IInv'
<1> USE DEF IInv, vars
<1>1. TypeOK'
  BY DEF TypeOK, Analyzers, Mode
<1>2. TreesKept'
  BY DEF TreesKept, Over, UserTree, TreesReleased, Mode
<1>3. CleanSupported'
  BY DEF CleanSupported
<1> QED
  BY <1>1, <1>2, <1>3

\* The strengthening of the properties below is an invariant of every scan.
THEOREM Inductive == Spec => []IInv
<1>1. Init => IInv
  BY InitIInv
<1>2. IInv /\ [Next]_vars => IInv'
  <2> SUFFICES ASSUME IInv, [Next]_vars PROVE IInv'
    OBVIOUS
  <2>1. CASE ReadRPMs \/ ReadSBOM \/ Plan \/ OpenTree
    BY <2>1, OpeningKeepsIInv
  <2>2. CASE Collect
    BY <2>2, CollectKeepsIInv
  <2>3. CASE Guard \/ Severity \/ PreferVendor \/ FixedVersions \/ DistroFeed
    BY <2>3, MappingKeepsIInv
  <2>4. CASE SeverityFilter \/ FixedOnlyFilter \/ HubsConsulted \/ AskLLM
    BY <2>4, FilteringKeepsIInv
  <2>5. CASE ConsultHub
    BY <2>5, HubKeepsIInv
  <2>6. CASE Ended \/ UNCHANGED vars
    BY <2>6, StutterKeepsIInv DEF Ended
  <2> QED
    BY <2>1, <2>2, <2>3, <2>4, <2>5, <2>6 DEF Next, Overlay
<1> QED
  BY <1>1, <1>2, PTL DEF Spec

\* Every state of a scan is well typed.
THEOREM TypeCorrect == Spec => []TypeOK
<1>1. IInv => TypeOK
  BY DEF IInv
<1> QED
  BY <1>1, Inductive, PTL

\* On every way out of a scan, through any error return of analyze.Run or to
\* its end, the trees it made are removed and the user's directory is not.
THEOREM NoTreeLeaks == Spec => []TreesReleased
<1>1. IInv => TreesReleased
  BY DEF IInv, TreesKept
<1> QED
  BY <1>1, Inductive, PTL

\* No result of analyze.Run, whatever the plugins returned and the hubs, the
\* feed and the vendors said since, holds a clean verdict that is tainted or
\* not proven, among the findings shown and among those withheld.
THEOREM NoFalseCleanReported == Spec => []NoFalseClean
<1>1. IInv => NoFalseClean
  BY DEF IInv, CleanSupported, NoFalseClean, PreGuard, PreOpen
<1> QED
  BY <1>1, Inductive, PTL

-----------------------------------------------------------------------------
(* What the report says of itself                                          *)

LEMMA SeqElements ==
  ASSUME NEW S, NEW q \in Seq(S)
  PROVE  DOMAIN q = 1 .. Len(q) /\ \A n \in DOMAIN q : q[n] \in S
OBVIOUS

LEMMA Stages ==
  /\ DOMAIN After = Accounted \ {"done"}
  /\ Consulting \subseteq Filtered /\ Filtered \subseteq Accounted
  /\ Accounted \cap (PreOpen \cup {"analyze", "failed"}) = {}
BY DEF After, Accounted, Filtered, Consulting, PreOpen

LEMMA InitHonest == Init => HonestInv
<1> SUFFICES ASSUME Init PROVE HonestInv
  OBVIOUS
<1> USE DEF Init
<1>1. RunKept
  <2>1. \A k \in DOMAIN Analyzers : Analyzers[k] \in Ecosystems
    BY Constants DEF Analyzers, Mode, ConfigType
  <2> QED
    BY <2>1 DEF RunKept, Accounted, Filtered, Consulting
<1>2. FiltersKept
  BY DEF FiltersKept, Accounted, Filtered, Consulting
<1>3. StatementsKept
  BY DEF StatementsKept, Consulting
<1> QED
  BY <1>1, <1>2, <1>3 DEF HonestInv

\* A step that only moves the scan on before the account keeps all of it.
LEMMA MovingKeepsHonest ==
  ASSUME HonestInv, stage \notin Accounted, stage' \notin Accounted,
         UNCHANGED <<config, turn, ran, recorded, applied, report>>
  PROVE  HonestInv'
<1> USE DEF HonestInv, report
<1>1. RunKept'
  BY DEF RunKept, Analyzers, Mode
<1>2. FiltersKept'
  BY Stages DEF FiltersKept, OutBySeverity, OutByFix, Consulting, Accounted, Filtered
<1>3. StatementsKept'
  <2>1. hubs' = <<>> /\ findings' = findings /\ \A f \in findings : f.vex = NoStatement
    BY Stages DEF StatementsKept
  <2>2. stage' \notin Consulting /\ stage' \notin {"vex", "feed", "done"}
    BY Stages DEF Consulting
  <2> QED
    BY <2>1, <2>2, Constants DEF StatementsKept, NoStatement
<1> QED
  BY <1>1, <1>2, <1>3

LEMMA OpeningKeepsHonest ==
  ASSUME HonestInv, ReadRPMs \/ ReadSBOM \/ Plan \/ OpenTree
  PROVE  HonestInv'
<1>1. stage \in PreOpen /\ stage' \in PreOpen \cup {"analyze", "failed"}
  BY DEF ReadRPMs, ReadSBOM, Plan, OpenTree, Abort, Leave, PreOpen
<1>2. UNCHANGED <<config, turn, ran, recorded, applied, report>>
  BY DEF ReadRPMs, ReadSBOM, Plan, OpenTree, Abort, scan
<1>3. stage \notin Accounted /\ stage' \notin Accounted
  BY <1>1, Stages
<1> QED
  BY <1>2, <1>3, MovingKeepsHonest

\* An analyzer's outcome is recorded the one time it runs.
LEMMA RunningKeepsRecord ==
  ASSUME IInv, RunKept, Running, UNCHANGED config, stage' = "analyze",
         NEW how \in {"no", "ok", "error"}, Ran(how),
         how = "no" => UNCHANGED <<recorded, applied>>,
         how = "ok" => UNCHANGED recorded,
         how = "error" => recorded' = recorded \cup {Analyzer}
  PROVE  RunKept'
<1>1. /\ Mode \in Modes /\ Analyzers' = Analyzers
      /\ Analyzers \in Seq(Ecosystems) /\ turn \in Nat /\ turn + 1 \in DOMAIN Analyzers
  BY Constants DEF IInv, TypeOK, ConfigType, Mode, Analyzers, Running
<1>2. \A j, k \in DOMAIN Analyzers : Analyzers[j] = Analyzers[k] => j = k
  BY <1>1, PluginAssumption DEF Analyzers
<1>3. /\ Analyzer \in Ecosystems /\ ran[Analyzer] = "pending"
      /\ ran' = [ran EXCEPT ![Analyzer] = how] /\ turn' = turn + 1
      /\ ran \in [Ecosystems -> {"pending", "no", "ok", "error"}]
  BY <1>1 DEF RunKept, Analyzer, Ran, IInv, TypeOK
<1>4. \A e \in Ecosystems : ran'[e] = "error" => e \in recorded'
  BY <1>3 DEF RunKept
<1>5. \A k \in DOMAIN Analyzers' : k > turn' => ran'[Analyzers'[k]] = "pending"
  <2> SUFFICES ASSUME NEW k \in DOMAIN Analyzers, k > turn + 1
               PROVE  ran'[Analyzers[k]] = "pending"
    BY <1>1, <1>3
  <2>1. Analyzers[k] # Analyzer /\ Analyzers[k] \in Ecosystems /\ k > turn
    BY <1>1, <1>2 DEF Analyzer
  <2> QED
    BY <1>3, <2>1 DEF RunKept
<1>6. applied' > 0 => recorded' # {} \/ \E e \in Ecosystems : ran'[e] = "ok"
  <2>1. CASE how = "no"
    BY <1>3, <2>1 DEF RunKept
  <2>2. CASE how = "ok"
    BY <1>3, <2>2
  <2>3. CASE how = "error"
    BY <2>3
  <2> QED
    BY <2>1, <2>2, <2>3
<1>7. stage' \notin Accounted
  BY Stages
<1> QED
  BY <1>4, <1>5, <1>6, <1>7 DEF RunKept

LEMMA CollectKeepsHonest ==
  ASSUME IInv, HonestInv, Collect
  PROVE  HonestInv'
<1> USE DEF HonestInv, report, scan
<1>1. stage = "analyze" /\ stage \notin Accounted /\ withheld = {} /\ unfixed = {} /\ hubs = <<>>
  BY Stages DEF Collect, NewResolver, NotApplicable, Analyzed, AnalyzerFailed, Account, Running,
         FiltersKept, StatementsKept
<1>2. CASE NewResolver \/ Abort
  <2>1. stage' \in {"analyze", "failed"} /\ UNCHANGED <<config, turn, ran, recorded, applied, report>>
    BY <1>1, <1>2 DEF NewResolver, Abort, Leave
  <2> QED
    BY <1>1, <2>1, Stages, MovingKeepsHonest
<1>3. ASSUME stage' \in {"analyze", "guard"}, UNCHANGED <<config, withheld, unfixed, hubs>>,
             \A f \in findings' \ findings : Filed(f) /\ f.vex = NoStatement,
             stage' = "guard" => \A i \in config.requested : \E f \in findings' : f.id = i
      PROVE  FiltersKept' /\ StatementsKept'
  <2>1. stage' \notin Filtered /\ stage' \notin Consulting /\ stage' \notin {"vex", "feed", "fixedonly", "done"}
    BY <1>3 DEF Filtered, Consulting
  <2>2. FiltersKept'
    BY <1>1, <1>3, <2>1, Stages DEF FiltersKept, Filed, AlwaysReport
  <2>3. \A f \in findings' : f.vex = NoStatement
    BY <1>1, <1>3, Stages DEF StatementsKept
  <2>4. StatementsKept'
    BY <1>1, <1>3, <2>1, <2>3, Constants DEF StatementsKept, NoStatement
  <2> QED
    BY <2>2, <2>4
<1>4. CASE NotApplicable
  BY <1>1, <1>3, <1>4, RunningKeepsRecord DEF NotApplicable
<1>5. CASE Analyzed
  <2>1. PICK fs \in Reports[Analyzer] : findings' = findings \cup fs
    BY <1>5 DEF Analyzed
  <2>2. Analyzer \in Ecosystems
    BY <1>5, Constants DEF Analyzed, Running, Analyzer, Analyzers, Mode, IInv, TypeOK, ConfigType
  <2>3. \A f \in fs : Filed(f) /\ f.vex = NoStatement
    BY <2>2, Constants, PluginAssumption DEF Filed
  <2> QED
    BY <1>1, <1>3, <1>5, <2>1, <2>3, RunningKeepsRecord DEF Analyzed
<1>6. CASE AnalyzerFailed /\ ~Abort
  BY <1>1, <1>3, <1>6, RunningKeepsRecord DEF AnalyzerFailed, Recorded
<1>7. CASE Account /\ ~Abort
  <2>1. /\ findings' = findings \cup Unmapped /\ unreadable' = lost /\ stage' = "guard" /\ ~NothingAnalyzed
        /\ UNCHANGED <<config, scan, lost, withheld, unfixed, hubs>>
    BY <1>7 DEF Account
  <2>2. \A f \in Unmapped : Filed(f) /\ f.vex = NoStatement
    BY DEF Unmapped, Placeholder, Filed, AlwaysReport
  <2>3. \A i \in config.requested : \E f \in findings' : f.id = i
    <3> SUFFICES ASSUME NEW i \in config.requested PROVE \E f \in findings' : f.id = i
      OBVIOUS
    <3>1. CASE i \in {f.id : f \in findings}
      BY <2>1, <3>1
    <3>2. CASE i \notin {f.id : f \in findings}
      <4>1. Placeholder(i) \in Unmapped /\ Placeholder(i).id = i
        BY <3>2 DEF Unmapped, Placeholder
      <4> QED
        BY <2>1, <4>1
    <3> QED
      BY <3>1, <3>2
  <2>4. applied > 0
    BY <2>1 DEF NothingAnalyzed, IInv, TypeOK
  <2>5. RunKept'
    BY <2>1, <2>4 DEF RunKept, Analyzers, Mode
  <2> QED
    BY <1>3, <2>1, <2>2, <2>3, <2>5
<1> QED
  BY <1>2, <1>4, <1>5, <1>6, <1>7 DEF Collect

\* Where each overlay leads, in terms of what the filters and hubs have done.
LEMMA AfterStages ==
  ASSUME stage \in DOMAIN After, Advance
  PROVE  /\ stage \in Accounted /\ stage' \in Accounted
         /\ stage' \in Filtered <=> stage \in Filtered \cup {"filter"}
         /\ stage' \in Consulting <=> stage \in Consulting \cup {"fixedonly"}
         /\ stage' = "fixedonly" <=> stage = "fix"
         /\ stage' \in {"vex", "feed"} <=> stage \in {"fixedonly", "vex"}
         /\ stage' = "done" <=> stage = "llm"
BY DEF After, Advance, Leave, Accounted, Filtered, Consulting

LEMMA OverlayKeepsRecord ==
  ASSUME RunKept, stage \in DOMAIN After, Advance, UNCHANGED <<config, scan, account>>
  PROVE  RunKept'
BY AfterStages DEF RunKept, scan, account, Analyzers, Mode

\* An overlay other than a filter may rewrite a row, but not what the filters
\* have gone by and not what the row is about.
LEMMA RewritingKeepsFilters ==
  ASSUME FiltersKept, stage \in DOMAIN After \ {"filter", "fixedonly"}, Advance,
         UNCHANGED <<config, withheld, unfixed>>,
         \A g \in findings' : \E f \in findings :
           /\ Filed(f) => Filed(g)
           /\ g.eco = f.eco
           /\ stage \in Filtered => g.rating = f.rating
           /\ stage = "fix" => g.fix = HasFix[g.id],
         \A f \in findings : \E g \in findings' : g.id = f.id
  PROVE  FiltersKept'
<1> USE DEF FiltersKept
<1>1. /\ stage \in Accounted /\ stage' \in Accounted
      /\ stage' \in Filtered <=> stage \in Filtered
      /\ stage' \in Consulting <=> stage \in Consulting
      /\ stage' = "fixedonly" <=> stage = "fix"
  BY AfterStages
<1>2. \A f \in findings' : Filed(f)
  OBVIOUS
<1>3. /\ \A f \in withheld' : OutBySeverity(f)'
      /\ \A f \in unfixed' : OutByFix(f)'
  BY DEF OutBySeverity, OutByFix
<1>4. stage' \in Filtered => \A f \in findings' : KeptBySeverity(f)'
  BY <1>1 DEF KeptBySeverity
<1>5. stage' = "fixedonly" => \A f \in findings' : f.fix = HasFix[f.id]
  BY <1>1
<1>6. \A i \in config.requested : \E f \in findings' \cup withheld \cup unfixed : f.id = i
  BY <1>1
<1> QED
  BY <1>1, <1>2, <1>3, <1>4, <1>5, <1>6 DEF Filed, AlwaysReport

\* Before the hubs are consulted no row carries a statement, and no overlay up
\* to then adds one.
LEMMA SilentOverlays ==
  ASSUME StatementsKept, stage \in DOMAIN After \ Consulting, Advance, UNCHANGED hubs,
         \A g \in findings' : \E f \in findings : g.vex = f.vex
  PROVE  StatementsKept'
<1>1. hubs' = <<>> /\ \A f \in findings' : f.vex = NoStatement
  BY DEF StatementsKept
<1>2. stage' # "done"
  BY AfterStages DEF Consulting
<1> QED
  BY <1>1, <1>2 DEF StatementsKept, NoStatement

LEMMA RewrittenRows ==
  ASSUME NEW f \in FindingType
  PROVE  /\ Filed(f) => /\ Filed(Validate(f)) /\ Filed(Rated(f)) /\ Filed(Rescored(f))
                        /\ Filed(Fixed(f)) /\ Filed(FeedSpoke(f))
         /\ \A g \in {Validate(f), Rated(f), Rescored(f), Fixed(f)} : g.vex = f.vex
         /\ \A g \in {Validate(f), Rated(f), Rescored(f), Fixed(f), FeedSpoke(f)} : g.id = f.id /\ g.eco = f.eco
         /\ \A g \in {Fixed(f), FeedSpoke(f)} : g.rating = f.rating
         /\ Fixed(f).fix = HasFix[f.id]
<1> USE DEF FindingType, Filed, AlwaysReport
<1>1. /\ Filed(f) => Filed(Validate(f))
      /\ Validate(f).vex = f.vex /\ Validate(f).id = f.id /\ Validate(f).eco = f.eco
  <2>1. CASE Clean(f.status) /\ f.tainted
    BY <2>1 DEF Validate, Clean
  <2>2. CASE Clean(f.status) /\ ~f.tainted /\ ~f.proven
    BY <2>2 DEF Validate, Clean
  <2>3. CASE ~Clean(f.status) \/ (~f.tainted /\ f.proven)
    BY <2>3 DEF Validate
  <2> QED
    BY <2>1, <2>2, <2>3
<1>2. /\ Filed(f) => Filed(Rated(f))
      /\ Rated(f).vex = f.vex /\ Rated(f).id = f.id /\ Rated(f).eco = f.eco
  BY DEF Rated
<1>3. /\ Filed(f) => Filed(Rescored(f))
      /\ Rescored(f).vex = f.vex /\ Rescored(f).id = f.id /\ Rescored(f).eco = f.eco
  BY DEF Rescored
<1>4. /\ Filed(f) => Filed(Fixed(f))
      /\ Fixed(f).vex = f.vex /\ Fixed(f).id = f.id /\ Fixed(f).eco = f.eco
      /\ Fixed(f).rating = f.rating /\ Fixed(f).fix = HasFix[f.id]
  BY DEF Fixed
<1>5. /\ Filed(f) => Filed(FeedSpoke(f))
      /\ FeedSpoke(f).id = f.id /\ FeedSpoke(f).eco = f.eco /\ FeedSpoke(f).rating = f.rating
  BY DEF FeedSpoke
<1> HIDE DEF FindingType, Filed
<1> QED
  BY <1>1, <1>2, <1>3, <1>4, <1>5

LEMMA MappingKeepsHonest ==
  ASSUME IInv, HonestInv, Guard \/ Severity \/ PreferVendor \/ FixedVersions
  PROVE  HonestInv'
<1> USE DEF EachFinding, SkipOverlay, At, report, HonestInv
<1>1. stage \in DOMAIN After \ Consulting /\ stage \notin {"filter", "fixedonly"} /\ (stage \in Filtered => stage = "fix")
  BY DEF Guard, Severity, PreferVendor, FixedVersions, After, Consulting, Filtered
<1>2. findings \subseteq FindingType
  BY DEF IInv, TypeOK
<1>3. Advance /\ UNCHANGED <<config, opened, scan, account, withheld, unfixed, hubs, billed>>
  BY DEF Guard, Severity, PreferVendor, FixedVersions
<1>4. RunKept'
  BY <1>1, <1>3, OverlayKeepsRecord
<1>5. /\ \A g \in findings' : \E f \in findings :
           /\ Filed(f) => Filed(g)
           /\ g.eco = f.eco /\ g.vex = f.vex
           /\ stage \in Filtered => g.rating = f.rating
           /\ stage = "fix" => g.fix = HasFix[g.id]
      /\ \A f \in findings : \E g \in findings' : g.id = f.id
  <2>1. CASE Guard
    BY <1>2, <2>1, RewrittenRows DEF Guard, Filtered, Consulting
  <2>2. CASE Severity
    BY <1>2, <2>2, RewrittenRows DEF Severity, Filtered, Consulting
  <2>3. CASE PreferVendor
    <3>1. findings' \in {findings, {Rescored(f) : f \in findings}} /\ stage \notin Filtered /\ stage # "fix"
      BY <2>3 DEF PreferVendor, Filtered, Consulting
    <3> QED
      BY <1>2, <3>1, RewrittenRows
  <2>4. CASE FixedVersions
    BY <1>2, <2>4, RewrittenRows DEF FixedVersions
  <2> QED
    BY <2>1, <2>2, <2>3, <2>4
<1>6. FiltersKept'
  BY <1>1, <1>3, <1>5, RewritingKeepsFilters
<1>7. StatementsKept'
  BY <1>1, <1>3, <1>5, SilentOverlays
<1> QED
  BY <1>4, <1>6, <1>7

\* A filter moves rows between the shown and the withheld, and keeps the
\* placeholders among the shown.
LEMMA FilteringKeepsHonest ==
  ASSUME IInv, HonestInv, SeverityFilter \/ FixedOnlyFilter
  PROVE  HonestInv'
<1> USE DEF At, report, HonestInv
<1>1. /\ stage \in DOMAIN After \ Consulting /\ Advance
      /\ UNCHANGED <<config, opened, scan, account, hubs, billed>> /\ findings' \subseteq findings
  BY DEF SeverityFilter, FixedOnlyFilter, After, Consulting
<1>2. RunKept'
  BY <1>1, OverlayKeepsRecord
<1>3. StatementsKept'
  BY <1>1, SilentOverlays
<1>4. \A f \in findings : Filed(f) /\ (AlwaysReport(f) <=> f.eco = "none")
  BY DEF FiltersKept, Filed, AlwaysReport
<1>5. CASE SeverityFilter
  <2>1. stage = "filter" /\ stage' = "fix" /\ UNCHANGED unfixed
    BY <1>5 DEF SeverityFilter, Advance, After
  <2>2. /\ \A f \in withheld' : OutBySeverity(f)
        /\ \A f \in findings' : KeptBySeverity(f)
        /\ findings \subseteq findings' \cup withheld'
    BY <1>4, <1>5 DEF SeverityFilter, OutBySeverity, KeptBySeverity
  <2>3. unfixed = {}
    BY <2>1 DEF FiltersKept, Consulting
  <2>4. \A i \in config.requested : \E f \in findings' \cup withheld' \cup unfixed' : f.id = i
    <3>1. withheld = {}
      BY <2>1 DEF FiltersKept, Filtered, Consulting
    <3> QED
      BY <2>1, <2>2, <2>3, <3>1 DEF FiltersKept, Accounted
  <2>5. FiltersKept'
    BY <1>1, <1>4, <2>1, <2>2, <2>3, <2>4 DEF FiltersKept, OutBySeverity, KeptBySeverity, OutByFix, Consulting,
       Filed, AlwaysReport, Accounted, Filtered
  <2> QED
    BY <1>2, <1>3, <2>5
<1>6. CASE FixedOnlyFilter
  <2>1. stage = "fixedonly" /\ stage' = "vex" /\ UNCHANGED withheld
    BY <1>6 DEF FixedOnlyFilter, Advance, After
  <2>2. \A f \in findings : f.fix = HasFix[f.id] /\ KeptBySeverity(f)
    BY <2>1 DEF FiltersKept, Filtered
  <2>3. /\ \A f \in unfixed' : OutByFix(f)
        /\ findings \subseteq findings' \cup unfixed'
    BY <1>4, <1>6, <2>2 DEF FixedOnlyFilter, OutByFix
  <2>4. \A i \in config.requested : \E f \in findings' \cup withheld' \cup unfixed' : f.id = i
    <3>1. unfixed = {}
      BY <2>1 DEF FiltersKept, Consulting
    <3> QED
      BY <2>1, <2>3, <3>1 DEF FiltersKept, Accounted, Filtered
  <2>5. FiltersKept'
    BY <1>1, <1>4, <2>1, <2>2, <2>3, <2>4 DEF FiltersKept, OutBySeverity, KeptBySeverity, OutByFix, Consulting,
       Filed, AlwaysReport, Accounted, Filtered
  <2> QED
    BY <1>2, <1>3, <2>5
<1> QED
  BY <1>5, <1>6

\* The end of the hubs and the bill leave the rows as they are.
LEMMA ReadingKeepsHonest ==
  ASSUME IInv, HonestInv, HubsConsulted \/ AskLLM
  PROVE  HonestInv'
<1> USE DEF At, report, HonestInv, SkipOverlay
<1>1. /\ stage \in {"vex", "llm"} /\ Advance
      /\ UNCHANGED <<config, opened, scan, account, findings, withheld, unfixed, hubs>>
      /\ stage = "llm" => billed' \subseteq {Named(f) : f \in {g \in findings : Affected(g)}}
  BY DEF HubsConsulted, AskLLM, ToAssess
<1>2. /\ stage \in DOMAIN After \ {"filter", "fixedonly"} /\ stage \in Consulting /\ stage # "fix"
      /\ stage = "vex" => stage' = "feed"
      /\ stage = "llm" => stage' = "done"
  BY <1>1 DEF After, Consulting, Advance, Leave
<1>3. RunKept'
  BY <1>1, <1>2, OverlayKeepsRecord
<1>4. FiltersKept'
  BY <1>1, <1>2, RewritingKeepsFilters
<1>5. StatementsKept'
  <2>1. \A n \in DOMAIN hubs : /\ ConsultedOnce(n)' = ConsultedOnce(n)
                               /\ SpokenBy(hubs[n].url)' = SpokenBy(hubs[n].url)
    BY <1>1 DEF ConsultedOnce, SpokenBy
  <2>2. stage' \in Consulting
    BY <1>1, <1>2 DEF Consulting
  <2> QED
    BY <1>1, <1>2, <2>1, <2>2 DEF StatementsKept, Named, Affected
<1> QED
  BY <1>3, <1>4, <1>5

\* The feed speaks to the rows no hub spoke to, so the hubs' counts stand.
LEMMA FeedKeepsHonest ==
  ASSUME IInv, HonestInv, DistroFeed
  PROVE  HonestInv'
<1> USE DEF At, report, HonestInv, SkipOverlay, EachFinding
<1>1. /\ stage = "feed" /\ stage' = "llm" /\ Advance
      /\ UNCHANGED <<config, opened, scan, account, withheld, unfixed, hubs, billed>>
      /\ findings' = findings \/ findings' = {FeedSpoke(f) : f \in findings}
  BY DEF DistroFeed, After, Advance
<1>2. stage \in DOMAIN After \ {"filter", "fixedonly"} /\ stage \in Consulting /\ stage' \in Consulting
  BY <1>1 DEF After, Consulting
<1>3. findings \subseteq FindingType /\ hubs \in Seq([url : Hubs, error : BOOLEAN, matched : Nat])
  BY DEF IInv, TypeOK
<1>4. RunKept'
  BY <1>1, <1>2, OverlayKeepsRecord
<1>5. FiltersKept'
  <2>1. \A g \in findings' : \E f \in findings :
           /\ Filed(f) => Filed(g)
           /\ g.eco = f.eco /\ g.rating = f.rating
    BY <1>1, <1>3, RewrittenRows
  <2>2. \A f \in findings : \E g \in findings' : g.id = f.id
    BY <1>1, <1>3, RewrittenRows
  <2> QED
    BY <1>1, <1>2, <2>1, <2>2, RewritingKeepsFilters
<1>6. \A f \in findings : FeedSpoke(f) # f =>
        /\ f.vex = NoStatement
        /\ FeedSpoke(f).vex.by = "feed"
        /\ FeedSpoke(f).vex.says \in {"not_affected", "fixed"}
  <2> SUFFICES ASSUME NEW f \in findings, FeedSpoke(f) # f
               PROVE  /\ f.vex = NoStatement /\ FeedSpoke(f).vex.by = "feed"
                      /\ FeedSpoke(f).vex.says \in {"not_affected", "fixed"}
    OBVIOUS
  <2>1. /\ f.vex = NoStatement /\ FeedSays[f.id] \in {"not_affected", "fixed"}
        /\ FeedSpoke(f) = [f EXCEPT !.vex = [by |-> "feed", says |-> FeedSays[f.id]]]
    BY DEF FeedSpoke, Unspoken
  <2>2. FeedSpoke(f).vex = [by |-> "feed", says |-> FeedSays[f.id]]
    BY <1>3, <2>1 DEF FindingType
  <2> QED
    BY <2>1, <2>2
<1>7. \A h \in Hubs : SpokenBy(h)' = SpokenBy(h)
  <2>1. \A h \in Hubs, f \in findings : f.vex = NoStatement \/ f.vex.by = "feed" => f.vex.by # h
    BY Constants DEF NoStatement
  <2>2. \A h \in Hubs, f \in findings : FeedSpoke(f).vex.by = h \/ f.vex.by = h => FeedSpoke(f) = f
    BY <1>6, <2>1, Constants
  <2> SUFFICES ASSUME NEW h \in Hubs, findings' = {FeedSpoke(f) : f \in findings}
               PROVE  {f \in findings' : f.vex.by = h} = {f \in findings : f.vex.by = h}
    BY <1>1 DEF SpokenBy
  <2> QED
    BY <2>2
<1>8. \A n \in DOMAIN hubs : /\ ConsultedOnce(n)' = ConsultedOnce(n)
                             /\ SpokenBy(hubs[n].url)' = SpokenBy(hubs[n].url)
  <2>1. \A n \in DOMAIN hubs : hubs[n].url \in Hubs
    <3>1. \A n \in DOMAIN hubs : hubs[n] \in [url : Hubs, error : BOOLEAN, matched : Nat]
      BY <1>3, SeqElements
    <3> QED
      BY ONLY <3>1
  <2>2. hubs' = hubs
    BY <1>1
  <2> QED
    BY <1>7, <2>1, <2>2, Zenon DEF ConsultedOnce, SpokenBy
<1>9. \A f \in findings' : f.vex.by = "feed" => f.vex.says \in {"not_affected", "fixed"}
  BY <1>1, <1>6 DEF StatementsKept
<1>10. StatementsKept'
  BY <1>1, <1>2, <1>8, <1>9 DEF StatementsKept
<1> QED
  BY <1>4, <1>5, <1>10

\* A set and its image under an injective function are of one size.
LEMMA SameCount ==
  ASSUME NEW S, IsFiniteSet(S), NEW T, NEW m \in [S -> T],
         T = {m[x] : x \in S},
         \A x, y \in S : m[x] = m[y] => x = y
  PROVE  Cardinality(T) = Cardinality(S)
<1>1. m \in Surjection(S, T) /\ m \in Injection(S, T)
  BY DEF Surjection, Injection, IsInjective
<1> QED
  BY <1>1, FS_Surjection

\* A hub's result is the number of rows it speaks to: they carried no statement
\* before, and no row carried its own unless it had been consulted already.
LEMMA HubKeepsStatements ==
  ASSUME IInv, StatementsKept, stage = "vex", stage' = "vex",
         NEW h \in Hubs, NEW spoken \in SUBSET findings, NEW error,
         \A f \in spoken : f.vex = NoStatement,
         findings' = (findings \ spoken) \cup
           {[f EXCEPT !.vex = [by |-> h, says |-> HubSays[h][f.id]]] : f \in spoken},
         hubs' = Append(hubs, [url |-> h, error |-> error, matched |-> Cardinality(spoken)])
  PROVE  StatementsKept'
<1> DEFINE said(f) == [f EXCEPT !.vex = [by |-> h, says |-> HubSays[h][f.id]]]
           silenced(f) == [f EXCEPT !.vex = NoStatement]
           last == Len(hubs) + 1
           HubResult == [url : Hubs, error : BOOLEAN, matched : Nat]
<1>1. /\ findings \subseteq FindingType /\ spoken \subseteq FindingType /\ IsFiniteSet(spoken)
      /\ hubs \in Seq(HubResult)
  BY Constants, FS_Subset DEF IInv, TypeOK
<1>2. /\ DOMAIN hubs = 1 .. Len(hubs) /\ Len(hubs) \in Nat
      /\ \A n \in DOMAIN hubs : hubs[n] \in HubResult
  <2> HIDE DEF HubResult
  <2> QED
    BY <1>1, SeqElements
<1>3. \A n \in DOMAIN hubs : hubs[n].url \in Hubs
  BY ONLY <1>2
<1>4. /\ DOMAIN hubs' = DOMAIN hubs \cup {last}
      /\ \A n \in DOMAIN hubs : n # last /\ hubs'[n] = hubs[n]
      /\ hubs'[last].url = h /\ hubs'[last].matched = Cardinality(spoken)
  BY <1>1, <1>2
<1>5. \A f \in FindingType : /\ said(f).vex = [by |-> h, says |-> HubSays[h][f.id]]
                             /\ f.vex = NoStatement => silenced(said(f)) = f
  BY DEF FindingType
<1>6. findings' = (findings \ spoken) \cup {said(f) : f \in spoken}
  OBVIOUS
<1> HIDE DEF said, silenced, last
<1>6a. \A f \in spoken : said(f).vex.by = h
  <2>1. \A s : [by |-> h, says |-> s].by = h
    OBVIOUS
  <2> QED
    BY <1>1, <1>5, <2>1
<1>7. h # "nobody" /\ h # "feed" /\ NoStatement.by = "nobody"
  BY Constants DEF NoStatement
<1>8. \A f \in findings : f.vex = NoStatement \/ \E n \in DOMAIN hubs : f.vex.by = hubs[n].url
  BY DEF StatementsKept
<1>9. \A f \in findings' : f.vex = NoStatement \/ \E n \in DOMAIN hubs' : f.vex.by = hubs'[n].url
  BY <1>4, <1>6, <1>8, <1>6a
<1>10. \A n \in DOMAIN hubs' :
         ConsultedOnce(n)' => hubs'[n].matched = Cardinality({f \in findings' : f.vex.by = hubs'[n].url})
  <2> SUFFICES ASSUME NEW n \in DOMAIN hubs', \A m \in DOMAIN hubs' : hubs'[m].url = hubs'[n].url => m = n
               PROVE  hubs'[n].matched = Cardinality({f \in findings' : f.vex.by = hubs'[n].url})
    BY DEF ConsultedOnce
  <2>1. CASE n \in DOMAIN hubs
    <3>1. h # hubs[n].url /\ ConsultedOnce(n)
      BY <1>4, <2>1 DEF ConsultedOnce
    <3>2. {f \in findings' : f.vex.by = hubs[n].url} = SpokenBy(hubs[n].url)
      BY <1>3, <1>6, <1>7, <1>6a, <2>1, <3>1, Constants DEF SpokenBy
    <3>3. hubs'[n] = hubs[n] /\ hubs[n].matched = Cardinality(SpokenBy(hubs[n].url))
      BY <1>4, <2>1, <3>1 DEF StatementsKept
    <3> QED
      BY <3>2, <3>3
  <2>2. CASE n = last
    <3>1. \A f \in findings : f.vex.by # h
      BY <1>4, <1>7, <1>8, <2>2
    <3> DEFINE T == {said(f) : f \in spoken}
               m == [f \in spoken |-> said(f)]
    <3>2. {f \in findings' : f.vex.by = h} = T
      BY <1>6, <1>6a, <3>1
    <3>3. \A f, g \in spoken : said(f) = said(g) => f = g
      BY <1>1, <1>5
    <3>4. m \in [spoken -> T] /\ T = {m[f] : f \in spoken} /\ \A f, g \in spoken : m[f] = m[g] => f = g
      BY <3>3
    <3> HIDE DEF T, m
    <3>5. Cardinality(T) = Cardinality(spoken)
      BY <1>1, <3>4, SameCount
    <3> QED
      BY <1>4, <2>2, <3>2, <3>5
  <2> QED
    BY <1>4, <2>1, <2>2
<1>11. \A f \in findings' : f.vex.by = "feed" => f.vex.says \in {"not_affected", "fixed"}
  BY <1>6, <1>7, <1>6a DEF StatementsKept
<1> QED
  BY <1>9, <1>10, <1>11 DEF StatementsKept, SpokenBy, Consulting

LEMMA HubKeepsHonest ==
  ASSUME IInv, HonestInv, ConsultHub
  PROVE  HonestInv'
<1> USE DEF At, HonestInv
<1>1. /\ stage = "vex" /\ stage' = "vex"
      /\ UNCHANGED <<config, tree, scan, account, withheld, unfixed, billed>>
  BY DEF ConsultHub
<1> DEFINE h == config.hubs[Len(hubs) + 1]
           said(f) == [f EXCEPT !.vex = [by |-> h, says |-> HubSays[h][f.id]]]
<1>2. h \in Hubs /\ findings \subseteq FindingType
  BY Constants DEF IInv, TypeOK, ConfigType, ConsultHub
<1>3. \E spoken \in SUBSET findings, error \in BOOLEAN :
        /\ \A f \in spoken : f.vex = NoStatement
        /\ findings' = (findings \ spoken) \cup {said(f) : f \in spoken}
        /\ hubs' = Append(hubs, [url |-> h, error |-> error, matched |-> Cardinality(spoken)])
  <2>1. CASE UNCHANGED findings /\ hubs' = Append(hubs, [url |-> h, error |-> TRUE, matched |-> 0])
    <3>1. Cardinality({}) = 0 /\ findings' = (findings \ {}) \cup {said(f) : f \in {}}
      BY <2>1, FS_EmptySet
    <3> QED
      BY <2>1, <3>1
  <2>2. CASE ~(UNCHANGED findings /\ hubs' = Append(hubs, [url |-> h, error |-> TRUE, matched |-> 0]))
    BY <2>2 DEF ConsultHub, Unspoken
  <2> QED
    BY <2>1, <2>2
<1>4. PICK spoken \in SUBSET findings, error \in BOOLEAN :
        /\ \A f \in spoken : f.vex = NoStatement
        /\ findings' = (findings \ spoken) \cup {said(f) : f \in spoken}
        /\ hubs' = Append(hubs, [url |-> h, error |-> error, matched |-> Cardinality(spoken)])
  BY <1>3
<1>5. StatementsKept'
  <2> HIDE DEF h
  <2> QED
    BY <1>1, <1>2, <1>4, HubKeepsStatements
<1>6. RunKept'
  BY <1>1 DEF RunKept, scan, account, Analyzers, Mode
<1>7. FiltersKept'
  <2>1. \A f \in FindingType : /\ said(f).id = f.id /\ said(f).eco = f.eco /\ said(f).reason = f.reason
                               /\ said(f).status = f.status /\ said(f).rating = f.rating
    BY DEF FindingType
  <2> HIDE DEF said, h
  <2>2. \A g \in findings' : \E f \in findings : g.id = f.id /\ g.eco = f.eco /\ g.rating = f.rating /\ (Filed(f) => Filed(g))
    BY <1>2, <1>4, <2>1 DEF Filed, AlwaysReport
  <2>3. \A f \in findings : \E g \in findings' : g.id = f.id
    BY <1>2, <1>4, <2>1
  <2>4. \A f \in findings' : Filed(f) /\ KeptBySeverity(f)
    BY <1>1, <2>2 DEF FiltersKept, KeptBySeverity, Filtered, Consulting
  <2>5. \A i \in config.requested : \E f \in findings' \cup withheld \cup unfixed : f.id = i
    BY <1>1, <2>3 DEF FiltersKept, Accounted, Filtered, Consulting
  <2> QED
    BY <1>1, <2>4, <2>5 DEF FiltersKept, KeptBySeverity, OutBySeverity, OutByFix, Filed, AlwaysReport, Filtered, Consulting
<1> QED
  BY <1>5, <1>6, <1>7

LEMMA StutterKeepsHonest ==
  ASSUME HonestInv, UNCHANGED vars
  PROVE  HonestInv'
<1> USE DEF HonestInv, vars
<1>1. RunKept'
  BY DEF RunKept, Analyzers, Mode
<1>2. FiltersKept'
  BY DEF FiltersKept, OutBySeverity, OutByFix, KeptBySeverity
<1>3. StatementsKept'
  <2>1. \A n \in DOMAIN hubs : /\ ConsultedOnce(n)' = ConsultedOnce(n)
                               /\ SpokenBy(hubs[n].url)' = SpokenBy(hubs[n].url)
    BY DEF ConsultedOnce, SpokenBy
  <2> QED
    BY <2>1 DEF StatementsKept, Named, Affected
<1> QED
  BY <1>1, <1>2, <1>3

\* What the runs of the analyzers, the filters and the sources of statements
\* leave behind is an invariant of every scan.
THEOREM AccountsKept == Spec => []HonestInv
<1>1. Init => HonestInv
  BY InitHonest
<1>2. IInv /\ HonestInv /\ [Next]_vars => HonestInv'
  <2> SUFFICES ASSUME IInv, HonestInv, [Next]_vars PROVE HonestInv'
    OBVIOUS
  <2>1. CASE ReadRPMs \/ ReadSBOM \/ Plan \/ OpenTree
    BY <2>1, OpeningKeepsHonest
  <2>2. CASE Collect
    BY <2>2, CollectKeepsHonest
  <2>3. CASE Guard \/ Severity \/ PreferVendor \/ FixedVersions
    BY <2>3, MappingKeepsHonest
  <2>4. CASE SeverityFilter \/ FixedOnlyFilter
    BY <2>4, FilteringKeepsHonest
  <2>5. CASE HubsConsulted \/ AskLLM
    BY <2>5, ReadingKeepsHonest
  <2>6. CASE ConsultHub
    BY <2>6, HubKeepsHonest
  <2>7. CASE DistroFeed
    BY <2>7, FeedKeepsHonest
  <2>8. CASE Ended \/ UNCHANGED vars
    BY <2>8, StutterKeepsHonest DEF Ended
  <2> QED
    BY <2>1, <2>2, <2>3, <2>4, <2>5, <2>6, <2>7, <2>8 DEF Next, Overlay
<1> QED
  BY <1>1, <1>2, Inductive, PTL DEF Spec

\* The filters of analyze.Run hide what they were asked to hide and nothing
\* else: a row is withheld on its final rating and its published fixes, a
\* placeholder never is, and every requested id is somewhere in the result.
THEOREM FiltersAreJust == Spec => []WithheldJustly
<1>1. HonestInv => WithheldJustly
  <2> SUFFICES ASSUME HonestInv, stage = "done" PROVE WithheldJustly
    BY DEF WithheldJustly
  <2>1. stage \in Accounted /\ stage \in Filtered
    BY DEF Accounted, Filtered, Consulting
  <2> QED
    BY <2>1 DEF HonestInv, FiltersKept, WithheldJustly, OutBySeverity, OutByFix, KeptBySeverity
<1> QED
  BY <1>1, AccountsKept, PTL

\* A result of analyze.Run that shows and withholds nothing and records no
\* failure is of a target that was examined, and the counts of a result are
\* those of its rows.
THEOREM ReportsAreHonest == Spec => []ReportIsHonest
<1>1. HonestInv => SilenceIsClean
  <2> SUFFICES ASSUME HonestInv, stage = "done", findings \cup withheld \cup unfixed = {}, ~Failed
               PROVE  /\ \E e \in Ecosystems : ran[e] = "ok"
                      /\ \A e \in Ecosystems : ran[e] # "error"
                      /\ lost = {} /\ config.requested = {}
    BY DEF SilenceIsClean
  <2>1. stage \in Accounted
    BY DEF Accounted, Filtered, Consulting
  <2> QED
    BY <2>1 DEF HonestInv, RunKept, FiltersKept, Failed
<1>2. HonestInv => HonestCounts
  BY DEF HonestInv, StatementsKept, HonestCounts
<1> QED
  BY <1>1, <1>2, AccountsKept, PTL DEF ReportIsHonest

-----------------------------------------------------------------------------
(***************************************************************************)
(* A distribution's feed.                                                  *)
(*                                                                         *)
(* The feed never takes an outage for silence, downloads everything at     *)
(* most once, keeps to its tokens, and clears nothing its documents leave  *)
(* open: for every number of CVEs, findings, products and tokens, every    *)
(* failure and a cancellation at any time.                                 *)
(*                                                                         *)
(* What was downloaded is tied to what is remembered: a goroutine past the *)
(* cache check found nothing there, the index is counted exactly when it   *)
(* is known, and only one goroutine at a time is after it.  What is said   *)
(* of a finding changes in the one step that ends the verdict pass, and    *)
(* nothing is read after it.                                               *)
(***************************************************************************)

\* The index's mutex: one goroutine asks for it, and only while it is unread.
IndexLocked ==
  /\ \A c, d \in CVEs : pc[c] = "indexing" /\ pc[d] = "indexing" => c = d
  /\ \A c \in CVEs : pc[c] = "indexing" => index = "unread"
  /\ indexes = IF index = "unread" THEN 0 ELSE 1

\* The index is known as what the feed publishes.
IndexKnown == (index = "listed" => hasIndex) /\ (index = "none" => ~hasIndex)

\* A goroutine that is about to download found nothing remembered, and what is
\* not remembered has not been answered.
DownloadsCounted ==
  \A c \in CVEs :
    /\ pc[c] \in {"index", "indexing", "request"} => cache[c] = "absent"
    /\ cache[c] = "absent" => replies[c] = 0
    /\ replies[c] <= 1

\* No finding has more than a hub's statement before the verdict pass ends, and
\* after it no document is read.
SaidAtTheEnd ==
  /\ phase # "over" => \A r \in Refs : vex[r] = IF r \in HubSpoke THEN "hub" ELSE "none"
  /\ phase = "over" /\ os = "sles" => Collected

FeedIInv == /\ FeedTypeOK /\ IndexLocked /\ IndexKnown /\ DownloadsCounted /\ OutageIsNotSilence
        /\ SaidAtTheEnd /\ ClearsJustly

-----------------------------------------------------------------------------
(* Lemmas about the verdicts                                               *)

\* A document that does not leave a package affected has, for each product the
\* image's CPE selects, a list that rules it out, or none (classify).
LEMMA NoProductAffected ==
  ASSUME NEW lists \in SuseLists, ProductVerdict(lists) # "affected"
  PROVE  "not_affected" \in lists \/ "fix_reached" \in lists \/ lists = {}
<1> SUFFICES ASSUME "not_affected" \notin lists, "fix_reached" \notin lists PROVE lists = {}
  OBVIOUS
<1>1. "fix_newer" \notin lists
  BY DEF ProductVerdict
<1>2. lists \subseteq {"affected"}
  BY <1>1 DEF SuseLists
<1>3. lists # {"affected"}
  BY <1>1 DEF ProductVerdict
<1> QED
  BY <1>2, <1>3

\* One affected product makes the document's verdict.
LEMMA AffectedDecides ==
  ASSUME NEW S, DocVerdict(S) # "affected" PROVE "affected" \notin S
BY DEF DocVerdict

\* A statement that clears is made only when no id of the finding is affected.
LEMMA ClearMeansNoneAffected ==
  ASSUME NEW verdicts, Exculpatory(SuseStatement(verdicts))
  PROVE  \A i \in DOMAIN verdicts : verdicts[i] # "affected"
BY DEF SuseStatement, Exculpatory

\* The feed answers for CVEs of the scan only.
LEMMA AvailableAreCVEs == Available \subseteq CVEs
BY FeedAssumption DEF Available

-----------------------------------------------------------------------------
(* The start                                                               *)

LEMMA FeedInitIInv == FeedInit => FeedIInv
<1> SUFFICES ASSUME FeedInit PROVE FeedIInv
  OBVIOUS
<1> USE DEF FeedInit
<1>1. FeedTypeOK
  BY FeedAssumption DEF FeedTypeOK, Launched, Unanswered
<1>2. IndexLocked /\ IndexKnown /\ DownloadsCounted /\ OutageIsNotSilence
  BY AvailableAreCVEs DEF IndexLocked, IndexKnown, DownloadsCounted, OutageIsNotSilence, Launched, Unanswered
<1>3. SaidAtTheEnd
  BY DEF SaidAtTheEnd
<1>4. ClearsJustly
  BY FeedAssumption DEF ClearsJustly, FailsClosed, HubOutranksFeed
<1> QED
  BY <1>1, <1>2, <1>3, <1>4 DEF FeedIInv

-----------------------------------------------------------------------------
(* One goroutine                                                           *)

\* What no step of a goroutine touches.
Apart == UNCHANGED <<os, hasIndex, keyed, phase, rated, vex>>

\* A goroutine runs only while its pass does, so what is said is not disturbed.
LEMMA FetchSays ==
  ASSUME FeedIInv, NEW c \in CVEs, pc[c] \notin {"idle", "done"}, Apart
  PROVE  SaidAtTheEnd' /\ ClearsJustly'
<1> USE DEF FeedIInv, Apart
<1>1. ~(phase = "over" /\ os = "sles")
  BY DEF SaidAtTheEnd, Collected
<1>2. SaidAtTheEnd'
  BY <1>1 DEF SaidAtTheEnd
<1>3. ClearsJustly'
  BY <1>1 DEF ClearsJustly, FailsClosed, HubOutranksFeed
<1> QED
  BY <1>2, <1>3

\* Steps that move a goroutine without downloading: to its slot, to the index,
\* or to its end with what is remembered or an error.
LEMMA AcquireIInv ==
  ASSUME FeedIInv, NEW c \in CVEs, Acquire(c) \/ GiveUp(c) \/ IndexFailed(c) \/ DocumentFailed(c)
  PROVE  FeedIInv'
<1> USE DEF FeedIInv, Acquire, GiveUp, IndexFailed, DocumentFailed, FailedAnswer, Send, Goto
<1>1. FeedTypeOK'
  BY DEF FeedTypeOK
<1>2. IndexLocked'
  BY DEF IndexLocked, FeedTypeOK
<1>3. IndexKnown'
  BY DEF IndexKnown
<1>4. DownloadsCounted'
  BY DEF DownloadsCounted, FeedTypeOK
<1>5. OutageIsNotSilence'
  BY AvailableAreCVEs DEF OutageIsNotSilence, Available, FeedTypeOK
<1>6. SaidAtTheEnd' /\ ClearsJustly'
  BY FetchSays DEF Apart
<1> QED
  BY <1>1, <1>2, <1>3, <1>4, <1>5, <1>6

LEMMA CheckCacheIInv ==
  ASSUME FeedIInv, NEW c \in CVEs, CheckCache(c)
  PROVE  FeedIInv'
<1> USE DEF FeedIInv, CheckCache, Remembered, Send, Goto
<1>1. FeedTypeOK'
  BY DEF FeedTypeOK
<1>2. IndexLocked'
  BY DEF IndexLocked, FeedTypeOK
<1>3. IndexKnown'
  BY DEF IndexKnown
<1>4. DownloadsCounted'
  BY DEF DownloadsCounted, FeedTypeOK
<1>5. OutageIsNotSilence'
  BY AvailableAreCVEs DEF OutageIsNotSilence, Available, FeedTypeOK
<1>6. SaidAtTheEnd' /\ ClearsJustly'
  BY FetchSays DEF Apart
<1> QED
  BY <1>1, <1>2, <1>3, <1>4, <1>5, <1>6

\* An unlisted CVE is one the feed has no record of.
LEMMA LockIndexIInv ==
  ASSUME FeedIInv, NEW c \in CVEs, LockIndex(c)
  PROVE  FeedIInv'
<1> USE DEF FeedIInv, LockIndex, Resolve, Send, Goto
<1>1. FeedTypeOK'
  BY DEF FeedTypeOK
<1>2. IndexLocked'
  BY DEF IndexLocked, FeedTypeOK, InIndex
<1>3. IndexKnown'
  BY DEF IndexKnown
<1>4. DownloadsCounted'
  BY DEF DownloadsCounted, FeedTypeOK
<1>5. OutageIsNotSilence'
  BY AvailableAreCVEs DEF OutageIsNotSilence, Available, FeedTypeOK, IndexKnown
<1>6. SaidAtTheEnd' /\ ClearsJustly'
  BY FetchSays DEF Apart
<1> QED
  BY <1>1, <1>2, <1>3, <1>4, <1>5, <1>6

LEMMA IndexAnsweredIInv ==
  ASSUME FeedIInv, NEW c \in CVEs, IndexAnswered(c)
  PROVE  FeedIInv'
<1> USE DEF FeedIInv, IndexAnswered, Resolve, Send, Goto
<1>1. FeedTypeOK'
  BY DEF FeedTypeOK
<1>2. IndexLocked'
  BY DEF IndexLocked, FeedTypeOK
<1>3. IndexKnown'
  BY DEF IndexKnown
<1>4. DownloadsCounted'
  BY DEF DownloadsCounted, FeedTypeOK
<1>5. OutageIsNotSilence'
  BY AvailableAreCVEs DEF OutageIsNotSilence, Available, FeedTypeOK
<1>6. SaidAtTheEnd' /\ ClearsJustly'
  BY FetchSays DEF Apart
<1> QED
  BY <1>1, <1>2, <1>3, <1>4, <1>5, <1>6

LEMMA DocumentAnsweredIInv ==
  ASSUME FeedIInv, NEW c \in CVEs, DocumentAnswered(c)
  PROVE  FeedIInv'
<1> USE DEF FeedIInv, DocumentAnswered, Send, Goto
<1>1. FeedTypeOK'
  BY DEF FeedTypeOK
<1>2. IndexLocked'
  BY DEF IndexLocked, FeedTypeOK
<1>3. IndexKnown'
  BY DEF IndexKnown
<1>4. DownloadsCounted'
  BY DEF DownloadsCounted, FeedTypeOK
<1>5. OutageIsNotSilence'
  BY AvailableAreCVEs DEF OutageIsNotSilence, Available, FeedTypeOK
<1>6. SaidAtTheEnd' /\ ClearsJustly'
  BY FetchSays DEF Apart
<1> QED
  BY <1>1, <1>2, <1>3, <1>4, <1>5, <1>6

-----------------------------------------------------------------------------
(* The passes                                                              *)

LEMMA EndScoresIInv == FeedIInv /\ EndScores => FeedIInv'
<1> SUFFICES ASSUME FeedIInv, EndScores PROVE FeedIInv'
  OBVIOUS
<1> USE DEF FeedIInv, EndScores, Launched, Unanswered
<1>1. FeedTypeOK'
  BY FeedAssumption DEF FeedTypeOK
<1>2. IndexLocked' /\ IndexKnown' /\ DownloadsCounted'
  BY DEF IndexLocked, IndexKnown, DownloadsCounted, FeedTypeOK
<1>3. OutageIsNotSilence'
  BY AvailableAreCVEs DEF OutageIsNotSilence, Available
<1>4. SaidAtTheEnd' /\ ClearsJustly'
  BY DEF SaidAtTheEnd, ClearsJustly, FailsClosed, HubOutranksFeed
<1> QED
  BY <1>1, <1>2, <1>3, <1>4

\* What a statement does to a finding: nothing where a hub has spoken, and
\* nothing but a clear where it has not.
LEMMA AppliedKeeps ==
  ASSUME FeedIInv, phase # "over", NEW r \in Refs, NEW status
  PROVE  /\ Applied(r, status) \in {"none", "hub", "not_affected", "fixed"}
         /\ r \in HubSpoke => Applied(r, status) = "hub"
         /\ r \notin HubSpoke /\ Exculpatory(Applied(r, status)) => Exculpatory(status)
BY DEF FeedIInv, SaidAtTheEnd, Applied, Exculpatory

LEMMA SuseLookupIInv == FeedIInv /\ SuseLookup => FeedIInv'
<1> SUFFICES ASSUME FeedIInv, SuseLookup PROVE FeedIInv'
  OBVIOUS
<1> USE DEF FeedIInv, SuseLookup
<1>1. \A r \in Refs : vex'[r] = IF keyed /\ r \in OSRefs THEN Applied(r, SuseSays(r)) ELSE vex[r]
  BY DEF Apply, FeedTypeOK
<1>2. FeedTypeOK'
  <2>1. vex' \in [Refs -> {"none", "hub", "not_affected", "fixed"}]
    BY AppliedKeeps DEF Apply, FeedTypeOK
  <2> QED
    BY <2>1 DEF FeedTypeOK
<1>3. IndexLocked' /\ IndexKnown' /\ DownloadsCounted' /\ OutageIsNotSilence'
  BY DEF IndexLocked, IndexKnown, DownloadsCounted, OutageIsNotSilence, Available
<1>4. SaidAtTheEnd'
  BY DEF SaidAtTheEnd, Collected
<1>5. HubOutranksFeed'
  BY <1>1, AppliedKeeps, FeedAssumption DEF ClearsJustly, HubOutranksFeed
<1>6. FailsClosed'
  <2> SUFFICES ASSUME NEW r \in OSRefs \ HubSpoke, Exculpatory(vex'[r]),
                      NEW c \in ToSet(Bundle[r]), Read(c), NEW p \in Products
               PROVE  LET lists == Lists[c][p][r]
                      IN  "not_affected" \in lists \/ "fix_reached" \in lists \/ lists = {}
    BY DEF FailsClosed, Read
  <2>1. r \in Refs /\ c \in CVEs /\ Lists[c][p][r] \in SuseLists
    BY FeedAssumption DEF ToSet
  <2>2. vex[r] = "none"
    BY <2>1 DEF SaidAtTheEnd
  <2>3. Exculpatory(SuseSays(r))
    BY <1>1, <2>1, <2>2, AppliedKeeps DEF Exculpatory
  <2>4. \A i \in DOMAIN Bundle[r] : Verdict(Bundle[r][i], r) # "affected"
    BY <2>3, ClearMeansNoneAffected DEF SuseSays
  <2>5. Verdict(c, r) # "affected"
    BY <2>4 DEF ToSet
  <2>6. "affected" \notin {ProductVerdict(Lists[c][q][r]) : q \in Products}
    BY <2>5, AffectedDecides DEF Verdict
  <2>7. ProductVerdict(Lists[c][p][r]) # "affected"
    BY <2>6
  <2> QED
    BY <2>1, <2>7, NoProductAffected
<1>7. ClearsJustly'
  BY <1>5, <1>6 DEF ClearsJustly
<1> QED
  BY <1>2, <1>3, <1>4, <1>7

LEMMA DebianLookupIInv == FeedIInv /\ DebianLookup => FeedIInv'
<1> SUFFICES ASSUME FeedIInv, DebianLookup PROVE FeedIInv'
  OBVIOUS
<1> USE DEF FeedIInv, DebianLookup
<1>1. \/ \A r \in Refs : vex'[r] = IF r \in OSRefs THEN Applied(r, DebianSays(r)) ELSE vex[r]
      \/ vex' = vex
  BY DEF Apply, FeedTypeOK
<1>2. FeedTypeOK'
  <2>1. vex' \in [Refs -> {"none", "hub", "not_affected", "fixed"}]
    BY AppliedKeeps DEF Apply, FeedTypeOK
  <2> QED
    BY <2>1 DEF FeedTypeOK
<1>3. IndexLocked' /\ IndexKnown' /\ DownloadsCounted' /\ OutageIsNotSilence'
  BY DEF IndexLocked, IndexKnown, DownloadsCounted, OutageIsNotSilence, Available
<1>4. SaidAtTheEnd'
  BY DEF SaidAtTheEnd
<1>5. HubOutranksFeed'
  BY <1>1, AppliedKeeps, FeedAssumption DEF ClearsJustly, HubOutranksFeed
<1>6. ClearsJustly'
  BY <1>5 DEF ClearsJustly, FailsClosed
<1> QED
  BY <1>2, <1>3, <1>4, <1>6

LEMMA FeedNextIInv == FeedIInv /\ [FeedNext]_feedVars => FeedIInv'
<1> SUFFICES ASSUME FeedIInv, [FeedNext]_feedVars PROVE FeedIInv'
  OBVIOUS
<1>1. ASSUME NEW c \in CVEs, Fetch(c) PROVE FeedIInv'
  BY <1>1, AcquireIInv, CheckCacheIInv, LockIndexIInv, IndexAnsweredIInv, DocumentAnsweredIInv DEF Fetch
<1>2. CASE Passes
  BY <1>2, EndScoresIInv, SuseLookupIInv, DebianLookupIInv DEF Passes
<1>3. CASE Cancel
  <2>1. FeedTypeOK'
    BY <1>3 DEF FeedIInv, Cancel, FeedTypeOK
  <2>2. IndexLocked' /\ IndexKnown' /\ DownloadsCounted' /\ OutageIsNotSilence'
    BY <1>3 DEF FeedIInv, Cancel, IndexLocked, IndexKnown, DownloadsCounted, OutageIsNotSilence, Available
  <2>3. SaidAtTheEnd' /\ ClearsJustly'
    BY <1>3 DEF FeedIInv, Cancel, SaidAtTheEnd, ClearsJustly, FailsClosed, HubOutranksFeed, Collected, Read
  <2> QED
    BY <2>1, <2>2, <2>3 DEF FeedIInv
<1>4. CASE Done \/ UNCHANGED feedVars
  <2>1. UNCHANGED feedVars
    BY <1>4 DEF Done
  <2>2. FeedTypeOK'
    BY <2>1 DEF FeedIInv, feedVars, FeedTypeOK
  <2>3. IndexLocked' /\ IndexKnown' /\ DownloadsCounted' /\ OutageIsNotSilence'
    BY <2>1 DEF FeedIInv, feedVars, IndexLocked, IndexKnown, DownloadsCounted, OutageIsNotSilence, Available
  <2>4. SaidAtTheEnd' /\ ClearsJustly'
    BY <2>1 DEF FeedIInv, feedVars, SaidAtTheEnd, ClearsJustly, FailsClosed, HubOutranksFeed, Collected, Read
  <2> QED
    BY <2>2, <2>3, <2>4 DEF FeedIInv
<1> QED
  BY <1>1, <1>2, <1>3, <1>4 DEF FeedNext

THEOREM FeedInductive == FeedSpec => []FeedIInv
BY FeedInitIInv, FeedNextIInv, PTL DEF FeedSpec

-----------------------------------------------------------------------------
(* What follows                                                            *)

\* Each variable stays what the feed's code declares it to be.
THEOREM FeedTypes == FeedSpec => []FeedTypeOK
<1>1. FeedIInv => FeedTypeOK
  BY DEF FeedIInv
<1> QED
  BY <1>1, FeedInductive, PTL

\* An outage never reads, and is never remembered, as a vendor with nothing to
\* say (document, docURL, fetchAll).
THEOREM NeverSilenced == FeedSpec => []OutageIsNotSilence
<1>1. FeedIInv => OutageIsNotSilence
  BY DEF FeedIInv
<1> QED
  BY <1>1, FeedInductive, PTL

\* One conclusive download of each document and of the index, over both passes.
THEOREM DownloadedOnce == FeedSpec => []OneDownload
<1>1. FeedIInv => OneDownload
  BY DEF FeedIInv, OneDownload, IndexLocked, DownloadsCounted
<1> QED
  BY <1>1, FeedInductive, PTL

\* What the feed clears its documents clear, in every product and by every
\* alias, and it leaves alone what a hub answered and what is not the OS's
\* (statementFor, applyStatement).
THEOREM FeedClearsJustly == FeedSpec => []ClearsJustly
<1>1. FeedIInv => ClearsJustly
  BY DEF FeedIInv
<1> QED
  BY <1>1, FeedInductive, PTL

\* Never more documents in the making than the semaphore has slots.
SlotsBounded == Cardinality(Holders) <= MaxParallel

\* A step that takes no slot.
LEMMA HoldersShrink ==
  ASSUME SlotsBounded, Holders' \subseteq Holders
  PROVE  SlotsBounded'
<1>1. IsFiniteSet(Holders)
  BY FeedAssumption, FS_Subset DEF Holders
<1>2. Cardinality(Holders') <= Cardinality(Holders)
  BY <1>1, FS_Subset
<1>3. Cardinality(Holders) \in Nat /\ Cardinality(Holders') \in Nat
  BY <1>1, FS_Subset, FS_CardinalityType
<1> QED
  BY <1>2, <1>3, FeedAssumption DEF SlotsBounded

LEMMA AcquireBounded ==
  ASSUME FeedTypeOK, NEW c \in CVEs, Acquire(c)
  PROVE  SlotsBounded'
<1>1. IsFiniteSet(Holders)
  BY FeedAssumption, FS_Subset DEF Holders
<1>2. c \notin Holders /\ Holders' = Holders \cup {c}
  BY DEF Holders, Acquire, Goto, FeedTypeOK
<1>3. Cardinality(Holders') = Cardinality(Holders) + 1
  BY <1>1, <1>2, FS_AddElement
<1>4. Cardinality(Holders) < MaxParallel /\ Cardinality(Holders) \in Nat
  BY <1>1, FS_CardinalityType DEF Acquire
<1> QED
  BY <1>3, <1>4, FeedAssumption DEF SlotsBounded

\* maxParallel holds however the fetches end (fetchAll's semaphore).
THEOREM SlotsKept == FeedSpec => []SlotsBounded
<1>1. FeedInit => SlotsBounded
  <2> SUFFICES ASSUME FeedInit PROVE SlotsBounded
    OBVIOUS
  <2>1. Holders = {}
    BY DEF FeedInit, Holders, Launched
  <2> QED
    BY <2>1, FS_EmptySet, FeedAssumption DEF SlotsBounded
<1>2. FeedIInv /\ SlotsBounded /\ [FeedNext]_feedVars => SlotsBounded'
  <2> SUFFICES ASSUME FeedTypeOK, SlotsBounded, [FeedNext]_feedVars PROVE SlotsBounded'
    BY DEF FeedIInv
  <2>1. ASSUME NEW c \in CVEs, Fetch(c) PROVE SlotsBounded'
    <3>1. CASE Acquire(c)
      BY <3>1, AcquireBounded
    <3>2. CASE ~Acquire(c)
      <4>1. Holders' \subseteq Holders
        BY <3>2, <2>1 DEF Fetch, GiveUp, CheckCache, LockIndex, IndexAnswered, IndexFailed, DocumentAnswered,
           DocumentFailed, FailedAnswer, Resolve, Send, Goto, Holders, FeedTypeOK
      <4> QED
        BY <4>1, HoldersShrink
    <3> QED
      BY <3>1, <3>2
  <2>2. CASE Passes
    <3>1. Holders' \subseteq Holders
      BY <2>2 DEF Passes, EndScores, SuseLookup, DebianLookup, Launched, Holders, FeedTypeOK
    <3> QED
      BY <3>1, HoldersShrink
  <2>3. CASE Cancel \/ Done \/ UNCHANGED feedVars
    <3>1. Holders' \subseteq Holders
      BY <2>3 DEF Cancel, Done, feedVars, Holders
    <3> QED
      BY <3>1, HoldersShrink
  <2> QED
    BY <2>1, <2>2, <2>3 DEF FeedNext
<1> QED
  BY <1>1, <1>2, FeedInductive, PTL DEF FeedSpec
=============================================================================
