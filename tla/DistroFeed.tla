------------------------------ MODULE DistroFeed ------------------------------
(***************************************************************************)
(* A distribution's security feed during one scan: SUSE's documents, one   *)
(* per CVE, fetched by a goroutine each under a semaphore, memoised in a   *)
(* cache that the score pass (--prefer-vendor) and the verdict pass share, *)
(* at paths an index lists that is fetched under a mutex of its own; or    *)
(* Debian's tracker, read whole or not at all.  The verdicts then reach    *)
(* the findings through analyze.applyStatement.                            *)
(***************************************************************************)
EXTENDS Integers, FiniteSets, DistroVerdicts

CONSTANTS
  CVEs,
  Refs,         \* the findings of the scan
  OSRefs,       \* those of the OS plugin, which a feed can speak to
  HubSpoke,     \* those a --vexhub statement already answers
  Bundle,       \* Bundle[r]: the CVE ids the finding goes by, in order
  MaxParallel,  \* maxParallel
  Distros,      \* the os-release ids considered
  Products,     \* the products that carry the image's CPE
  Published,    \* the CVEs SUSE has a document for
  Listed,       \* the CVEs its index names
  IndexKinds,   \* whether the feed may publish an index, or none
  Lists,        \* Lists[c][p][r]: the status lists naming r's package
  Row           \* Row[c][r]: the tracker's row for r's source package

ASSUME FeedAssumption ==
  /\ IsFiniteSet(CVEs)
  /\ OSRefs \subseteq Refs /\ HubSpoke \subseteq Refs
  /\ Bundle \in [Refs -> Seq(CVEs)]
  /\ MaxParallel \in Nat \ {0}
  /\ Distros \subseteq {"sles", "debian"}
  /\ Published \subseteq CVEs /\ Listed \subseteq CVEs
  /\ IndexKinds \subseteq BOOLEAN
  /\ Lists \in [CVEs -> [Products -> [Refs -> SuseLists]]]
  /\ Row \in [CVEs -> [Refs -> DebianRows]]

VARIABLES
  os,        \* os-release ID
  hasIndex,  \* the feed publishes an index
  keyed,     \* os-release named a CPE (SUSE) or a known release (Debian)
  phase,     \* the pass being made
  pc,        \* where the goroutine of each CVE is
  index,     \* "unread", "none" (404) or "listed"
  cache,     \* cache[c]: "absent", "nil" (no record) or "doc"
  answer,    \* what the goroutine of c sent on the results channel
  canceled,  \* the scan's context has been canceled
  replies,   \* replies[c]: conclusive responses for c's document so far
  indexes,   \* conclusive responses for the index so far
  rated,     \* findings rescored by the vendor
  vex        \* vex[r]: the statement attached to a finding

feedVars == <<os, hasIndex, keyed, phase, pc, index, cache, answer, canceled, replies, indexes,
          rated, vex>>

CVEsOf(R) == UNION {ToSet(Bundle[r]) : r \in R}

\* One goroutine per CVE of the pass.
Launched(S) == [c \in CVEs |-> IF c \in S THEN "select" ELSE "idle"]

Unanswered == [c \in CVEs |-> "none"]

\* The CVEs the verdict pass fetches: none for a feed that has to decline.
Looked == IF os = "sles" /\ keyed THEN CVEsOf(OSRefs) ELSE {}

FeedInit ==
  /\ os \in Distros
  /\ hasIndex \in IndexKinds
  /\ keyed \in BOOLEAN
  /\ \/ phase = "scores" /\ pc = Launched(CVEsOf(Refs))
     \/ phase = "lookup" /\ pc = Launched(Looked)
  /\ index = "unread"
  /\ cache = [c \in CVEs |-> "absent"]
  /\ answer = Unanswered
  /\ canceled = FALSE
  /\ replies = [c \in CVEs |-> 0]
  /\ indexes = 0
  /\ rated = {}
  /\ vex = [r \in Refs |-> IF r \in HubSpoke THEN "hub" ELSE "none"]

-----------------------------------------------------------------------------
(* The goroutine of one CVE                                                *)

\* Mutant: a goroutine that fails keeps its slot.
HoldersLeaking ==
  {c \in CVEs : \/ pc[c] \in {"cached", "index", "indexing", "request"}
                \/ pc[c] = "done" /\ answer[c] = "err"}

\* A slot is given back however the fetch ended.
Holders == {c \in CVEs : pc[c] \in {"cached", "index", "indexing", "request"}}

Goto(c, place) == pc' = [pc EXCEPT ![c] = place]

\* A goroutine's result goes to a channel with room for all of them; then it
\* gives its slot back.
Send(c, what) ==
  /\ answer' = [answer EXCEPT ![c] = what]
  /\ Goto(c, "done")

Acquire(c) ==
  /\ pc[c] = "select"
  /\ Cardinality(Holders) < MaxParallel
  /\ Goto(c, "cached")
  /\ UNCHANGED <<os, hasIndex, keyed, phase, index, cache, answer, canceled, replies, indexes, rated, vex>>

GiveUp(c) ==
  /\ pc[c] = "select"
  /\ canceled
  /\ Send(c, "err")
  /\ UNCHANGED <<os, hasIndex, keyed, phase, index, cache, canceled, replies, indexes, rated, vex>>

\* Mutant: a remembered "no record" counts as never fetched.
RememberedDocsOnly(c) == cache[c] = "doc"

\* cached: a remembered 404 is an answer too.
Remembered(c) == cache[c] # "absent"

CheckCache(c) ==
  /\ pc[c] = "cached"
  /\ IF Remembered(c)
     THEN Send(c, cache[c])
     ELSE Goto(c, "index") /\ UNCHANGED answer
  /\ UNCHANGED <<os, hasIndex, keyed, phase, index, cache, canceled, replies, indexes, rated, vex>>

InIndex == {c \in CVEs : pc[c] = "indexing"}

\* docURL once the index is known: an unlisted CVE has no record, and that is
\* remembered; a feed without an index has its documents at a fixed path.
Resolve(c, known) ==
  IF known = "listed" /\ c \notin Listed
  THEN cache' = [cache EXCEPT ![c] = "nil"] /\ Send(c, "nil")
  ELSE Goto(c, "request") /\ UNCHANGED <<cache, answer>>

\* The index is fetched while its mutex is held; the mutex is free again
\* before the document is asked for.
LockIndex(c) ==
  /\ pc[c] = "index"
  /\ InIndex = {}
  /\ IF index = "unread"
     THEN Goto(c, "indexing") /\ UNCHANGED <<cache, answer>>
     ELSE Resolve(c, index)
  /\ UNCHANGED <<os, hasIndex, keyed, phase, index, canceled, replies, indexes, rated, vex>>

IndexAnswered(c) ==
  /\ pc[c] = "indexing"
  /\ ~canceled
  /\ index' = IF hasIndex THEN "listed" ELSE "none"
  /\ indexes' = indexes + 1
  /\ Resolve(c, IF hasIndex THEN "listed" ELSE "none")
  /\ UNCHANGED <<os, hasIndex, keyed, phase, canceled, replies, rated, vex>>

\* No connection, another status, a body in a shape that names no document:
\* the index stays to be fetched again.
IndexFailed(c) ==
  /\ pc[c] = "indexing"
  /\ Send(c, "err")
  /\ UNCHANGED <<os, hasIndex, keyed, phase, index, cache, canceled, replies, indexes, rated, vex>>

\* The response is conclusive: a document, or a 404.
DocumentAnswered(c) ==
  /\ pc[c] = "request"
  /\ ~canceled
  /\ LET got == IF c \in Published THEN "doc" ELSE "nil"
     IN  cache' = [cache EXCEPT ![c] = got] /\ Send(c, got)
  /\ replies' = [replies EXCEPT ![c] = @ + 1]
  /\ UNCHANGED <<os, hasIndex, keyed, phase, index, canceled, indexes, rated, vex>>

\* Mutant: a failed download is remembered as "no record".
RememberFailure(c) ==
  cache' = [cache EXCEPT ![c] = "nil"] /\ Send(c, "nil")

\* A failed download is an error of its CVE and is not remembered.
FailedAnswer(c) == UNCHANGED cache /\ Send(c, "err")

DocumentFailed(c) ==
  /\ pc[c] = "request"
  /\ FailedAnswer(c)
  /\ UNCHANGED <<os, hasIndex, keyed, phase, index, canceled, replies, indexes, rated, vex>>

Cancel ==
  /\ ~canceled
  /\ phase # "over"
  /\ canceled' = TRUE
  /\ UNCHANGED <<os, hasIndex, keyed, phase, pc, index, cache, answer, replies, indexes, rated, vex>>

-----------------------------------------------------------------------------
(* The two passes                                                          *)

\* The results channel is closed once every goroutine is done.
Collected == \A c \in CVEs : pc[c] \in {"idle", "done"}

Read(c) == answer[c] = "doc"

\* Scores: every finding is rescored from whichever of its CVEs were read.
EndScores ==
  /\ phase = "scores"
  /\ Collected
  /\ rated' = {r \in Refs : \E c \in ToSet(Bundle[r]) : Read(c)}
  /\ phase' = "lookup"
  /\ pc' = Launched(Looked)
  /\ answer' = Unanswered
  /\ UNCHANGED <<os, hasIndex, keyed, index, cache, canceled, replies, indexes, vex>>

\* classify: the document's verdict about the finding under the image's CPE.
Verdict(c, r) ==
  IF Read(c) THEN DocVerdict({ProductVerdict(Lists[c][p][r]) : p \in Products})
  ELSE "silent"

SuseSays(r) == SuseStatement([i \in DOMAIN Bundle[r] |-> Verdict(Bundle[r][i], r)])

DebianSays(r) == DebianStatement([i \in DOMAIN Bundle[r] |-> Row[Bundle[r][i]][r]])

\* applyStatement
Applied(r, status) ==
  IF Exculpatory(status) /\ vex[r] = "none" THEN status ELSE vex[r]

Apply(Says(_)) ==
  vex' = [r \in Refs |-> IF r \in OSRefs THEN Applied(r, Says(r)) ELSE vex[r]]

\* What was read is applied even when other documents failed.
SuseLookup ==
  /\ phase = "lookup" /\ os = "sles"
  /\ Collected
  /\ IF keyed THEN Apply(SuseSays) ELSE UNCHANGED vex
  /\ phase' = "over"
  /\ UNCHANGED <<os, hasIndex, keyed, pc, index, cache, answer, canceled, replies, indexes, rated>>

\* The tracker is one file: a release the provider cannot place, a failed
\* download or a short read yields no statement at all.
DebianLookup ==
  /\ phase = "lookup" /\ os = "debian"
  /\ \/ keyed /\ ~canceled /\ Apply(DebianSays)
     \/ UNCHANGED vex
  /\ phase' = "over"
  /\ UNCHANGED <<os, hasIndex, keyed, pc, index, cache, answer, canceled, replies, indexes, rated>>

Done == phase = "over" /\ UNCHANGED feedVars

Fetch(c) ==
  \/ Acquire(c) \/ GiveUp(c) \/ CheckCache(c) \/ LockIndex(c)
  \/ IndexAnswered(c) \/ IndexFailed(c) \/ DocumentAnswered(c) \/ DocumentFailed(c)

Passes == EndScores \/ SuseLookup \/ DebianLookup

FeedNext == (\E c \in CVEs : Fetch(c)) \/ Passes \/ Cancel \/ Done

\* Every goroutine is scheduled, and every request ends: the HTTP client has a
\* timeout.
FeedSpec == FeedInit /\ [][FeedNext]_feedVars /\ WF_feedVars(\E c \in CVEs : Fetch(c)) /\ WF_feedVars(Passes)

-----------------------------------------------------------------------------
FeedTypeOK ==
  /\ os \in {"sles", "debian"} /\ hasIndex \in BOOLEAN /\ keyed \in BOOLEAN /\ canceled \in BOOLEAN
  /\ phase \in {"scores", "lookup", "over"}
  /\ pc \in [CVEs -> {"idle", "select", "cached", "index", "indexing", "request", "done"}]
  /\ index \in {"unread", "none", "listed"}
  /\ cache \in [CVEs -> {"absent", "nil", "doc"}]
  /\ answer \in [CVEs -> {"none", "nil", "doc", "err"}]
  /\ replies \in [CVEs -> Nat] /\ indexes \in Nat
  /\ rated \subseteq Refs
  /\ vex \in [Refs -> {"none", "hub", "not_affected", "fixed"}]

\* The CVEs SUSE can answer for.
Available == IF hasIndex THEN Published \cap Listed ELSE Published

\* "No record" is said of a CVE only when the feed has none: an outage of the
\* index or of a document never reads, or is remembered, as a vendor with
\* nothing to say.
OutageIsNotSilence ==
  \A c \in Available : cache[c] # "nil" /\ answer[c] # "nil"

\* The two passes share one conclusive download per document, whether it
\* brought a document or a 404, and one of the index.
OneDownload == indexes <= 1 /\ \A c \in CVEs : replies[c] <= 1

\* A finding the SUSE feed clears has no document, among those read, that
\* leaves its package affected in any product the image's CPE selects: not
\* through another alias, not through a sibling product, and not through a fix
\* newer than what is installed.
FailsClosed ==
  phase = "over" /\ os = "sles" =>
    \A r \in OSRefs \ HubSpoke : Exculpatory(vex[r]) =>
      \A c \in ToSet(Bundle[r]) : Read(c) =>
        \A p \in Products :
          LET lists == Lists[c][p][r]
          IN  "not_affected" \in lists \/ "fix_reached" \in lists \/ lists = {}

\* An explicit hub outranks an automatic feed, and a feed speaks only to the
\* packages of the OS.
HubOutranksFeed ==
  /\ \A r \in HubSpoke : vex[r] = "hub"
  /\ \A r \in Refs \ OSRefs : vex[r] \in {"hub", "none"}

\* A feed clears what its documents clear, and only where it may speak.
ClearsJustly == FailsClosed /\ HubOutranksFeed

\* However many fetches fail or are canceled, and whoever waits for the index,
\* the passes end.
PassesEnd == <>(phase = "over")

\* cveSets: a statement about one CVE "must not suppress a finding about the
\* eight" that its advisory bundles: no CVE of a cleared finding is one the
\* tracker leaves affected.
BundleNotSuppressed ==
  phase = "over" /\ os = "debian" =>
    \A r \in OSRefs \ HubSpoke : Exculpatory(vex[r]) =>
      \A c \in ToSet(Bundle[r]) : RowVerdict(Row[c][r]) # "affected"
=============================================================================
