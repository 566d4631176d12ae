------------------------------ MODULE Resolver ------------------------------
(***************************************************************************)
(* analyze.advisoryResolver: the advisory cache of one scan.  The          *)
(* analyzers hand over their components one inventory after another;       *)
(* workItems first tries to resolve every component not cached yet in one  *)
(* batch, then looks each component up, asking for what the batch did not  *)
(* bring one name at a time.                                               *)
(*                                                                         *)
(* A batch is answered whole or fails (module QueryBatch).  A lookup that  *)
(* fails is logged and leaves its advisories out; what is left is cached.  *)
(*                                                                         *)
(* The cache is keyed by Component.Key(), which holds the component's Name *)
(* but not its AltNames: of two components with one key and other names,   *)
(* as two binary packages of one source are, only one is asked about.      *)
(***************************************************************************)
EXTENDS Integers, Sequences, FiniteSets, SequencesExt

CONSTANTS
  Components,   \* the components a scan may find
  Keys,         \* Component.Key() values
  KeyOf,        \* KeyOf[c]: the key of a component
  Names,        \* package names an ecosystem may be asked about
  Advisories,   \* advisory ids
  NamesOf,      \* NamesOf[c]: queryNames of the component, Name and AltNames
  HasEcosystem, \* HasEcosystem[k]: components of this key declare an ecosystem
  Listing,      \* Listing[n]: the advisories the source lists under n
  Inventories   \* per analyzer, the components it found

\* Name is in the key and comes first; a component with no Name has no AltNames.
SameName(c, d) ==
  /\ NamesOf[c] = <<>> <=> NamesOf[d] = <<>>
  /\ NamesOf[c] # <<>> => NamesOf[c][1] = NamesOf[d][1]

ASSUME KeysAssumption ==
  /\ KeyOf \in [Components -> Keys]
  /\ NamesOf \in [Components -> Seq(Names)]
  /\ \A c \in Components : IsInjective(NamesOf[c])   \* queryNames leaves no name in twice
  /\ \A c, d \in Components : KeyOf[c] = KeyOf[d] => SameName(c, d)
  /\ HasEcosystem \in [Keys -> BOOLEAN]
  /\ Inventories # <<>>
  /\ Listing \in [Names -> SUBSET Advisories]
  /\ Inventories \in Seq(Seq(Components))

VARIABLES
  turn,      \* the analyzer whose components are being resolved
  stage,     \* where workItems is with them
  pos,       \* components of this inventory already paired with advisories
  asked,     \* names of the current component already asked about
  gathered,  \* what they returned
  known,     \* the keys the cache has an entry for
  cache,     \* cache[k]: the advisories cached for k
  clock,     \* requests sent so far
  asOf,      \* when the source first answered, 0 before
  askers,    \* the components their keys were resolved for
  missed,    \* <<k, n>>: the lookup of n for k failed and was logged
  resolved,  \* resolved[k]: how often an answer was cached for k
  gotAt,     \* gotAt[k]: when the first data cached for k was answered
  items      \* items[t][i]: the advisories of the i-th work item of analyzer t

vars == <<turn, stage, pos, asked, gathered, known, cache, clock, asOf, askers, missed,
          resolved, gotAt, items>>

Inventory == Inventories[turn]
Current == Inventory[pos + 1]
CurrentKey == KeyOf[Current]
KeyAt(i) == KeyOf[Inventory[i]]

Init ==
  /\ turn = 1
  /\ stage = "prefetch"
  /\ pos = 0
  /\ asked = 0
  /\ gathered = {}
  /\ known = {}
  /\ cache = [k \in Keys |-> {}]
  /\ clock = 0
  /\ asOf = 0
  /\ askers = {}
  /\ missed = {}
  /\ resolved = [k \in Keys |-> 0]
  /\ gotAt = [k \in Keys |-> 0]
  /\ items = <<>>

\* Mutant: every answer moves the freshness claim.
AnsweredLast == clock + 1

\* answered(): only the first answer counts.
Answered == IF asOf = 0 THEN clock + 1 ELSE asOf

-----------------------------------------------------------------------------
(* prefetch                                                                *)

\* prefetch asks about a component whose key is not cached, if it declares an
\* ecosystem and has a name, ...
Askable(i) ==
  KeyAt(i) \notin known /\ HasEcosystem[KeyAt(i)] /\ NamesOf[Inventory[i]] # <<>>

\* ... and of those with one key only about the first, whatever the others' names.
FirstAsked(i) == Askable(i) /\ \A j \in 1 .. i - 1 : Askable(j) => KeyAt(j) # KeyAt(i)

QueuedAt == {i \in DOMAIN Inventory : FirstAsked(i)}
Queued == {KeyAt(i) : i \in QueuedAt}

\* The flattened request as it stands after the first i components.
RefsAfter[i \in 0 .. Len(Inventory)] ==
  IF i = 0 THEN <<>>
  ELSE IF FirstAsked(i) THEN RefsAfter[i - 1] \o NamesOf[Inventory[i]]
  ELSE RefsAfter[i - 1]

Refs == RefsAfter[Len(Inventory)]

\* Where the names of the i-th component sit in it.
Span(i) == Len(RefsAfter[i - 1]) + 1 .. Len(RefsAfter[i - 1]) + Len(NamesOf[Inventory[i]])

\* What the answers in the span of a key come to.
Merged(k) == UNION {Listing[Refs[j]] : j \in Span(CHOOSE i \in QueuedAt : KeyAt(i) = k)}

\* Fewer than two refs are not worth a batch.
SkipPrefetch ==
  /\ stage = "prefetch"
  /\ Len(Refs) < 2
  /\ stage' = "lookup"
  /\ UNCHANGED <<turn, pos, asked, gathered, known, cache, clock, asOf, askers, missed, resolved, gotAt, items>>

\* The batch is answered whole: each span is merged and cached under its key.
BatchAnswered ==
  /\ stage = "prefetch"
  /\ Len(Refs) >= 2
  /\ clock' = clock + 1
  /\ asOf' = Answered
  /\ cache' = [k \in Keys |-> IF k \in Queued THEN Merged(k) ELSE cache[k]]
  /\ known' = known \cup Queued
  /\ askers' = askers \cup {Inventory[i] : i \in QueuedAt}
  /\ resolved' = [k \in Keys |-> IF k \in Queued THEN resolved[k] + 1 ELSE resolved[k]]
  /\ gotAt' = [k \in Keys |-> IF k \in Queued THEN clock + 1 ELSE gotAt[k]]
  /\ stage' = "lookup"
  /\ UNCHANGED <<turn, pos, asked, gathered, missed, items>>

\* Mutant: the names of a failed batch are cached as having no advisories.
CacheOnBatchFailure ==
  known' = known \cup Queued /\ cache' = cache

KeptOnBatchFailure == UNCHANGED <<known, cache>>

\* The batch failed: it is abandoned with a message, and nothing is cached.
BatchFailed ==
  /\ stage = "prefetch"
  /\ Len(Refs) >= 2
  /\ clock' = clock + 1
  /\ KeptOnBatchFailure
  /\ stage' = "lookup"
  /\ UNCHANGED <<turn, pos, asked, gathered, asOf, askers, missed, resolved, gotAt, items>>

-----------------------------------------------------------------------------
(* advisories, for one component after another                             *)

Emit(advs) ==
  /\ items' = [items EXCEPT ![turn] = Append(@, advs)]
  /\ pos' = pos + 1

\* workItems begins its list, one entry per component.
BeginItems ==
  /\ stage = "lookup"
  /\ Len(items) < turn
  /\ items' = Append(items, <<>>)
  /\ UNCHANGED <<turn, stage, pos, asked, gathered, known, cache, clock, asOf, askers, missed, resolved, gotAt>>

AtComponent ==
  /\ stage = "lookup"
  /\ Len(items) = turn
  /\ pos < Len(Inventory)

IsCached(k) == k \in known

FromCache ==
  /\ AtComponent
  /\ IsCached(CurrentKey)
  /\ Emit(cache[CurrentKey])
  /\ UNCHANGED <<turn, stage, asked, gathered, known, cache, clock, asOf, askers, missed, resolved, gotAt>>

\* A component with no ecosystem cannot be asked about; that is logged.
NoEcosystem ==
  /\ AtComponent
  /\ ~IsCached(CurrentKey)
  /\ ~HasEcosystem[CurrentKey]
  /\ known' = known \cup {CurrentKey}
  /\ askers' = askers \cup {Current}
  /\ Emit({})
  /\ UNCHANGED <<turn, stage, asked, gathered, cache, clock, asOf, missed, resolved, gotAt>>

Asking ==
  /\ AtComponent
  /\ ~IsCached(CurrentKey)
  /\ HasEcosystem[CurrentKey]

NameAnswered ==
  /\ Asking
  /\ asked < Len(NamesOf[Current])
  /\ clock' = clock + 1
  /\ asOf' = Answered
  /\ gathered' = gathered \cup Listing[NamesOf[Current][asked + 1]]
  /\ gotAt' = [gotAt EXCEPT ![CurrentKey] = IF @ = 0 THEN clock + 1 ELSE @]
  /\ asked' = asked + 1
  /\ UNCHANGED <<turn, stage, pos, known, cache, askers, missed, resolved, items>>

NameFailed ==
  /\ Asking
  /\ asked < Len(NamesOf[Current])
  /\ clock' = clock + 1
  /\ missed' = missed \cup {<<CurrentKey, NamesOf[Current][asked + 1]>>}
  /\ asked' = asked + 1
  /\ UNCHANGED <<turn, stage, pos, gathered, known, cache, asOf, askers, resolved, gotAt, items>>

\* Mutant: a lookup is over only once something came back.
LookupOverNonEmpty == asked = Len(NamesOf[Current]) /\ gathered # {}

LookupOver == asked = Len(NamesOf[Current])

\* Every name has been asked: cache what came back, failures left out.
Store ==
  /\ Asking
  /\ LookupOver
  /\ known' = known \cup {CurrentKey}
  /\ askers' = askers \cup {Current}
  /\ cache' = [cache EXCEPT ![CurrentKey] = gathered]
  /\ resolved' = [resolved EXCEPT ![CurrentKey] = @ + 1]
  /\ Emit(gathered)
  /\ asked' = 0
  /\ gathered' = {}
  /\ UNCHANGED <<turn, stage, clock, asOf, missed, gotAt>>

MoreAnalyzers == turn < Len(Inventories)

NextAnalyzer ==
  /\ stage = "lookup"
  /\ Len(items) = turn
  /\ pos = Len(Inventory)
  /\ pos' = 0
  /\ IF MoreAnalyzers
     THEN turn' = turn + 1 /\ stage' = "prefetch"
     ELSE turn' = turn /\ stage' = "done"
  /\ UNCHANGED <<asked, gathered, known, cache, clock, asOf, askers, missed, resolved, gotAt, items>>

Done == stage = "done" /\ UNCHANGED vars

Prefetch == SkipPrefetch \/ BatchAnswered \/ BatchFailed
Lookup == BeginItems \/ FromCache \/ NoEcosystem \/ NameAnswered \/ NameFailed \/ Store

Next == Prefetch \/ Lookup \/ NextAnalyzer \/ Done

\* The resolver runs on one goroutine and every request ends.
Spec == Init /\ [][Next]_vars /\ WF_vars(Prefetch \/ Lookup \/ NextAnalyzer)

-----------------------------------------------------------------------------
TypeOK ==
  /\ turn \in DOMAIN Inventories
  /\ stage \in {"prefetch", "lookup", "done"}
  /\ pos \in 0 .. Len(Inventory)
  /\ asked \in Nat /\ clock \in Nat /\ asOf \in 0 .. clock
  /\ gathered \subseteq Advisories
  /\ known \subseteq Keys /\ askers \subseteq Components
  /\ cache \in [Keys -> SUBSET Advisories]
  /\ missed \subseteq Keys \X Names
  /\ resolved \in [Keys -> Nat]
  /\ gotAt \in [Keys -> 0 .. clock]
  /\ items \in Seq(Seq(SUBSET Advisories))

\* What the source would say about a component if only the lookups logged as
\* failed had not been made.
Heard(c) ==
  IF HasEcosystem[KeyOf[c]]
  THEN UNION {Listing[n] : n \in {m \in ToSet(NamesOf[c]) : <<KeyOf[c], m>> \notin missed}}
  ELSE {}

\* The same, of a component's own Name alone, which its key holds.
HeardByName(c) ==
  IF NamesOf[c] # <<>> /\ HasEcosystem[KeyOf[c]] /\ <<KeyOf[c], NamesOf[c][1]>> \notin missed
  THEN Listing[NamesOf[c][1]]
  ELSE {}

\* No component shares this one's key under other names.
KeyTells(c) ==
  \A d \in Components : KeyOf[d] = KeyOf[c] => ToSet(NamesOf[d]) = ToSet(NamesOf[c])

\* A work item holds exactly what the source lists under the names of a component
\* of its key, less the names whose own lookup failed and was logged: a failed
\* batch alone never empties or shortens it ("one unlucky request cannot zero out
\* the advisory set for an entire image").  It is the item's own component, or one
\* with the same names, unless the key is shared under other names; then what is
\* listed under the common Name is still all there, and AltNames may be missing.
CacheFaithful ==
  \A t \in DOMAIN items : \A i \in DOMAIN items[t] :
    LET c == Inventories[t][i] IN
    /\ \E d \in askers : KeyOf[d] = KeyOf[c] /\ items[t][i] = Heard(d)
    /\ KeyTells(c) => items[t][i] = Heard(c)
    /\ HeardByName(c) \subseteq items[t][i]

\* Components that share a key get the same advisories, in every inventory and
\* whatever failed in between, and each work item sits at its component's place.
SameKeySameItems ==
  \A t \in DOMAIN items : \A i \in DOMAIN items[t] :
    items[t][i] = cache[KeyOf[Inventories[t][i]]]

\* A key is resolved at most once in a scan, by the batch or by name.
ResolvedOnce == \A k \in Keys : resolved[k] <= 1

\* The freshness claim is never younger than any data in the report.
AsOfConservative ==
  \A k \in Keys : gotAt[k] # 0 => asOf # 0 /\ asOf <= gotAt[k]

\* A scan whose source keeps failing still pairs every component and ends.
EveryComponentPaired ==
  <>(stage = "done" /\ \A t \in DOMAIN Inventories : Len(items[t]) = Len(Inventories[t]))

-----------------------------------------------------------------------------
(* The inductive invariant                                                 *)

\* Nothing has been cached, or counted, for a key the cache does not know.
UnknownIsEmpty == \A k \in Keys : ~IsCached(k) => cache[k] = {} /\ resolved[k] = 0

\* The work items made so far are those of the analyzers before this one and of
\* its components before pos, and each is its component's cache entry.
ItemsFromCache ==
  /\ Len(items) \in {turn - 1, turn}
  /\ stage = "prefetch" => Len(items) = turn - 1
  /\ Len(items) = turn - 1 => pos = 0
  /\ stage = "lookup" /\ Len(items) = turn => Len(items[turn]) = pos
  /\ \A t \in DOMAIN items : \A i \in DOMAIN items[t] :
       /\ i <= Len(Inventories[t])
       /\ IsCached(KeyOf[Inventories[t][i]])
       /\ items[t][i] = cache[KeyOf[Inventories[t][i]]]

IInv == TypeOK /\ AsOfConservative /\ UnknownIsEmpty /\ ResolvedOnce /\ ItemsFromCache

\* What the answers so far say about the component being asked about.
HeardSoFar ==
  UNION {Listing[n] : n \in {NamesOf[Current][j] : j \in {i \in 1 .. asked :
                                <<CurrentKey, NamesOf[Current][i]>> \notin missed}}}

\* Between components nothing is half gathered; at one, what is gathered is what
\* the names asked so far brought.
GatheredSoFar ==
  /\ Asking => asked <= Len(NamesOf[Current]) /\ gathered = HeardSoFar
  /\ ~Asking => asked = 0 /\ gathered = {}

\* A lookup only ever fails for a component that is cached since, or for the one
\* being asked about, under a name already asked.
MissesAreSettled ==
  \A m \in missed : ~IsCached(m[1]) =>
    Asking /\ m[1] = CurrentKey /\ \E j \in 1 .. asked : m[2] = NamesOf[Current][j]

\* Every cached key was asked for some component, and holds what it brought.
CacheAsked ==
  /\ \A c \in askers : IsCached(KeyOf[c]) /\ cache[KeyOf[c]] = Heard(c)
  /\ \A k \in known : \E c \in askers : KeyOf[c] = k

\* On top of it: nothing but a logged failure shortens what is cached.
AnswersKept == CacheAsked /\ GatheredSoFar /\ MissesAreSettled
=============================================================================
