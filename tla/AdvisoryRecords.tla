--------------------------- MODULE AdvisoryRecords ---------------------------
(***************************************************************************)
(* What vexscan makes of the OSV records it is given: a component is asked *)
(* about under each of its names, each answer is indexed by buildMap, the  *)
(* indexes are merged, and after the scan the cached advisories are        *)
(* flattened into one rating per id by a walk in map order.                *)
(*                                                                         *)
(* One behaviour is one component: `answers' holds the records returned    *)
(* for each of its names, already matched by the API or, for a local       *)
(* export, by VersionAffected.                                             *)
(***************************************************************************)
EXTENDS VersionRanges

CONSTANTS
  Names,      \* advisory ids: of records, of aliases, of upstream CVEs
  Inputs      \* the [version, local, answers] a behaviour may start from

Unrated == "UNKNOWN"
Labels == {"CRITICAL", "HIGH", "MEDIUM", "LOW", "NONE", Unrated}

\* A vector or a published label is kept as the record has it: absent, or text
\* that reads as a label, as UNKNOWN when it cannot be scored or is none we know.
Absent == ""
Stated == Labels \cup {Absent}

EventType == [kind : {Introduced, Fixed, LastAffected}, v : Nat \cup {Odd}]
RangeType == [git : BOOLEAN, ordered : BOOLEAN, events : SUBSET EventType]
RecordType ==
  [id : Names, aliases : SUBSET Names, upstream : SUBSET Names, imports : BOOLEAN,
   vector : Stated, published : Stated, inRelease : BOOLEAN, unreviewed : BOOLEAN,
   std : SUBSET SUBSET EventType, custom : SUBSET SUBSET EventType,
   entry : [versions : SUBSET (Nat \cup {Odd}), ranges : Seq(RangeType)]]

ASSUME InputAssumption ==
  /\ "none" \notin Names
  /\ \A i \in Inputs :
       /\ i.version \in Nat \cup {Odd} /\ i.local \in BOOLEAN
       /\ i.answers \in Seq(Seq(RecordType))
       /\ \A answer \in ToSet(i.answers) : \A rec \in ToSet(answer) :
            \A rng \in ToSet(rec.entry.ranges) : IsFiniteSet(rng.events)

VARIABLES
  input,      \* what the advisory source holds for the component's names
  maps,       \* maps[i]: buildMap of the i-th answer
  setAside,   \* corrections reported so far
  noted,      \* matches noted as not ordered
  cached,     \* the merged set, as the resolver caches it
  unread,     \* cached advisories severities() has not visited yet
  rating,     \* rating[id]: what severities() has for id so far
  phase

vars == <<input, maps, setAside, noted, cached, unread, rating, phase>>

NoAdv == [id |-> "none"]

-----------------------------------------------------------------------------
(* cvss.Rank and Advisory.Severity                                         *)

\* cvss.Rank: a display order, in which UNKNOWN sorts above MEDIUM.
Rank(label) ==
  CASE label = "CRITICAL" -> 0 [] label = "HIGH" -> 1 [] label = Unrated -> 2
    [] label = "MEDIUM" -> 3 [] label = "LOW" -> 4 [] label = "NONE" -> 5

\* Severity: an absent rating, or one that cannot be read, loses to any real
\* one, else the more severe.
ReadAs(text) == IF text = Absent THEN Unrated ELSE text
Severity(adv) ==
  LET computed  == ReadAs(adv.vector)
      published == ReadAs(adv.published)
  IN  CASE published = Unrated -> computed
        [] published # Unrated /\ computed = Unrated -> published
        [] OTHER -> IF Rank(published) < Rank(computed) THEN published ELSE computed

-----------------------------------------------------------------------------
(* buildMap.  An answer is a list of which only some records may be left,  *)
(* each at its place; an index maps every name to the place of its         *)
(* advisory, 0 when it has none.                                           *)

First(places) == IF places = {} THEN 0 ELSE Min(places)

Kept(version, recs) ==
  {k \in DOMAIN recs : recs[k].inRelease /\ ~Misranged(version, recs[k], recs)}

SetAside(version, recs) ==
  {recs[k].id : k \in {j \in DOMAIN recs : recs[j].inRelease /\ Misranged(version, recs[j], recs)}}

\* A name is taken by its first record, or by the first that carries import
\* paths where the holder has none.
ByIdentity(recs, kept) ==
  [n \in Names |->
     LET named == {k \in kept : n \in Identity(recs[k])}
         rich == {k \in named : recs[k].imports}
     IN  IF rich # {} THEN First(rich) ELSE First(named)]

\* Only a field without text is filled: one that cannot be read is kept.
Fill(mine, theirs) == IF mine = Absent THEN theirs ELSE mine

\* What lender fills in where it wins none of its own names.
Lent(advs, index, lender) ==
  [w \in DOMAIN advs |->
     IF w # lender /\ \E n \in Identity(advs[lender]) : index[n] = w
     THEN [advs[w] EXCEPT !.vector = Fill(@, advs[lender].vector),
                          !.published = Fill(@, advs[lender].published)]
     ELSE advs[w]]

\* borrowSeverity: each record, in order, fills the empty rating fields of the
\* advisories that won its names.
Borrowed(recs, kept, index) ==
  LET after[done \in SUBSET kept] ==
        IF done = {} THEN recs ELSE Lent(after[done \ {Max(done)}], index, Max(done))
  IN  after[kept]

Bundles(recs, kept, n) == {k \in kept : n \in recs[k].upstream}

\* Mutant: a bundle takes over the names of the CVEs it fixes.
WithUpstreamOver(recs, kept, index) ==
  [n \in Names |-> IF Bundles(recs, kept, n) # {} THEN First(Bundles(recs, kept, n)) ELSE index[n]]

\* indexUpstream: a bundle is findable by what it fixes, under free names only.
WithUpstream(recs, kept, index) ==
  [n \in Names |-> IF index[n] = 0 THEN First(Bundles(recs, kept, n)) ELSE index[n]]

\* Mutant: upstream names are indexed before ratings are borrowed.
BuildMapUpstreamFirst(version, recs) ==
  LET kept  == Kept(version, recs)
      index == WithUpstream(recs, kept, ByIdentity(recs, kept))
      lend  == [k \in DOMAIN recs |-> [recs[k] EXCEPT !.aliases = @ \cup recs[k].upstream]]
      advs  == Borrowed(lend, kept, index)
  IN  [n \in Names |-> IF index[n] = 0 THEN NoAdv
                       ELSE [advs[index[n]] EXCEPT !.aliases = recs[index[n]].aliases]]

BuildMap(version, recs) ==
  LET kept  == Kept(version, recs)
      index == ByIdentity(recs, kept)
      advs  == Borrowed(recs, kept, index)
      full  == WithUpstream(recs, kept, index)
  IN  [n \in Names |-> IF full[n] = 0 THEN NoAdv ELSE advs[full[n]]]

\* merge: the first name wins a conflict.
Merge(sets) ==
  [n \in Names |-> LET found == {i \in DOMAIN sets : sets[i][n] # NoAdv}
                   IN  IF found = {} THEN NoAdv ELSE sets[Min(found)][n]]

-----------------------------------------------------------------------------
(* The steps of one lookup                                                 *)

\* What the source returns for one name: the API matched already, a local
\* export is matched here.
Matched(i) ==
  LET answer == input.answers[i] IN
  [k \in {j \in DOMAIN answer : input.local => VersionAffected(input.version, answer[j].entry)}
     |-> answer[k]]

Init ==
  /\ input \in Inputs
  /\ maps = <<>>
  /\ setAside = {}
  /\ noted = {}
  /\ cached = {}
  /\ unread = {}
  /\ rating = [n \in Names |-> "absent"]
  /\ phase = "query"

\* Query for the next name: match, index, report the corrections.
Query ==
  /\ phase = "query"
  /\ Len(maps) < Len(input.answers)
  /\ LET i == Len(maps) + 1
         recs == Matched(i)
     IN  /\ maps' = Append(maps, BuildMap(input.version, recs))
         /\ setAside' = setAside \cup SetAside(input.version, recs)
         /\ noted' = noted \cup
              {input.answers[i][j].id : j \in {k \in DOMAIN input.answers[i] :
                 input.local /\ NotedUnordered(input.version, input.answers[i][k].entry)}}
  /\ UNCHANGED <<input, cached, unread, rating, phase>>

\* The merged set is cached; severities() starts its walk of the cache.
Cache ==
  /\ phase = "query"
  /\ Len(maps) = Len(input.answers)
  /\ cached' = {Merge(maps)[n] : n \in Names} \ {NoAdv}
  /\ unread' = cached'
  /\ phase' = "rate"
  /\ UNCHANGED <<input, maps, setAside, noted, rating>>

Stands(prev, label) == prev # "absent" /\ Rank(prev) <= Rank(label)

\* severities(): a map walk visits the advisories in any order.
Visit ==
  /\ phase = "rate"
  /\ \E adv \in unread :
       /\ unread' = unread \ {adv}
       /\ rating' = [n \in Names |->
            IF n \in Identity(adv) /\ ~Stands(rating[n], Severity(adv))
            THEN Severity(adv) ELSE rating[n]]
  /\ UNCHANGED <<input, maps, setAside, noted, cached, phase>>

Rated ==
  /\ phase = "rate"
  /\ unread = {}
  /\ phase' = "done"
  /\ UNCHANGED <<input, maps, setAside, noted, cached, unread, rating>>

Done == phase = "done" /\ UNCHANGED vars

Next == Query \/ Cache \/ Visit \/ Rated \/ Done

Spec == Init /\ [][Next]_vars

-----------------------------------------------------------------------------
Answered(i) == Matched(i)

\* A record about a vulnerability outranks a bundle that merely fixes it: in
\* every index, a name some kept record carries as its own id or alias leads to
\* a record with that identity.
IdentityOutranksBundle ==
  \A i \in DOMAIN maps : \A n \in Names :
    LET recs == Answered(i) IN
      (\E k \in Kept(input.version, recs) : n \in Identity(recs[k]))
        => maps[i][n] # NoAdv /\ n \in Identity(maps[i][n])

\* Kept records linked to some of them by a shared identifier, and those.
LinkedTo(recs, kept, S) ==
  S \cup {k \in kept : \E l \in S : Identity(recs[k]) \cap Identity(recs[l]) # {}}

\* A rating never crosses between the CVEs a bundle fixes: what an advisory is
\* rated comes from its own record or one linked to it by shared identifiers.
RatingStaysWithIdentity ==
  \A i \in DOMAIN maps : \A n \in Names : maps[i][n] # NoAdv =>
    LET recs == Answered(i)
        kept == Kept(input.version, recs)
        own  == {k \in kept : recs[k].id = maps[i][n].id}
        near == LinkedTo(recs, kept, LinkedTo(recs, kept, own))
    IN  /\ maps[i][n].vector \in {recs[k].vector : k \in near}
        /\ maps[i][n].published \in {recs[k].published : k \in near}

\* A record rates an id of its own for the advisory that won it, too: where the
\* id is reported unrated, nobody who shares it rates it, or what would be
\* borrowed is kept out by a rating that cannot be read, in the very field.
Readable(text) == text \notin {Absent, Unrated}
SharedIdIsRated ==
  \A i \in DOMAIN maps : \A n \in Names :
    LET recs == Answered(i)
        adv  == maps[i][n]
    IN  adv # NoAdv /\ Severity(adv) = Unrated =>
          \A k \in Kept(input.version, recs) : n \in Identity(recs[k]) =>
            /\ Readable(recs[k].vector) => adv.vector = Unrated
            /\ Readable(recs[k].published) => adv.published = Unrated

\* Every record that applies is findable, by its own id and by each CVE it
\* fixes, and only set-aside records are not.
EveryRecordFindable ==
  phase # "query" =>
    \A i \in DOMAIN maps : \A k \in DOMAIN Answered(i) :
      LET rec == Answered(i)[k] IN
        \/ ~rec.inRelease
        \/ rec.id \in setAside
        \/ \A n \in Identity(rec) \cup rec.upstream : Merge(maps)[n] # NoAdv

\* The rating of an id does not depend on the order the cache was walked in.
RatingOrderFree ==
  phase = "done" =>
    \A n \in Names :
      LET said == {Severity(a) : a \in {b \in cached : n \in Identity(b)}} IN
        \/ said = {} /\ rating[n] = "absent"
        \/ rating[n] \in said /\ \A s \in said : Rank(rating[n]) <= Rank(s)

\* Every record that applies is found under all its names, and what a name
\* finds is what it names before what fixes it.
RecordsFindable == IdentityOutranksBundle /\ EveryRecordFindable

\* An id is rated by what is said of it, whatever is listed with it and in
\* whatever order, and by something whenever anything is said that no unreadable
\* rating keeps out.
RatingsAreFair == RatingStaysWithIdentity /\ SharedIdIsRated /\ RatingOrderFree

\* The local match agrees with the OSV reading of every orderable range, and
\* errs only toward keeping the record; what it kept without being able to tell
\* it notes (a version that itself cannot be compared apart, see sweep).
LocalMatchSound ==
  input.local =>
    \A i \in DOMAIN input.answers : \A k \in DOMAIN input.answers[i] :
      LET e == input.answers[i][k].entry
          inside == \E r \in Considered(e) :
                      Comparable(input.version) /\ Orderable(e.ranges[r])
                        /\ InRange(input.version, e.ranges[r].events)
          sure == /\ Comparable(input.version)
                  /\ \A r \in Considered(e) : Orderable(e.ranges[r])
                  /\ e.versions # {} \/ e.ranges # <<>>
      IN  /\ inside => VersionAffected(input.version, e)
          /\ sure /\ input.version \notin e.versions /\ ~inside
               => ~VersionAffected(input.version, e)
          /\ ~sure /\ Considered(e) # {} /\ Comparable(input.version)
               => VersionAffected(input.version, e)
          /\ i \in DOMAIN maps /\ ~sure /\ e.ranges # <<>> /\ Comparable(input.version)
               => \/ input.version \in e.versions \/ inside
                  \/ ~VersionAffected(input.version, e) \/ input.answers[i][k].id \in noted
=============================================================================
