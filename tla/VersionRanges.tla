---------------------------- MODULE VersionRanges ----------------------------
(***************************************************************************)
(* Deciding whether a version lies in what an OSV record says is affected: *)
(* the sweep over range events, the offline match of a local export        *)
(* (osv/local.go), and the correction of a degraded Go record against its  *)
(* own custom ranges (osv/customranges.go).                                *)
(*                                                                         *)
(* A version is a natural number, or Odd: a string no comparator orders.   *)
(* A range is the set of its events; order and duplicates in the published *)
(* list do not matter, because the code sorts before it sweeps.            *)
(***************************************************************************)
EXTENDS Integers, Sequences, FiniteSets, FiniteSetsExt, SequencesExt

Odd == -1
Comparable(v) == v # Odd

Introduced   == 0
Fixed        == 1
LastAffected == 2

Event(kind, v) == [kind |-> kind, v |-> v]

\* Mutant: ties are left in the order the record lists them, closing first.
EventBeforeClosingFirst(d, e) ==
  d.v < e.v \/ (d.v = e.v /\ d.kind > e.kind)

\* By version; a tie puts an introduced before the event that closes it.
EventBefore(d, e) == d.v < e.v \/ (d.v = e.v /\ d.kind < e.kind)

\* The boundary that comes last in that order.
LastOf(events) == CHOOSE e \in events : \A d \in events \ {e} : EventBefore(d, e)

\* One boundary: whichever the version last passed decides.
Pass(version, hit, e) ==
  CASE e.kind = Introduced   -> (hit \/ version >= e.v)
    [] e.kind = Fixed        -> (hit /\ version < e.v)
    [] e.kind = LastAffected -> (hit /\ version <= e.v)

\* affectedByEvents and sweep: the boundaries in version order.
Swept(version, events) ==
  LET after[seen \in SUBSET events] ==
        IF seen = {} THEN FALSE
        ELSE Pass(version, after[seen \ {LastOf(seen)}], LastOf(seen))
  IN  after[events]

-----------------------------------------------------------------------------
(* Local.versionAffected, for one affected entry                           *)
(* entry: [versions: SUBSET Version, ranges: Seq([git, ordered, events])];  *)
(* a range is named by its place in the list                               *)

Orderable(rng) == rng.ordered /\ \A e \in rng.events : Comparable(e.v)

\* What cannot be ordered is kept: erring toward reporting.
KeptUnordered(rng) == ~Orderable(rng)

Considered(entry) == {i \in DOMAIN entry.ranges : ~entry.ranges[i].git}

\* A version no comparator places: the first boundary above zero it meets ends
\* the sweep with a match; it is above every zero boundary.
Unplaced(events) == (\E e \in events : e.v # 0) \/ Swept(1, events)

SweptLocally(version, events) ==
  IF Comparable(version) THEN Swept(version, events) ELSE Unplaced(events)

\* The loop over the ranges, with its early return at the first that answers.
VersionAffected(version, entry) ==
  \/ entry.versions = {} /\ entry.ranges = <<>>
  \/ version \in entry.versions
  \/ \E i \in Considered(entry) :
       LET rng == entry.ranges[i] IN KeptUnordered(rng) \/ SweptLocally(version, rng.events)

\* noteUnordered is called for the first range that cannot be ordered, unless
\* the enumeration or an earlier range has answered already.
NotedUnordered(version, entry) ==
  /\ ~(entry.versions = {} /\ entry.ranges = <<>>)
  /\ version \notin entry.versions
  /\ \E i \in Considered(entry) :
       /\ KeptUnordered(entry.ranges[i])
       /\ \A j \in Considered(entry) \cap 1 .. i - 1 :
            LET rng == entry.ranges[j] IN Orderable(rng) /\ ~SweptLocally(version, rng.events)

-----------------------------------------------------------------------------
(* misranged: a degraded Go record against its own custom_ranges           *)
(* rec: [id, aliases, unreviewed, std, custom, ...]; std and custom are    *)
(* sets of ranges                                                          *)

Identity(rec) == {rec.id} \cup rec.aliases

Bounded(ranges) == \E r \in ranges : \E e \in r : e.kind # Introduced

Degraded(rec) == rec.unreviewed /\ ~Bounded(rec.std)

Vouches(rec, o) ==
  o.id # rec.id /\ ~Degraded(o) /\ Identity(o) \cap Identity(rec) # {}

Corroborated(rec, others) == \E i \in DOMAIN others : Vouches(rec, others[i])

\* rangeEvents flattens every custom range of the package into one list.
CustomEvents(rec) == UNION rec.custom

Misranged(version, rec, others) ==
  /\ Degraded(rec)
  /\ Comparable(version)
  /\ CustomEvents(rec) # {}
  /\ \A e \in CustomEvents(rec) : Comparable(e.v)
  /\ ~Swept(version, CustomEvents(rec))
  /\ ~Corroborated(rec, others)

-----------------------------------------------------------------------------
(* The OSV schema's own reading of a range, the reference for the sweep: a *)
(* version is affected when some introduced event is at or below it and no *)
(* event that closes that stretch has been passed since.                   *)

Passed(version, e) ==
  IF e.kind = Fixed THEN version >= e.v ELSE version > e.v

InRange(version, events) ==
  \E b \in events :
    /\ b.kind = Introduced
    /\ b.v <= version
    /\ \A c \in events :
         c.kind # Introduced /\ c.v >= b.v => ~Passed(version, c)
=============================================================================
