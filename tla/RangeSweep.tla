----------------------------- MODULE RangeSweep -----------------------------
(***************************************************************************)
(* One range of one record of a local advisory export, matched against one *)
(* installed version with the comparator of its ecosystem (osv/local.go).  *)
(* Events come in the order the record lists them; at is Zero, the open    *)
(* bottom, or a version.  A case names the versions the comparator of its  *)
(* ecosystem can read, and order[a][b], what it answers of two of them     *)
(* (VersionOrders).                                                        *)
(***************************************************************************)
EXTENDS Integers, Sequences, SequencesExt

CONSTANTS
  Cases,   \* [version, listing, readable, order]
  Zero

Introduced == 0
Fixed == 1
LastAffected == 2

\* A listing is a list of events; a comparator answers with a number, of any two
\* of the versions that it can read.
ASSUME CasesAssumption ==
  \A c \in Cases :
    /\ c.listing \in Seq([kind : {Introduced, Fixed, LastAffected}, at : {e.at : e \in ToSet(c.listing)}])
    /\ Zero \notin c.readable \cup {c.version}
    /\ \A a, b \in c.readable : c.order[a][b] \in Int

VARIABLES case, events, next, hit, phase
sweepVars == <<case, events, next, hit, phase>>

SweepInit ==
  /\ case \in Cases
  /\ events = <<>> /\ next = 1 /\ hit = FALSE /\ phase = "listed"

\* "0" is below everything, and no comparator is asked about it.
CompareBoundary(a, b) ==
  CASE a = Zero /\ b = Zero -> 0
    [] a = Zero /\ b # Zero -> -1
    [] a # Zero /\ b = Zero -> 1
    [] OTHER -> case.order[a][b]
Orderable == \A e \in ToSet(case.listing) : e.at # Zero => e.at \in case.readable

\* Fault: a tie leaves events as the record lists them.
BeforeByVersion(e, d) == CompareBoundary(e.at, d.at) < 0

\* A tie puts what begins a stretch before what closes it.
Before(e, d) == LET c == CompareBoundary(e.at, d.at) IN IF c # 0 THEN c < 0 ELSE e.kind < d.kind

\* SliceStable sorts this few by insertion, from the right.
Inserted(sorted, e) ==
  LET stays == {j \in DOMAIN sorted : ~Before(e, sorted[j])}
      after == IF stays = {} THEN 0 ELSE CHOOSE j \in stays : \A k \in stays : k <= j
  IN InsertAt(sorted, after + 1, e)

SortedListing ==
  LET sorted[n \in 0..Len(case.listing)] ==
        IF n = 0 THEN <<>> ELSE Inserted(sorted[n - 1], case.listing[n])
  IN sorted[Len(case.listing)]

\* sortEvents: a range with a boundary that cannot be ordered is a match.
Unordered ==
  /\ phase = "listed" /\ ~Orderable
  /\ hit' = TRUE /\ phase' = "done"
  /\ UNCHANGED <<case, events, next>>
Sort ==
  /\ phase = "listed" /\ Orderable
  /\ events' = SortedListing
  /\ phase' = "sorted"
  /\ UNCHANGED <<case, next, hit>>

\* sweep: whichever boundary the version passed last decides; a version that
\* cannot be compared is a match.
Passed(e) == LET c == CompareBoundary(case.version, e.at) IN IF e.kind = LastAffected THEN c > 0 ELSE c >= 0
Comparable(e) == e.at # Zero => case.version \in case.readable
Boundary ==
  /\ phase = "sorted" /\ next <= Len(events) /\ Comparable(events[next])
  /\ hit' = IF Passed(events[next]) THEN events[next].kind = Introduced ELSE hit
  /\ next' = next + 1
  /\ UNCHANGED <<case, events, phase>>
Incomparable ==
  /\ phase = "sorted" /\ next <= Len(events) /\ ~Comparable(events[next])
  /\ hit' = TRUE /\ phase' = "done"
  /\ UNCHANGED <<case, events, next>>
Swept ==
  /\ phase = "sorted" /\ next > Len(events)
  /\ phase' = "done"
  /\ UNCHANGED <<case, events, next, hit>>

SweepNext == Unordered \/ Sort \/ Boundary \/ Incomparable \/ Swept
SweepSpec == SweepInit /\ [][SweepNext]_sweepVars
-----------------------------------------------------------------------------
(* Properties.                                                             *)
Versions == ({case.version} \cup {case.listing[i].at : i \in DOMAIN case.listing}) \ {Zero}

\* Whatever is said to be orderable is ordered: no pair is above itself the
\* other way round, and no three go in a circle.  The sort, and every verdict
\* of an offline match, rest on it; each comparator has rules (a tilde below
\* the end, a suffix below a release, a list against a number) that could
\* break it.
VersionsAreOrdered ==
  phase = "listed" =>
    LET V == Versions \cap case.readable
        leq(a, b) == case.order[a][b] <= 0
    IN \A a, b \in V :
         /\ case.order[a][b] = -case.order[b][a]
         /\ \A c \in V \ {a, b} : leq(a, b) /\ leq(b, c) => leq(a, c)

\* The sweep answers what the OSV schema says, in whatever order the record
\* lists its events: the version is at or above an introduced one, and has
\* passed nothing that closes that stretch.  What cannot be ordered is a match.
MatchesSchema ==
  LET listed == ToSet(case.listing)
      inside == \E b \in listed : /\ b.kind = Introduced /\ Passed(b)
                                  /\ \A c \in listed : c.kind # Introduced /\ CompareBoundary(c.at, b.at) >= 0 => ~Passed(c)
  IN phase = "done" =>
       IF Orderable /\ case.version \in case.readable THEN hit = inside
       ELSE (\E e \in listed : e.at # Zero) => hit
=============================================================================
