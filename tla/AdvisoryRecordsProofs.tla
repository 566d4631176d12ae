------------------------ MODULE AdvisoryRecordsProofs ------------------------
(***************************************************************************)
(* Of every component and whatever records its names are answered with:    *)
(* each record that applies is found, an id is rated by what is said of    *)
(* it and in whatever order the cache is walked, and the local match       *)
(* answers what the OSV schema says.                                       *)
(*                                                                         *)
(* The first part is about recursion over the subsets of a finite set (the *)
(* library's theorems on it take an operator), the second about the sweep, *)
(* the third about one index, the fourth about the run.                    *)
(***************************************************************************)
EXTENDS AdvisoryRecords, SequenceTheorems, FiniteSetTheorems, WellFoundedInduction, TLAPS

-----------------------------------------------------------------------------
(* Induction and recursion over numbers and finite sets                    *)

\* A set of numbers that holds 0 and the successor of each of its members holds
\* every number.
LEMMA NumberInduction ==
  ASSUME NEW G, 0 \in G, \A n \in Nat : n \in G => n + 1 \in G
  PROVE  \A n \in Nat : n \in G
<1> DEFINE R == {ss \in Nat \X Nat : ss[1] < ss[2]}
           T == {n \in Nat : n \notin G}
<1>1. SUFFICES ASSUME T # {} PROVE FALSE
  OBVIOUS
<1>2. IsWellFoundedOn(R, Nat)
  BY NatLessThanWellFounded DEF OpToRel
<1> HIDE DEF R
<1>3. PICK x \in T : \A y \in T : <<y, x>> \notin R
  BY <1>1, <1>2, WFMin
<1> USE DEF R
<1>4. x \in Nat /\ x # 0
  OBVIOUS
<1>5. x - 1 \in Nat /\ x - 1 < x /\ (x - 1) + 1 = x
  BY <1>4
<1>6. x - 1 \notin T
  BY <1>3, <1>4, <1>5
<1> QED
  BY <1>4, <1>5, <1>6

\* A family of subsets of a finite set holds all of them, if it holds each one
\* it holds with any one element taken out.
LEMMA SubsetInduction ==
  ASSUME NEW S, IsFiniteSet(S), NEW G,
         \A s \in SUBSET S : (\A x \in s : s \ {x} \in G) => s \in G
  PROVE  \A s \in SUBSET S : s \in G
<1> DEFINE T == {s \in SUBSET S : s \notin G}
<1>1. SUFFICES ASSUME T # {} PROVE FALSE
  OBVIOUS
<1>2. IsWellFoundedOn(StrictSubsetOrdering(S), SUBSET S)
  BY FS_StrictSubsetOrderingWellFounded, FS_FiniteSubsetsOfFinite
<1>3. \E s \in T : \A t \in T : <<t, s>> \notin StrictSubsetOrdering(S)
  <2>1. T \subseteq SUBSET S
    OBVIOUS
  <2> HIDE DEF T
  <2> QED
    BY <1>1, <1>2, <2>1, WFMin
<1>7. PICK s \in T : \A t \in T : <<t, s>> \notin StrictSubsetOrdering(S)
  BY <1>3
<1>4. \A x \in s : <<s \ {x}, s>> \in StrictSubsetOrdering(S)
  BY DEF StrictSubsetOrdering
<1> QED
  BY <1>4, <1>7

\* Any set of numbers that holds one has a least.
LEMMA LeastNumber ==
  ASSUME NEW P, P \subseteq Nat, P # {}
  PROVE  Min(P) \in P /\ \A y \in P : Min(P) <= y
<1> DEFINE R == {ss \in Nat \X Nat : ss[1] < ss[2]}
<1>1. IsWellFoundedOn(R, Nat)
  BY NatLessThanWellFounded DEF OpToRel
<1> HIDE DEF R
<1>2. PICK x \in P : \A y \in P : <<y, x>> \notin R
  BY <1>1, WFMin
<1> USE DEF R
<1>3. ASSUME NEW y \in P PROVE x <= y
  <2>1. x \in Nat /\ y \in Nat
    OBVIOUS
  <2>2. <<y, x>> \in R <=> y < x
    BY <2>1
  <2> HIDE DEF R
  <2> QED
    BY <1>2, <2>1, <2>2
<1> QED
  BY <1>3 DEF Min

\* A finite set of numbers that holds one has a greatest.
LEMMA GreatestNumber ==
  ASSUME NEW P, P \subseteq Nat, P # {}, IsFiniteSet(P)
  PROVE  Max(P) \in P /\ \A y \in P : y <= Max(P)
<1> DEFINE G == {s \in SUBSET P : s = {} \/ \E x \in s : \A y \in s : y <= x}
<1>1. ASSUME NEW s \in SUBSET P, \A x \in s : s \ {x} \in G PROVE s \in G
  <2> SUFFICES ASSUME s # {} PROVE \E x \in s : \A y \in s : y <= x
    OBVIOUS
  <2>1. PICK a \in s : TRUE
    OBVIOUS
  <2>2. CASE s \ {a} = {}
    BY <2>1, <2>2
  <2>3. CASE s \ {a} # {}
    <3>1. PICK b \in s \ {a} : \A y \in s \ {a} : y <= b
      BY <1>1, <2>1, <2>3
    <3>2. a \in Nat /\ b \in Nat /\ \A y \in s : y \in Nat
      OBVIOUS
    <3> QED
      BY <3>1, <3>2
  <2> QED
    BY <2>2, <2>3
<1> HIDE DEF G
<1>2. P \in G
  BY <1>1, SubsetInduction
<1> USE DEF G
<1>3. PICK x \in P : \A y \in P : y <= x
  BY <1>2
<1>4. \E z \in P : \A y \in P : z >= y
  BY <1>3
<1>5. Max(P) \in P /\ \A y \in P : Max(P) >= y
  BY <1>4, Zenon DEF Max
<1> QED
  BY <1>5

\* What each step takes out, and what it makes of the rest.
Recurs(g, S, base, step, last) ==
  g = [s \in SUBSET S |-> IF s = {} THEN base ELSE step[<<g[s \ {last[s]}], last[s]>>]]

\* A recursion that takes one element out of a set at a time has a solution,
\* whose values are in any set that each step keeps to.
LEMMA SubsetRecursion ==
  ASSUME NEW S, IsFiniteSet(S), NEW V, NEW base \in V, NEW step \in [V \X S -> V],
         NEW last, \A s \in SUBSET S : s # {} => last[s] \in s
  PROVE  \E g \in [SUBSET S -> V] : Recurs(g, S, base, step, last)
<1> DEFINE one(g, s) == IF s = {} THEN base ELSE step[<<g[s \ {last[s]}], last[s]>>]
           D(n) == {s \in SUBSET S : Cardinality(s) <= n}
           Solves(g, n) == g \in [D(n) -> V] /\ \A s \in D(n) : g[s] = one(g, s)
           G == {n \in Nat : \E g : Solves(g, n)}
<1>1. \A s \in SUBSET S : IsFiniteSet(s) /\ Cardinality(s) \in Nat /\ (Cardinality(s) = 0 <=> s = {})
  BY FS_Subset, FS_CardinalityType, FS_EmptySet
<1>2. \A s \in SUBSET S : s # {} =>
        last[s] \in s /\ s \ {last[s]} \in SUBSET S /\ Cardinality(s \ {last[s]}) = Cardinality(s) - 1
  BY <1>1, FS_RemoveElement
<1>3. 0 \in G
  <2> DEFINE g == [s \in D(0) |-> base]
  <2>1. \A s \in D(0) : s = {}
    BY <1>1
  <2>2. Solves(g, 0)
    BY <2>1
  <2> QED
    BY <2>2
<1>4. ASSUME NEW n \in Nat, n \in G PROVE n + 1 \in G
  <2>1. PICK g : Solves(g, n)
    BY <1>4
  <2> DEFINE h == [s \in D(n + 1) |-> one(g, s)]
  <2>2. \A s \in D(n) : s \in D(n + 1)
    BY <1>1
  <2>3. \A s \in D(n + 1) : s # {} => s \ {last[s]} \in D(n) /\ last[s] \in S
    BY <1>1, <1>2
  <2> HIDE DEF D
  <2>4. \A s \in D(n) : h[s] = g[s]
    BY <2>1, <2>2
  <2>5. \A s \in D(n + 1) : s # {} => h[s \ {last[s]}] = g[s \ {last[s]}]
    BY <2>3, <2>4
  <2>6. h \in [D(n + 1) -> V]
    BY <2>1, <2>3
  <2>7. Solves(h, n + 1)
    BY <2>5, <2>6
  <2> HIDE DEF h, Solves
  <2> QED
    BY <2>7
<1> HIDE DEF G
<1>5. Cardinality(S) \in G
  BY <1>1, <1>3, <1>4, NumberInduction
<1>6. SUBSET S = D(Cardinality(S))
  BY FS_Subset
<1> USE DEF G
<1>7. PICK g : Solves(g, Cardinality(S))
  BY <1>5
<1>8. g \in [SUBSET S -> V] /\ \A s \in SUBSET S : g[s] = one(g, s)
  <2> HIDE DEF D, one
  <2> QED
    BY <1>6, <1>7
<1>9. g = [s \in SUBSET S |-> one(g, s)]
  <2> HIDE DEF one
  <2> QED
    BY <1>8
<1> QED
  BY <1>8, <1>9 DEF Recurs

-----------------------------------------------------------------------------
(* The sweep over range events                                             *)

\* Events whose versions are ordered.
Placed == [kind : {Introduced, Fixed, LastAffected}, v : Nat]

\* Ordered events have one that comes after every other, and LastOf is it.
LEMMA LastEvent ==
  ASSUME NEW events, events \subseteq Placed, IsFiniteSet(events), events # {}
  PROVE  LastOf(events) \in events /\ \A d \in events \ {LastOf(events)} : EventBefore(d, LastOf(events))
<1> DEFINE Least(s, e) == e \in s /\ \A d \in s \ {e} : EventBefore(d, e)
           G == {s \in SUBSET events : s = {} \/ \E e \in s : Least(s, e)}
<1>0. /\ \A d, e \in Placed : d = e \/ EventBefore(d, e) \/ EventBefore(e, d)
      /\ \A c, d, e \in Placed : EventBefore(c, d) /\ EventBefore(d, e) => EventBefore(c, e)
  BY DEF Placed, EventBefore, Introduced, Fixed, LastAffected
<1>1. ASSUME NEW s \in SUBSET events, \A x \in s : s \ {x} \in G PROVE s \in G
  <2> SUFFICES ASSUME s # {} PROVE \E e \in s : Least(s, e)
    OBVIOUS
  <2>1. PICK a \in s : TRUE
    OBVIOUS
  <2>2. CASE s \ {a} = {}
    BY <2>1, <2>2
  <2>3. CASE s \ {a} # {}
    <3>1. PICK b \in s \ {a} : Least(s \ {a}, b)
      BY <1>1, <2>1, <2>3
    <3>2. CASE EventBefore(a, b)
      BY <3>1, <3>2
    <3>3. CASE EventBefore(b, a)
      <4>1. \A d \in s \ {a} : EventBefore(d, a)
        BY <1>0, <3>1, <3>3
      <4> QED
        BY <2>1, <4>1
    <3> QED
      BY <1>0, <2>1, <3>1, <3>2, <3>3
  <2> QED
    BY <2>2, <2>3
<1> HIDE DEF G
<1>2. events \in G
  BY <1>1, SubsetInduction
<1> USE DEF G
<1>3. \E e \in events : \A d \in events \ {e} : EventBefore(d, e)
  BY <1>2
<1> QED
  BY <1>3, Zenon DEF LastOf

\* What one boundary does to the match so far, by what kind of event it is: an
\* introduced at or below the version begins one, a passed closing one ends it.
LEMMA PassKinds ==
  ASSUME NEW version \in Nat, NEW hit \in BOOLEAN, NEW e \in Placed
  PROVE  /\ Pass(version, hit, e) \in BOOLEAN
         /\ e.kind = Introduced => (Pass(version, hit, e) <=> hit \/ version >= e.v)
         /\ e.kind # Introduced => (Pass(version, hit, e) <=> hit /\ ~Passed(version, e))
<1>1. e.v \in Nat /\ e.kind \in {Introduced, Fixed, LastAffected}
  BY DEF Placed
<1>2. CASE e.kind = Introduced
  BY <1>1, <1>2 DEF Pass, Introduced, Fixed, LastAffected
<1>3. CASE e.kind = Fixed
  BY <1>1, <1>3 DEF Pass, Passed, Introduced, Fixed, LastAffected
<1>4. CASE e.kind = LastAffected
  BY <1>1, <1>4 DEF Pass, Passed, Introduced, Fixed, LastAffected
<1> QED
  BY <1>1, <1>2, <1>3, <1>4

\* One more boundary, above the others, moves the reading as Pass does.
LEMMA OneMore ==
  ASSUME NEW version \in Nat, NEW events, events \subseteq Placed, NEW e \in events,
         \A d \in events \ {e} : EventBefore(d, e)
  PROVE  Pass(version, InRange(version, events \ {e}), e) <=> InRange(version, events)
<1> DEFINE rest == events \ {e}
           Opens(b) == b.kind = Introduced /\ b.v <= version
           Ends(b, c) == c.kind # Introduced /\ c.v >= b.v /\ Passed(version, c)
           hit == InRange(version, rest)
<1>0. hit \in BOOLEAN /\ (hit <=> InRange(version, rest)) /\ e \in Placed
  BY DEF InRange
<1>1. \A s \in {rest, events} : InRange(version, s) <=> \E b \in s : Opens(b) /\ \A c \in s : ~Ends(b, c)
  BY DEF InRange
<1>2. \A d \in rest : d.v < e.v \/ (d.v = e.v /\ d.kind < e.kind)
  BY DEF EventBefore
<1>3. \A d \in events : d.v \in Nat /\ d.kind \in {Introduced, Fixed, LastAffected}
  BY DEF Placed
<1>4. events = rest \cup {e}
  OBVIOUS
<1> SUFFICES Pass(version, hit, e) <=> InRange(version, events)
  OBVIOUS
<1>5. CASE e.kind = Introduced
  <2>1. Pass(version, hit, e) <=> hit \/ version >= e.v
    <3> HIDE DEF hit
    <3> QED
      BY <1>0, <1>5, PassKinds
  <2>2. \A c \in rest : c.v < e.v
    BY <1>2, <1>3, <1>5 DEF Introduced, Fixed, LastAffected
  <2>3. \A c \in events : ~Ends(e, c)
    BY <1>3, <1>4, <1>5, <2>2
  <2>4. \A b \in rest : ~Ends(b, e)
    BY <1>5
  <2>5. Opens(e) <=> version >= e.v
    BY <1>3, <1>5
  <2> HIDE DEF Opens, Ends, hit
  <2> QED
    BY <1>0, <1>1, <1>4, <2>1, <2>3, <2>4, <2>5
<1>6. CASE e.kind # Introduced
  <2>1. Pass(version, hit, e) <=> hit /\ ~Passed(version, e)
    <3> HIDE DEF hit
    <3> QED
      BY <1>0, <1>6, PassKinds
  <2>2. ~Opens(e)
    BY <1>6
  <2>3. \A b \in rest : Ends(b, e) <=> Passed(version, e)
    BY <1>2, <1>3, <1>6
  <2> HIDE DEF Opens, Ends, hit
  <2> QED
    BY <1>0, <1>1, <1>4, <2>1, <2>2, <2>3
<1> QED
  BY <1>5, <1>6

\* The sweep answers what the schema says of the range.
LEMMA SweptIsInRange ==
  ASSUME NEW version \in Nat, NEW events, events \subseteq Placed, IsFiniteSet(events)
  PROVE  Swept(version, events) <=> InRange(version, events)
<1> DEFINE one(g, s) == IF s = {} THEN FALSE ELSE Pass(version, g[s \ {LastOf(s)}], LastOf(s))
           body(g) == [s \in SUBSET events |-> one(g, s)]
           after == CHOOSE g : g = body(g)
<1>0. \A s \in SUBSET events : s \subseteq Placed /\ IsFiniteSet(s)
  BY FS_Subset
<1>1. \A s \in SUBSET events : s # {} =>
        LastOf(s) \in s /\ \A d \in s \ {LastOf(s)} : EventBefore(d, LastOf(s))
  BY <1>0, LastEvent
<1>2. \E g : g = body(g)
  <2> DEFINE last == [s \in SUBSET events |-> LastOf(s)]
             step == [he \in BOOLEAN \X events |-> Pass(version, he[1], he[2])]
  <2>1. step \in [BOOLEAN \X events -> BOOLEAN]
    <3>1. ASSUME NEW hit \in BOOLEAN, NEW e \in events PROVE Pass(version, hit, e) \in BOOLEAN
      BY PassKinds
    <3> QED
      BY <3>1
  <2>2. \A s \in SUBSET events : s # {} => last[s] \in s
    BY <1>1
  <2>3. \A s \in SUBSET events : last[s] = LastOf(s)
    OBVIOUS
  <2>4. \A hit \in BOOLEAN, e \in events : step[<<hit, e>>] = Pass(version, hit, e)
    OBVIOUS
  <2> DEFINE V == BOOLEAN
             no == FALSE
  <2>9. no \in V
    OBVIOUS
  <2> HIDE DEF last, step, V, no
  <2>7. \E g \in [SUBSET events -> V] : Recurs(g, events, no, step, last)
    <3>1. step \in [V \X events -> V]
      BY <2>1 DEF V
    <3> QED
      BY <2>2, <2>9, <3>1, SubsetRecursion
  <2> USE DEF V, no
  <2>5. PICK g \in [SUBSET events -> BOOLEAN] :
          g = [s \in SUBSET events |-> IF s = {} THEN FALSE ELSE step[<<g[s \ {last[s]}], last[s]>>]]
    BY <2>7 DEF Recurs
  <2>6. \A s \in SUBSET events : g[s] = one(g, s)
    <3> SUFFICES ASSUME NEW s \in SUBSET events, s # {}
                 PROVE  g[s] = Pass(version, g[s \ {LastOf(s)}], LastOf(s))
      BY <2>5
    <3>1. g[s] = step[<<g[s \ {last[s]}], last[s]>>]
      BY <2>5
    <3>2. LastOf(s) \in events /\ g[s \ {LastOf(s)}] \in BOOLEAN
      BY <1>1
    <3> QED
      BY <2>3, <2>4, <3>1, <3>2
  <2> HIDE DEF one
  <2> QED
    BY <2>6
<1>3. Swept(version, events) = after[events]
  BY DEF Swept
<1>4. after = body(after)
  <2> HIDE DEF body
  <2> QED
    BY <1>2
<1> HIDE DEF after
<1> DEFINE G == {s \in SUBSET events : after[s] <=> InRange(version, s)}
<1>5. ASSUME NEW s \in SUBSET events, \A x \in s : s \ {x} \in G PROVE s \in G
  <2>1. CASE s = {}
    BY <1>4, <2>1 DEF InRange
  <2>2. CASE s # {}
    <3> DEFINE e == LastOf(s)
    <3>1. e \in s /\ \A d \in s \ {e} : EventBefore(d, e)
      BY <1>1, <2>2
    <3>2. after[s] = Pass(version, after[s \ {e}], e)
      BY <1>4, <2>2
    <3>3. after[s \ {e}] <=> InRange(version, s \ {e})
      BY <1>5, <3>1
    <3>4. e.kind \in {Introduced, Fixed, LastAffected}
      BY <3>1 DEF Placed
    <3> HIDE DEF e
    <3>5. Pass(version, after[s \ {e}], e) <=> Pass(version, InRange(version, s \ {e}), e)
      BY <3>3, <3>4 DEF Pass, Introduced, Fixed, LastAffected
    <3>6. Pass(version, InRange(version, s \ {e}), e) <=> InRange(version, s)
      BY <1>0, <3>1, OneMore
    <3> QED
      BY <3>2, <3>5, <3>6
  <2> QED
    BY <2>1, <2>2
<1> HIDE DEF G
<1>6. events \in G
  BY <1>5, SubsetInduction
<1> USE DEF G
<1> QED
  BY <1>3, <1>6

Entry(e) ==
  e.ranges \in Seq(RangeType) /\ \A r \in DOMAIN e.ranges : IsFiniteSet(e.ranges[r].events)

Inside(version, e) ==
  \E r \in Considered(e) :
    Comparable(version) /\ Orderable(e.ranges[r]) /\ InRange(version, e.ranges[r].events)

Sure(version, e) ==
  /\ Comparable(version)
  /\ \A r \in Considered(e) : Orderable(e.ranges[r])
  /\ e.versions # {} \/ e.ranges # <<>>

\* A range the comparator orders is matched as the schema reads it.
LEMMA OrderableRange ==
  ASSUME NEW version \in Nat \cup {Odd}, Comparable(version), NEW e, Entry(e),
         NEW r \in Considered(e), Orderable(e.ranges[r])
  PROVE  SweptLocally(version, e.ranges[r].events) <=> InRange(version, e.ranges[r].events)
<1> DEFINE events == e.ranges[r].events
<1>1. r \in DOMAIN e.ranges /\ e.ranges[r] \in RangeType
  BY DEF Considered, Entry
<1>2. events \subseteq EventType /\ IsFiniteSet(events)
  BY <1>1 DEF RangeType, Entry
<1>3. events \subseteq Placed
  <2> SUFFICES ASSUME NEW b \in events PROVE b \in Placed
    OBVIOUS
  <2>1. b \in EventType /\ b.v # Odd
    BY <1>2 DEF Orderable, Comparable
  <2> QED
    BY <2>1 DEF EventType, Placed
<1>4. version \in Nat
  BY DEF Comparable
<1> HIDE DEF events
<1>5. Swept(version, events) <=> InRange(version, events)
  BY <1>2, <1>3, <1>4, SweptIsInRange
<1> QED
  BY <1>5 DEF SweptLocally, events

\* The match keeps what the schema says is affected, keeps nothing else where
\* every range is ordered, and notes what it kept without being able to tell.
LEMMA EntryMatched ==
  ASSUME NEW version \in Nat \cup {Odd}, NEW e, Entry(e)
  PROVE  /\ Inside(version, e) => VersionAffected(version, e)
         /\ Sure(version, e) /\ version \notin e.versions /\ ~Inside(version, e)
              => ~VersionAffected(version, e)
         /\ ~Sure(version, e) /\ Considered(e) # {} /\ Comparable(version)
              => VersionAffected(version, e)
         /\ ~Sure(version, e) /\ e.ranges # <<>> /\ Comparable(version)
              /\ version \notin e.versions /\ ~Inside(version, e)
              => NotedUnordered(version, e)
<1>1. \A r \in Considered(e) : Comparable(version) /\ Orderable(e.ranges[r]) =>
        (SweptLocally(version, e.ranges[r].events) <=> InRange(version, e.ranges[r].events))
  BY OrderableRange
<1>2. Inside(version, e) => VersionAffected(version, e)
  BY <1>1 DEF Inside, VersionAffected
<1>3. Sure(version, e) /\ version \notin e.versions /\ ~Inside(version, e) => ~VersionAffected(version, e)
  BY <1>1 DEF Inside, Sure, VersionAffected, KeptUnordered
<1>4. ~Sure(version, e) /\ Considered(e) # {} /\ Comparable(version) => VersionAffected(version, e)
  BY DEF Sure, VersionAffected, KeptUnordered
<1>5. ASSUME ~Sure(version, e), e.ranges # <<>>, Comparable(version),
             version \notin e.versions, ~Inside(version, e)
      PROVE  NotedUnordered(version, e)
  <2> DEFINE odd == {r \in Considered(e) : ~Orderable(e.ranges[r])}
             i == Min(odd)
  <2>1. odd # {} /\ odd \subseteq Nat
    BY <1>5 DEF Sure, Considered, Entry
  <2> HIDE DEF odd
  <2>2. i \in odd /\ \A j \in odd : i <= j
    BY <2>1, LeastNumber
  <2> HIDE DEF i
  <2>3. i \in Nat
    BY <2>1, <2>2
  <2>4. \A j \in Considered(e) \cap 1 .. i - 1 : Orderable(e.ranges[j])
    BY <2>2, <2>3 DEF odd
  <2>5. \A j \in Considered(e) \cap 1 .. i - 1 : ~SweptLocally(version, e.ranges[j].events)
    BY <1>1, <1>5, <2>4 DEF Inside
  <2>6. i \in Considered(e) /\ KeptUnordered(e.ranges[i])
    BY <2>2 DEF odd, KeptUnordered
  <2> QED
    BY <1>5, <2>4, <2>5, <2>6 DEF NotedUnordered
<1> QED
  BY <1>2, <1>3, <1>4, <1>5

-----------------------------------------------------------------------------
(* One index                                                               *)

\* What is left of an answer: records, each at its place.
Records(recs) ==
  /\ DOMAIN recs \subseteq Nat \ {0} /\ IsFiniteSet(DOMAIN recs)
  /\ recs \in [DOMAIN recs -> RecordType]

\* Whoever took a name has it, and a record before it had to give way to import
\* paths it does not carry.
Holds(recs, kept, index) ==
  /\ index \in [Names -> {0} \cup kept]
  /\ \A n \in Names : index[n] # 0 => n \in Identity(recs[index[n]])
  /\ \A n \in Names : \A k \in kept : n \in Identity(recs[k]) =>
       /\ index[n] # 0
       /\ k < index[n] => recs[index[n]].imports /\ ~recs[k].imports

\* First is the least of some places, and 0 of none.
LEMMA FirstPlace ==
  ASSUME NEW P, P \subseteq Nat \ {0}
  PROVE  /\ P = {} => First(P) = 0
         /\ P # {} => First(P) \in P /\ First(P) # 0 /\ \A k \in P : First(P) <= k
<1>1. CASE P = {}
  BY <1>1 DEF First
<1>2. CASE P # {}
  <2>1. First(P) = Min(P)
    BY <1>2 DEF First
  <2>2. Min(P) \in P /\ \A k \in P : Min(P) <= k
    BY <1>2, LeastNumber
  <2> QED
    BY <1>2, <2>1, <2>2
<1> QED
  BY <1>1, <1>2

\* ByIdentity gives every name a record that carries it, where there is one.
LEMMA NamesHeld ==
  ASSUME NEW recs, Records(recs), NEW kept, kept \subseteq DOMAIN recs
  PROVE  Holds(recs, kept, ByIdentity(recs, kept))
<1> DEFINE index == ByIdentity(recs, kept)
           named(n) == {k \in kept : n \in Identity(recs[k])}
           rich(n) == {k \in named(n) : recs[k].imports}
<1>1. ASSUME NEW n \in Names
      PROVE  /\ index[n] \in {0} \cup kept
             /\ index[n] # 0 => n \in Identity(recs[index[n]])
             /\ \A k \in kept : n \in Identity(recs[k]) =>
                  /\ index[n] # 0
                  /\ k < index[n] => recs[index[n]].imports /\ ~recs[k].imports
  <2>1. index[n] = IF rich(n) # {} THEN First(rich(n)) ELSE First(named(n))
    BY DEF ByIdentity
  <2>2. named(n) \subseteq Nat \ {0} /\ rich(n) \subseteq named(n)
    BY DEF Records
  <2>3. \A k \in kept : k \in Nat
    BY DEF Records
  <2>4. /\ \A k \in named(n) : k \in kept /\ n \in Identity(recs[k])
        /\ \A k \in kept : n \in Identity(recs[k]) => k \in named(n)
        /\ \A k \in rich(n) : recs[k].imports
        /\ \A k \in named(n) : recs[k].imports => k \in rich(n)
    OBVIOUS
  <2> HIDE DEF index, named, rich
  <2>5. CASE rich(n) # {}
    <3>1. index[n] \in rich(n) /\ index[n] # 0 /\ \A k \in rich(n) : index[n] <= k
      BY <2>1, <2>2, <2>5, FirstPlace
    <3>2. \A k \in kept : k < index[n] => k \notin rich(n)
      BY <2>2, <2>3, <2>4, <3>1
    <3> QED
      BY <2>2, <2>4, <3>1, <3>2
  <2>6. CASE rich(n) = {} /\ named(n) # {}
    <3>1. index[n] \in named(n) /\ index[n] # 0 /\ \A k \in named(n) : index[n] <= k
      BY <2>1, <2>2, <2>6, FirstPlace
    <3>2. \A k \in named(n) : ~(k < index[n])
      BY <2>3, <2>4, <3>1
    <3> QED
      BY <2>4, <3>1, <3>2
  <2>7. CASE named(n) = {}
    <3>1. index[n] = 0
      BY <2>1, <2>2, <2>7, FirstPlace
    <3> QED
      BY <2>4, <2>7, <3>1
  <2> QED
    BY <2>5, <2>6, <2>7
<1>2. index \in [Names -> {0} \cup kept]
  <2>1. index = [n \in Names |-> index[n]]
    BY DEF ByIdentity
  <2> HIDE DEF index
  <2> QED
    BY <1>1, <2>1
<1> HIDE DEF index
<1>3. Holds(recs, kept, index)
  BY <1>1, <1>2 DEF Holds
<1> QED
  BY <1>3 DEF index

\* An advisory that has all of the two ratings that another has.
HasRatings(a, b) == (b.vector # Absent => a.vector # Absent) /\ (b.published # Absent => a.published # Absent)

\* The advisories with whatever ratings: whose they are stays.
Alike(recs, advs) ==
  /\ advs \in [DOMAIN recs -> RecordType]
  /\ \A w \in DOMAIN recs : /\ advs[w].id = recs[w].id /\ advs[w].aliases = recs[w].aliases
                            /\ Identity(advs[w]) = Identity(recs[w])

Adjacent(recs, k, w) == k = w \/ Identity(recs[k]) \cap Identity(recs[w]) # {}
Near(recs, kept, w) == {k \in kept : Adjacent(recs, k, w)}
NextToNear(recs, kept, w) == {k \in kept : \E l \in Near(recs, kept, w) : Adjacent(recs, k, l)}

\* What an advisory is rated some of these records say.
SaidBy(recs, K, a) ==
  a.vector \in {recs[k].vector : k \in K} /\ a.published \in {recs[k].published : k \in K}

Takes(recs, index, w, k) == w # k /\ \E n \in Identity(recs[k]) : index[n] = w

\* The ratings once these records have lent theirs.  A record that has import
\* paths took its names from ones before it that have none, and those had
\* borrowed nothing when they lent: hence nothing comes from further than next
\* to near.
Lending(recs, kept, index, done, advs) ==
  /\ Alike(recs, advs)
  /\ \A w \in kept : (\A j \in done : j < w) =>
       /\ SaidBy(recs, Near(recs, kept, w), advs[w])
       /\ ~recs[w].imports => SaidBy(recs, {w}, advs[w])
  /\ \A w \in kept : SaidBy(recs, NextToNear(recs, kept, w), advs[w])
  /\ \A w \in DOMAIN recs : HasRatings(advs[w], recs[w])
  /\ \A k \in done, w \in kept :
       Takes(recs, index, w, k) => HasRatings(advs[w], recs[k])

\* One lender fills the empty fields of the advisories that took its names, and
\* nothing else.
LEMMA LentOnce ==
  ASSUME NEW recs, Records(recs), NEW kept, kept \subseteq DOMAIN recs,
         NEW index, NEW advs, Alike(recs, advs), NEW k \in kept
  PROVE  /\ Alike(recs, Lent(advs, index, k))
         /\ \A w \in DOMAIN recs :
              LET a == Lent(advs, index, k)[w] IN
              /\ ~Takes(recs, index, w, k) => a = advs[w]
              /\ Takes(recs, index, w, k) =>
                   /\ a.vector = advs[w].vector \/ a.vector = advs[k].vector
                   /\ a.published = advs[w].published \/ a.published = advs[k].published
                   /\ HasRatings(a, advs[k])
              /\ HasRatings(a, advs[w])
<1> DEFINE c == Lent(advs, index, k)
<1>0. k \in DOMAIN recs /\ DOMAIN advs = DOMAIN recs /\ Identity(advs[k]) = Identity(recs[k])
  BY DEF Alike
<1>1. ASSUME NEW w \in DOMAIN recs
      PROVE  /\ c[w] \in RecordType /\ c[w].id = recs[w].id /\ c[w].aliases = recs[w].aliases
             /\ ~Takes(recs, index, w, k) => c[w] = advs[w]
             /\ Takes(recs, index, w, k) =>
                  /\ c[w].vector = advs[w].vector \/ c[w].vector = advs[k].vector
                  /\ c[w].published = advs[w].published \/ c[w].published = advs[k].published
                  /\ HasRatings(c[w], advs[k])
             /\ HasRatings(c[w], advs[w])
  <2>1. /\ advs[w] \in RecordType /\ advs[k] \in RecordType
        /\ advs[w].id = recs[w].id /\ advs[w].aliases = recs[w].aliases
    BY <1>0 DEF Alike
  <2>2. CASE ~Takes(recs, index, w, k)
    <3>1. c[w] = advs[w]
      BY <1>0, <2>2 DEF Lent, Takes
    <3> HIDE DEF c
    <3> QED
      BY <2>1, <2>2, <3>1 DEF HasRatings
  <2>3. CASE Takes(recs, index, w, k)
    <3> DEFINE v == Fill(advs[w].vector, advs[k].vector)
               p == Fill(advs[w].published, advs[k].published)
               filled == [advs[w] EXCEPT !.vector = v, !.published = p]
    <3>1. c[w] = filled
      BY <1>0, <2>3 DEF Lent, Takes
    <3>2. v \in Stated /\ p \in Stated
      BY <2>1 DEF RecordType, Fill
    <3>3. /\ v = advs[w].vector \/ v = advs[k].vector
          /\ p = advs[w].published \/ p = advs[k].published
          /\ advs[k].vector # Absent \/ advs[w].vector # Absent => v # Absent
          /\ advs[k].published # Absent \/ advs[w].published # Absent => p # Absent
      BY DEF Fill
    <3> HIDE DEF v, p
    <3>4. /\ filled \in RecordType /\ filled.vector = v /\ filled.published = p
          /\ filled.id = advs[w].id /\ filled.aliases = advs[w].aliases
      BY <2>1, <3>2 DEF RecordType
    <3> HIDE DEF c, filled
    <3> QED
      BY <2>1, <2>3, <3>1, <3>3, <3>4 DEF HasRatings
  <2> QED
    BY <2>2, <2>3
<1>2. c = [w \in DOMAIN recs |-> c[w]]
  BY <1>0 DEF Lent
<1> HIDE DEF c
<1>3. Alike(recs, c)
  <2>1. c \in [DOMAIN recs -> RecordType]
    BY <1>1, <1>2
  <2> QED
    BY <1>1, <2>1 DEF Alike, Identity
<1> SUFFICES /\ Alike(recs, c)
             /\ \A w \in DOMAIN recs :
                  /\ ~Takes(recs, index, w, k) => c[w] = advs[w]
                  /\ Takes(recs, index, w, k) =>
                       /\ c[w].vector = advs[w].vector \/ c[w].vector = advs[k].vector
                       /\ c[w].published = advs[w].published \/ c[w].published = advs[k].published
                       /\ HasRatings(c[w], advs[k])
                  /\ HasRatings(c[w], advs[w])
  BY DEF c
<1> QED
  BY <1>1, <1>3

\* One more lender, after those before it, leaves ratings that are as they should.
LEMMA LendingGoesOn ==
  ASSUME NEW recs, Records(recs), NEW kept, kept \subseteq DOMAIN recs,
         NEW index, Holds(recs, kept, index), NEW done \in SUBSET kept, NEW k \in done,
         \A j \in done \ {k} : j < k,
         NEW advs, Lending(recs, kept, index, done \ {k}, advs)
  PROVE  Lending(recs, kept, index, done, Lent(advs, index, k))
<1> DEFINE c == Lent(advs, index, k)
<1>0. /\ Alike(recs, advs) /\ k \in kept /\ k \in DOMAIN recs /\ k \in Nat
      /\ \A w \in kept : w \in DOMAIN recs /\ w \in Nat
      /\ \A j \in done : j \in kept
  BY DEF Lending, Records
<1>1. /\ Alike(recs, c)
      /\ \A w \in DOMAIN recs :
           /\ ~Takes(recs, index, w, k) => c[w] = advs[w]
           /\ Takes(recs, index, w, k) =>
                /\ c[w].vector = advs[w].vector \/ c[w].vector = advs[k].vector
                /\ c[w].published = advs[w].published \/ c[w].published = advs[k].published
                /\ HasRatings(c[w], advs[k])
           /\ HasRatings(c[w], advs[w])
  BY <1>0, LentOnce
<1> HIDE DEF c
<1>2. ASSUME NEW w \in kept, Takes(recs, index, w, k)
      PROVE  /\ Adjacent(recs, k, w) /\ Adjacent(recs, w, k)
             /\ k < w => recs[w].imports /\ ~recs[k].imports
  <2>1. PICK n \in Identity(recs[k]) : index[n] = w
    BY <1>2 DEF Takes
  <2>2. recs[k] \in RecordType
    BY <1>0 DEF Records
  <2>3. n \in Names
    BY <2>2 DEF RecordType, Identity
  <2>4. w # 0
    BY <1>0 DEF Records
  <2>5. n \in Identity(recs[w])
    BY <2>1, <2>3, <2>4 DEF Holds
  <2>6. k < w => recs[w].imports /\ ~recs[k].imports
    BY <1>0, <2>1, <2>3 DEF Holds
  <2> QED
    BY <2>1, <2>5, <2>6 DEF Adjacent
<1>3. \A K, L : \A w \in kept :
        /\ Takes(recs, index, w, k) /\ K \subseteq L
        /\ SaidBy(recs, K, advs[w]) /\ SaidBy(recs, L, advs[k])
        => SaidBy(recs, L, c[w])
  BY <1>0, <1>1 DEF SaidBy
<1>4. \A K, L : \A a : SaidBy(recs, K, a) /\ K \subseteq L => SaidBy(recs, L, a)
  BY DEF SaidBy
<1>5. /\ SaidBy(recs, Near(recs, kept, k), advs[k])
      /\ ~recs[k].imports => SaidBy(recs, {k}, advs[k])
  BY <1>0 DEF Lending
<1>6. ASSUME NEW w \in kept, \A j \in done : j < w
      PROVE  /\ SaidBy(recs, Near(recs, kept, w), c[w])
             /\ ~recs[w].imports => SaidBy(recs, {w}, c[w])
  <2>1. /\ SaidBy(recs, Near(recs, kept, w), advs[w])
        /\ ~recs[w].imports => SaidBy(recs, {w}, advs[w])
    BY <1>6 DEF Lending
  <2>2. CASE ~Takes(recs, index, w, k)
    BY <1>0, <1>1, <2>1, <2>2
  <2>3. CASE Takes(recs, index, w, k)
    <3>1. recs[w].imports /\ ~recs[k].imports /\ Adjacent(recs, k, w)
      BY <1>2, <1>6, <2>3
    <3>2. SaidBy(recs, {k}, advs[k]) /\ {k} \subseteq Near(recs, kept, w)
      BY <1>0, <1>5, <3>1 DEF Near
    <3>3. SaidBy(recs, Near(recs, kept, w), advs[k])
      BY <1>4, <3>2
    <3> QED
      BY <1>3, <2>1, <2>3, <3>1, <3>3
  <2> QED
    BY <2>2, <2>3
<1>7. ASSUME NEW w \in kept PROVE SaidBy(recs, NextToNear(recs, kept, w), c[w])
  <2>1. SaidBy(recs, NextToNear(recs, kept, w), advs[w])
    BY DEF Lending
  <2>2. CASE ~Takes(recs, index, w, k)
    BY <1>0, <1>1, <2>1, <2>2
  <2>3. CASE Takes(recs, index, w, k)
    <3>1. Near(recs, kept, k) \subseteq NextToNear(recs, kept, w)
      BY <1>0, <1>2, <2>3 DEF Near, NextToNear
    <3>2. SaidBy(recs, NextToNear(recs, kept, w), advs[k])
      BY <1>4, <1>5, <3>1
    <3> QED
      BY <1>3, <2>1, <2>3, <3>2
  <2> QED
    BY <2>2, <2>3
<1>8. \A w \in DOMAIN recs : HasRatings(c[w], recs[w])
  BY <1>1 DEF Lending, HasRatings
<1>9. ASSUME NEW j \in done, NEW w \in kept, Takes(recs, index, w, j)
      PROVE  HasRatings(c[w], recs[j])
  <2>1. CASE j = k
    <3>1. HasRatings(advs[k], recs[k])
      BY <1>0, <1>9, <2>1 DEF Lending
    <3> QED
      BY <1>0, <1>1, <1>9, <2>1, <3>1 DEF HasRatings
  <2>2. CASE j # k
    <3>1. HasRatings(advs[w], recs[j])
      BY <1>9, <2>2 DEF Lending
    <3> QED
      BY <1>0, <1>1, <3>1 DEF HasRatings
  <2> QED
    BY <2>1, <2>2
<1>10. Lending(recs, kept, index, done, c)
  BY <1>1, <1>6, <1>7, <1>8, <1>9 DEF Lending
<1> QED
  BY <1>10 DEF c

\* Every record has lent its ratings in the end.
LEMMA AllLent ==
  ASSUME NEW recs, Records(recs), NEW kept, kept \subseteq DOMAIN recs,
         NEW index, Holds(recs, kept, index)
  PROVE  Lending(recs, kept, index, kept, Borrowed(recs, kept, index))
<1> DEFINE one(g, s) == IF s = {} THEN recs ELSE Lent(g[s \ {Max(s)}], index, Max(s))
           body(g) == [s \in SUBSET kept |-> one(g, s)]
           after == CHOOSE g : g = body(g)
           V == [DOMAIN recs -> RecordType]
           W == {advs \in V : Alike(recs, advs)}
<1>0. /\ kept \subseteq Nat /\ IsFiniteSet(kept)
      /\ \A s \in SUBSET kept : s # {} => Max(s) \in s /\ \A y \in s : y <= Max(s)
  <2>1. kept \subseteq Nat /\ IsFiniteSet(kept)
    BY FS_Subset DEF Records
  <2>2. \A s \in SUBSET kept : s \subseteq Nat /\ IsFiniteSet(s)
    BY <2>1, FS_Subset
  <2> QED
    BY <2>1, <2>2, GreatestNumber
<1>1. recs \in W
  BY DEF Records, Alike
<1>2. \A advs \in W, k \in kept : Lent(advs, index, k) \in W
  <2> SUFFICES ASSUME NEW advs \in W, NEW k \in kept PROVE Lent(advs, index, k) \in W
    OBVIOUS
  <2>1. Alike(recs, Lent(advs, index, k))
    BY LentOnce
  <2>2. Lent(advs, index, k) \in V
    BY <2>1 DEF Alike
  <2> QED
    BY <2>1, <2>2
<1>3. \E g \in [SUBSET kept -> W] : g = body(g)
  <2> DEFINE last == [s \in SUBSET kept |-> Max(s)]
             step == [ak \in W \X kept |-> Lent(ak[1], index, ak[2])]
  <2> HIDE DEF W
  <2>1. step \in [W \X kept -> W]
    BY <1>2
  <2>2. \A s \in SUBSET kept : s # {} => last[s] \in s
    BY <1>0
  <2>3. \A s \in SUBSET kept : last[s] = Max(s)
    OBVIOUS
  <2>4. \A advs \in W, k \in kept : step[<<advs, k>>] = Lent(advs, index, k)
    OBVIOUS
  <2> HIDE DEF last, step
  <2>5. PICK g \in [SUBSET kept -> W] : Recurs(g, kept, recs, step, last)
    BY <1>0, <1>1, <2>1, <2>2, SubsetRecursion
  <2>6. \A s \in SUBSET kept : g[s] = one(g, s)
    <3> SUFFICES ASSUME NEW s \in SUBSET kept
                 PROVE  g[s] = one(g, s)
      OBVIOUS
    <3>0. g[s] = IF s = {} THEN recs ELSE step[<<g[s \ {last[s]}], last[s]>>]
      BY <2>5 DEF Recurs
    <3>1. s # {} => Max(s) \in kept /\ g[s \ {Max(s)}] \in W
      BY <1>0
    <3> QED
      BY <2>3, <2>4, <3>0, <3>1
  <2>7. g = [s \in SUBSET kept |-> g[s]]
    OBVIOUS
  <2> HIDE DEF one
  <2>8. g = body(g)
    BY <2>6, <2>7
  <2> QED
    BY <2>8
<1>4. Borrowed(recs, kept, index) = after[kept]
  BY DEF Borrowed
<1>5. after = body(after)
  <2> HIDE DEF body
  <2> QED
    BY <1>3
<1> HIDE DEF after
<1> DEFINE G == {s \in SUBSET kept : Lending(recs, kept, index, s, after[s])}
<1>6. ASSUME NEW s \in SUBSET kept, \A x \in s : s \ {x} \in G PROVE s \in G
  <2>1. CASE s = {}
    <3>1. after[s] = recs
      BY <1>5, <2>1
    <3>2. Lending(recs, kept, index, {}, recs)
      <4>1. Alike(recs, recs)
        BY <1>1
      <4>2. \A w \in kept : /\ SaidBy(recs, {w}, recs[w])
                            /\ w \in Near(recs, kept, w) /\ w \in NextToNear(recs, kept, w)
        BY DEF SaidBy, Near, NextToNear, Adjacent
      <4>3. \A w \in kept : /\ SaidBy(recs, Near(recs, kept, w), recs[w])
                            /\ SaidBy(recs, NextToNear(recs, kept, w), recs[w])
        BY <4>2 DEF SaidBy
      <4> QED
        BY <4>1, <4>2, <4>3 DEF Lending, HasRatings
    <3> QED
      BY <2>1, <3>1, <3>2
  <2>2. CASE s # {}
    <3> DEFINE k == Max(s)
    <3>1. k \in s /\ \A j \in s \ {k} : j < k
      <4>1. k \in s /\ \A j \in s : j <= k
        BY <1>0, <2>2
      <4>2. \A j \in s : j \in Nat
        BY <1>0
      <4> HIDE DEF k
      <4> QED
        BY <4>1, <4>2
    <3>2. after[s] = Lent(after[s \ {k}], index, k)
      BY <1>5, <2>2
    <3> HIDE DEF k
    <3>3. Lending(recs, kept, index, s \ {k}, after[s \ {k}])
      BY <1>6, <3>1
    <3>4. Lending(recs, kept, index, s, Lent(after[s \ {k}], index, k))
      BY <3>1, <3>3, LendingGoesOn
    <3> QED
      BY <3>2, <3>4
  <2> QED
    BY <2>1, <2>2
<1> HIDE DEF G
<1>7. kept \in G
  BY <1>0, <1>6, SubsetInduction
<1> USE DEF G
<1> QED
  BY <1>4, <1>7

\* What a component's index shows of the records it was made from.
IndexIsSound(version, recs, m) ==
  LET kept == Kept(version, recs) IN
  /\ m \in [Names -> RecordType \cup {NoAdv}]
  /\ \A n \in Names :
       (\E k \in kept : n \in Identity(recs[k])) => m[n] # NoAdv /\ n \in Identity(m[n])
  /\ \A k \in kept : \A n \in recs[k].upstream : m[n] # NoAdv
  /\ \A n \in Names : m[n] # NoAdv =>
       LET own == {k \in kept : recs[k].id = m[n].id} IN
       SaidBy(recs, LinkedTo(recs, kept, LinkedTo(recs, kept, own)), m[n])
  /\ \A n \in Names : m[n] # NoAdv =>
       \A k \in kept : n \in Identity(recs[k]) => HasRatings(m[n], recs[k])

\* A record is not the absence of one, and its ids are advisory ids.
LEMMA RecordIsNot ==
  ASSUME NEW a \in RecordType
  PROVE  a # NoAdv /\ Identity(a) \subseteq Names /\ a.upstream \subseteq Names
<1>1. a.id \in Names /\ a.aliases \subseteq Names /\ a.upstream \subseteq Names
  BY DEF RecordType
<1>2. NoAdv.id = "none"
  BY DEF NoAdv
<1> QED
  BY <1>1, <1>2, InputAssumption DEF Identity

\* buildMap finds each record and rates it, from what is near it.
LEMMA BuildMapSound ==
  ASSUME NEW version, NEW recs, Records(recs)
  PROVE  IndexIsSound(version, recs, BuildMap(version, recs))
<1> DEFINE kept == Kept(version, recs)
           index == ByIdentity(recs, kept)
           advs == Borrowed(recs, kept, index)
           full == WithUpstream(recs, kept, index)
           m == BuildMap(version, recs)
<1>1. kept \subseteq DOMAIN recs
  BY DEF Kept
<1>2. m = [n \in Names |-> IF full[n] = 0 THEN NoAdv ELSE advs[full[n]]]
  BY DEF BuildMap
<1>3. full = [n \in Names |-> IF index[n] = 0 THEN First(Bundles(recs, kept, n)) ELSE index[n]]
  BY DEF WithUpstream
<1> HIDE DEF kept
<1>4. Holds(recs, kept, index)
  BY <1>1, NamesHeld
<1> HIDE DEF index, full, advs, m
<1>5. Lending(recs, kept, index, kept, advs)
  BY <1>1, <1>4, AllLent DEF advs
<1>6. \A k \in kept : /\ k \in Nat \ {0} /\ k \in DOMAIN recs
                      /\ recs[k] \in RecordType /\ recs[k].upstream \subseteq Names
  BY <1>1, RecordIsNot DEF Records
<1>7. ASSUME NEW n \in Names
      PROVE  /\ full[n] \in {0} \cup kept
             /\ index[n] # 0 => full[n] = index[n]
             /\ (\E k \in kept : n \in recs[k].upstream) => full[n] # 0
  <2>1. Bundles(recs, kept, n) \subseteq kept /\ Bundles(recs, kept, n) \subseteq Nat \ {0}
    BY <1>6 DEF Bundles
  <2>2. index[n] \in {0} \cup kept /\ 0 \notin kept
    BY <1>4, <1>6 DEF Holds
  <2>3. full[n] = IF index[n] = 0 THEN First(Bundles(recs, kept, n)) ELSE index[n]
    BY <1>3
  <2>4. /\ Bundles(recs, kept, n) = {} => First(Bundles(recs, kept, n)) = 0
        /\ Bundles(recs, kept, n) # {} => First(Bundles(recs, kept, n)) \in Bundles(recs, kept, n)
    BY <2>1, FirstPlace
  <2>5. (\E k \in kept : n \in recs[k].upstream) => Bundles(recs, kept, n) # {}
    BY DEF Bundles
  <2> QED
    BY <2>1, <2>2, <2>3, <2>4, <2>5
<1>8. \A w \in kept : /\ advs[w] \in RecordType /\ advs[w] # NoAdv
                      /\ advs[w].id = recs[w].id /\ Identity(advs[w]) = Identity(recs[w])
  <2>1. Alike(recs, advs)
    BY <1>5 DEF Lending
  <2>2. \A w \in kept : /\ advs[w] \in RecordType
                        /\ advs[w].id = recs[w].id /\ Identity(advs[w]) = Identity(recs[w])
    BY <1>6, <2>1 DEF Alike
  <2> QED
    BY <2>2, RecordIsNot
<1>9. \A n \in Names : /\ full[n] = 0 => m[n] = NoAdv
                       /\ full[n] # 0 => m[n] = advs[full[n]] /\ full[n] \in kept /\ m[n] # NoAdv
                       /\ m[n] # NoAdv => full[n] # 0
  BY <1>2, <1>7, <1>8
<1>10. m \in [Names -> RecordType \cup {NoAdv}]
  <2>1. \A n \in Names : m[n] \in RecordType \cup {NoAdv}
    BY <1>8, <1>9
  <2>2. m = [n \in Names |-> m[n]]
    BY <1>2
  <2> QED
    BY <2>1, <2>2
<1>11. ASSUME NEW n \in Names, NEW k \in kept, n \in Identity(recs[k])
       PROVE  /\ m[n] # NoAdv /\ n \in Identity(m[n])
              /\ HasRatings(m[n], recs[k])
  <2> DEFINE w == index[n]
  <2>1. w # 0 /\ w \in kept /\ n \in Identity(recs[w])
    BY <1>4, <1>11 DEF Holds
  <2>2. m[n] = advs[w] /\ m[n] # NoAdv
    BY <1>7, <1>9, <2>1
  <2>3. n \in Identity(m[n])
    BY <1>8, <2>1, <2>2
  <2>4. HasRatings(advs[w], recs[k])
    <3>1. CASE w = k
      BY <1>5, <1>6, <3>1 DEF Lending
    <3>2. CASE w # k
      <4>1. Takes(recs, index, w, k)
        BY <1>11, <3>2 DEF Takes
      <4> QED
        BY <1>5, <2>1, <4>1 DEF Lending
    <3> QED
      BY <3>1, <3>2
  <2> QED
    BY <2>2, <2>3, <2>4
<1>12. \A k \in kept : \A n \in recs[k].upstream : m[n] # NoAdv
  BY <1>6, <1>7, <1>9
<1>13. ASSUME NEW n \in Names, m[n] # NoAdv
       PROVE  LET own == {k \in kept : recs[k].id = m[n].id} IN
              SaidBy(recs, LinkedTo(recs, kept, LinkedTo(recs, kept, own)), m[n])
  <2> DEFINE w == full[n]
             own == {k \in kept : recs[k].id = m[n].id}
             near == LinkedTo(recs, kept, LinkedTo(recs, kept, own))
  <2>1. w \in kept /\ m[n] = advs[w] /\ recs[w].id = m[n].id
    BY <1>8, <1>9, <1>13
  <2>2. SaidBy(recs, NextToNear(recs, kept, w), m[n])
    BY <1>5, <2>1 DEF Lending
  <2>3. NextToNear(recs, kept, w) \subseteq near
    <3> SUFFICES ASSUME NEW k \in NextToNear(recs, kept, w) PROVE k \in near
      OBVIOUS
    <3>1. w \in own
      BY <2>1
    <3>2. PICK l \in kept : Adjacent(recs, l, w) /\ Adjacent(recs, k, l)
      BY DEF NextToNear, Near
    <3> HIDE DEF own
    <3>3. l \in LinkedTo(recs, kept, own)
      BY <3>1, <3>2 DEF LinkedTo, Adjacent
    <3>4. k \in kept
      BY DEF NextToNear
    <3> QED
      BY <3>2, <3>3, <3>4 DEF LinkedTo, Adjacent
  <2> HIDE DEF near
  <2>4. SaidBy(recs, near, m[n])
    BY <2>2, <2>3 DEF SaidBy
  <2> QED
    BY <2>4 DEF near
<1>14. /\ \A n \in Names :
            (\E k \in kept : n \in Identity(recs[k])) => m[n] # NoAdv /\ n \in Identity(m[n])
       /\ \A n \in Names : m[n] # NoAdv =>
            \A k \in kept : n \in Identity(recs[k]) => HasRatings(m[n], recs[k])
  BY <1>11
<1> USE DEF kept
<1> QED
  BY <1>10, <1>12, <1>13, <1>14 DEF IndexIsSound, m

-----------------------------------------------------------------------------
(* The run                                                                 *)

TypeCorrect ==
  /\ input \in Inputs
  /\ maps \in Seq([Names -> RecordType \cup {NoAdv}])
  /\ cached \subseteq RecordType /\ unread \subseteq cached
  /\ rating \in [Names -> Labels \cup {"absent"}]
  /\ phase \in {"query", "rate", "done"}

\* Each name asked about has its index, and its corrections and notes are kept.
AnswersIndexed ==
  /\ Len(maps) <= Len(input.answers)
  /\ \A i \in DOMAIN maps :
       /\ maps[i] = BuildMap(input.version, Matched(i))
       /\ SetAside(input.version, Matched(i)) \subseteq setAside
       /\ input.local => \A k \in DOMAIN input.answers[i] :
            NotedUnordered(input.version, input.answers[i][k].entry) => input.answers[i][k].id \in noted

\* This is the most severe of what these advisories say of an id.
MostSevere(seen, n, label) ==
  LET said == {Severity(a) : a \in {b \in seen : n \in Identity(b)}} IN
    \/ said = {} /\ label = "absent"
    \/ label \in said /\ \A s \in said : Rank(label) <= Rank(s)

\* What the walk has visited is what each id is rated by.
RatedSoFar == \A n \in Names : MostSevere(cached \ unread, n, rating[n])

WalkInPhase == (phase = "query" => cached = {}) /\ (phase = "done" => unread = {})

IInv == TypeCorrect /\ AnswersIndexed /\ RatedSoFar /\ WalkInPhase

\* What a component is answered with, as InputAssumption has it.
LEMMA InputIs ==
  ASSUME NEW i \in Inputs
  PROVE  /\ i.version \in Nat \cup {Odd} /\ i.local \in BOOLEAN
         /\ i.answers \in Seq(Seq(RecordType))
         /\ \A j \in DOMAIN i.answers : i.answers[j] \in Seq(RecordType)
         /\ \A j \in DOMAIN i.answers : \A k \in DOMAIN i.answers[j] :
              i.answers[j][k] \in RecordType /\ Entry(i.answers[j][k].entry)
<1>1. /\ i.version \in Nat \cup {Odd} /\ i.local \in BOOLEAN
      /\ i.answers \in Seq(Seq(RecordType))
      /\ \A answer \in ToSet(i.answers) : \A rec \in ToSet(answer) :
           \A rng \in ToSet(rec.entry.ranges) : IsFiniteSet(rng.events)
  BY InputAssumption
<1>2. \A j \in DOMAIN i.answers : i.answers[j] \in Seq(RecordType) /\ i.answers[j] \in ToSet(i.answers)
  BY <1>1 DEF ToSet
<1>3. ASSUME NEW j \in DOMAIN i.answers, NEW k \in DOMAIN i.answers[j]
      PROVE  i.answers[j][k] \in RecordType /\ Entry(i.answers[j][k].entry)
  <2> DEFINE rec == i.answers[j][k]
  <2>1. rec \in RecordType /\ rec \in ToSet(i.answers[j])
    BY <1>2 DEF ToSet
  <2> HIDE DEF rec
  <2>2. rec.entry.ranges \in Seq(RangeType)
    BY <2>1 DEF RecordType
  <2>3. \A r \in DOMAIN rec.entry.ranges : IsFiniteSet(rec.entry.ranges[r].events)
    BY <1>1, <1>2, <2>1 DEF ToSet
  <2>4. Entry(rec.entry)
    BY <2>2, <2>3 DEF Entry
  <2> QED
    BY <2>1, <2>4 DEF rec
<1> QED
  BY <1>1, <1>2, <1>3

\* What is matched of an answer is some of its records, each at its place.
LEMMA MatchedRecords ==
  ASSUME input \in Inputs, NEW i \in DOMAIN input.answers
  PROVE  /\ Records(Matched(i)) /\ DOMAIN Matched(i) \subseteq DOMAIN input.answers[i]
         /\ \A k \in DOMAIN Matched(i) : Matched(i)[k] = input.answers[i][k]
<1> DEFINE answer == input.answers[i]
           D == {j \in DOMAIN answer : input.local => VersionAffected(input.version, answer[j].entry)}
           recs == Matched(i)
<1>1. answer \in Seq(RecordType)
  BY InputIs
<1>2. /\ DOMAIN answer = 1 .. Len(answer) /\ Len(answer) \in Nat
      /\ \A k \in DOMAIN answer : answer[k] \in RecordType
  BY <1>1
<1>3. recs = [k \in D |-> answer[k]]
  BY DEF Matched
<1>4. D \subseteq DOMAIN answer
  OBVIOUS
<1> HIDE DEF recs, D, answer
<1>5. DOMAIN recs = D /\ \A k \in D : recs[k] = answer[k]
  BY <1>3
<1>6. IsFiniteSet(D)
  <2>1. IsFiniteSet(1 .. Len(answer))
    BY <1>2, FS_Interval
  <2> QED
    BY <1>2, <1>4, <2>1, FS_Subset
<1>7. recs \in [D -> RecordType]
  BY <1>2, <1>3, <1>4
<1>8. Records(recs)
  BY <1>2, <1>4, <1>5, <1>6, <1>7 DEF Records
<1> QED
  BY <1>4, <1>5, <1>8 DEF recs, answer

\* A severity is one of the labels, and UNKNOWN only where no rating can be read.
LEMMA SeverityIs ==
  ASSUME NEW a \in RecordType
  PROVE  Severity(a) \in Labels /\ (Severity(a) # Unrated <=> Readable(a.vector) \/ Readable(a.published))
<1>1. a.vector \in Stated /\ a.published \in Stated
  BY DEF RecordType
<1>0. /\ \A t \in Stated : ReadAs(t) \in Labels /\ (ReadAs(t) # Unrated <=> Readable(t))
      /\ Unrated \in Labels
  BY DEF Stated, Labels, ReadAs, Readable, Absent, Unrated
<1> DEFINE v == ReadAs(a.vector)
           p == ReadAs(a.published)
<1>5. /\ v \in Labels /\ p \in Labels
      /\ (v # Unrated <=> Readable(a.vector)) /\ (p # Unrated <=> Readable(a.published))
  BY <1>0, <1>1
<1>6. Severity(a) = CASE p = Unrated -> v
                      [] p # Unrated /\ v = Unrated -> p
                      [] OTHER -> IF Rank(p) < Rank(v) THEN p ELSE v
  BY DEF Severity
<1> HIDE DEF v, p
<1>2. CASE p = Unrated
  BY <1>2, <1>5, <1>6
<1>3. CASE p # Unrated /\ v = Unrated
  BY <1>3, <1>5, <1>6
<1>4. CASE p # Unrated /\ v # Unrated
  BY <1>4, <1>5, <1>6
<1> QED
  BY <1>2, <1>3, <1>4

\* Every label has its rank.
LEMMA RankIs == \A label \in Labels : Rank(label) \in 0 .. 5
  BY DEF Labels, Rank, Unrated

\* What the indexes hold is what the merged set holds.
LEMMA MergedSets ==
  ASSUME NEW sets \in Seq([Names -> RecordType \cup {NoAdv}]), NEW n \in Names
  PROVE  /\ Merge(sets)[n] \in RecordType \cup {NoAdv}
         /\ (\E i \in DOMAIN sets : sets[i][n] # NoAdv) => Merge(sets)[n] # NoAdv
<1> DEFINE found == {i \in DOMAIN sets : sets[i][n] # NoAdv}
<1>1. Merge(sets)[n] = IF found = {} THEN NoAdv ELSE sets[Min(found)][n]
  BY DEF Merge
<1>2. found \subseteq Nat /\ \A i \in found : sets[i][n] \in RecordType /\ sets[i][n] # NoAdv
  OBVIOUS
<1>3. (\E i \in DOMAIN sets : sets[i][n] # NoAdv) => found # {}
  OBVIOUS
<1> HIDE DEF found
<1>4. found # {} => Min(found) \in found
  BY <1>2, LeastNumber
<1> QED
  BY <1>1, <1>2, <1>3, <1>4

\* Before the first query the invariant holds.
LEMMA Initially == Init => IInv
<1> SUFFICES ASSUME Init PROVE IInv
  OBVIOUS
<1>1. TypeCorrect
  BY DEF Init, TypeCorrect
<1>2. AnswersIndexed
  <2>1. input.answers \in Seq(Seq(RecordType))
    BY InputIs DEF Init
  <2> QED
    BY <2>1 DEF Init, AnswersIndexed
<1>3. RatedSoFar
  BY DEF Init, RatedSoFar, MostSevere
<1>4. WalkInPhase
  BY DEF Init, WalkInPhase
<1> QED
  BY <1>1, <1>2, <1>3, <1>4 DEF IInv

\* One more name asked about, indexed and reported, keeps the invariant.
LEMMA QueryKeeps ==
  ASSUME IInv, Query
  PROVE  IInv'
<1> DEFINE i == Len(maps) + 1
           m == BuildMap(input.version, Matched(i))
           records == [Names -> RecordType \cup {NoAdv}]
<1>0. /\ input \in Inputs /\ maps \in Seq(records) /\ Len(maps) <= Len(input.answers)
      /\ maps' = Append(maps, m) /\ input' = input /\ Len(maps) < Len(input.answers)
      /\ setAside' = setAside \cup SetAside(input.version, Matched(i))
      /\ noted' = noted \cup
           {input.answers[i][j].id : j \in {k \in DOMAIN input.answers[i] :
              input.local /\ NotedUnordered(input.version, input.answers[i][k].entry)}}
      /\ UNCHANGED <<cached, unread, rating, phase>>
  BY DEF IInv, TypeCorrect, AnswersIndexed, Query
<1>1. /\ Len(maps) \in Nat /\ DOMAIN maps = 1 .. Len(maps)
      /\ input.answers \in Seq(Seq(RecordType)) /\ Len(input.answers) \in Nat
      /\ DOMAIN input.answers = 1 .. Len(input.answers)
      /\ i \in DOMAIN input.answers
  <2>1. input.answers \in Seq(Seq(RecordType))
    BY <1>0, InputIs
  <2> QED
    BY <1>0, <2>1
<1>2. m \in records
  <2>1. Records(Matched(i))
    BY <1>0, <1>1, MatchedRecords
  <2>2. IndexIsSound(input.version, Matched(i), m)
    BY <2>1, BuildMapSound
  <2> QED
    BY <2>2 DEF IndexIsSound
<1>3. \A j : Matched(j)' = Matched(j)
  BY <1>0 DEF Matched
<1> HIDE DEF m, records
<1>4. /\ maps' \in Seq(records) /\ Len(maps') = i /\ DOMAIN maps' = 1 .. i
      /\ maps'[i] = m /\ \A j \in DOMAIN maps : maps'[j] = maps[j]
      /\ \A j \in 1 .. i : j = i \/ j \in DOMAIN maps
  BY <1>0, <1>1, <1>2
<1>5. TypeCorrect'
  BY <1>0, <1>4 DEF IInv, TypeCorrect, records
<1>6. AnswersIndexed'
  <2>1. ASSUME NEW j \in DOMAIN maps'
        PROVE  /\ maps'[j] = BuildMap(input.version, Matched(j))
               /\ SetAside(input.version, Matched(j)) \subseteq setAside'
               /\ input.local => \A k \in DOMAIN input.answers[j] :
                    NotedUnordered(input.version, input.answers[j][k].entry) => input.answers[j][k].id \in noted'
    <3>1. CASE j = i
      BY <1>0, <1>4, <3>1 DEF m
    <3>2. CASE j \in DOMAIN maps
      BY <1>0, <1>4, <3>2 DEF IInv, AnswersIndexed
    <3> QED
      BY <1>4, <3>1, <3>2
  <2>2. Len(maps') <= Len(input.answers)
    BY <1>0, <1>1, <1>4
  <2> QED
    BY <1>0, <1>3, <2>1, <2>2 DEF AnswersIndexed
<1>7. RatedSoFar' /\ WalkInPhase'
  BY <1>0 DEF IInv, RatedSoFar, WalkInPhase
<1> QED
  BY <1>5, <1>6, <1>7 DEF IInv

\* Caching the merged set, of which nothing is visited yet, keeps it.
LEMMA CacheKeeps ==
  ASSUME IInv, Cache
  PROVE  IInv'
<1>1. /\ cached' = {Merge(maps)[n] : n \in Names} \ {NoAdv} /\ unread' = cached'
      /\ phase' = "rate" /\ cached = {} /\ UNCHANGED <<input, maps, setAside, noted, rating>>
  BY DEF IInv, WalkInPhase, Cache
<1>2. cached' \subseteq RecordType
  BY <1>1, MergedSets DEF IInv, TypeCorrect
<1>3. TypeCorrect'
  BY <1>1, <1>2 DEF IInv, TypeCorrect
<1>4. AnswersIndexed'
  <2>1. \A j : Matched(j)' = Matched(j)
    BY <1>1 DEF Matched
  <2> QED
    BY <1>1, <2>1 DEF IInv, AnswersIndexed
<1>5. RatedSoFar'
  <2>1. \A n \in Names : rating[n] = "absent"
    BY <1>1 DEF IInv, RatedSoFar, MostSevere
  <2>2. cached' \ unread' = {}
    BY <1>1
  <2> QED
    BY <1>1, <2>1, <2>2 DEF RatedSoFar, MostSevere
<1>6. WalkInPhase'
  BY <1>1 DEF WalkInPhase
<1> QED
  BY <1>3, <1>4, <1>5, <1>6 DEF IInv

\* One more advisory: what is said of an id so far gains its severity.
LEMMA OneMoreSaid ==
  ASSUME NEW seen, seen \subseteq RecordType, NEW adv \in RecordType, NEW n, NEW prev,
         MostSevere(seen, n, prev), NEW now,
         now = IF n \in Identity(adv) /\ ~Stands(prev, Severity(adv)) THEN Severity(adv) ELSE prev
  PROVE  MostSevere(seen \cup {adv}, n, now)
<1> DEFINE of(S) == {Severity(a) : a \in {b \in S : n \in Identity(b)}}
           said == of(seen)
           all == of(seen \cup {adv})
           new == Severity(adv)
<1>1. said \subseteq Labels /\ new \in Labels
  BY SeverityIs
<1>2. all = IF n \in Identity(adv) THEN said \cup {new} ELSE said
  OBVIOUS
<1>3. \A s \in Labels : Rank(s) \in Nat /\ s # "absent"
  BY RankIs DEF Labels, Unrated
<1>4. \/ said = {} /\ prev = "absent"
      \/ prev \in said /\ \A s \in said : Rank(prev) <= Rank(s)
  BY DEF MostSevere
<1>5. now = IF n \in Identity(adv) /\ ~Stands(prev, new) THEN new ELSE prev
  OBVIOUS
<1> SUFFICES \/ all = {} /\ now = "absent"
             \/ now \in all /\ \A s \in all : Rank(now) <= Rank(s)
  BY DEF MostSevere
<1> HIDE DEF said, all, new
<1>6. CASE n \notin Identity(adv)
  BY <1>2, <1>4, <1>5, <1>6
<1>7. CASE n \in Identity(adv) /\ Stands(prev, new)
  <2>1. prev # "absent" /\ Rank(prev) <= Rank(new) /\ now = prev
    BY <1>5, <1>7 DEF Stands
  <2>2. prev \in said /\ \A s \in said : Rank(prev) <= Rank(s)
    BY <1>4, <2>1
  <2> QED
    BY <1>2, <1>7, <2>1, <2>2
<1>8. CASE n \in Identity(adv) /\ ~Stands(prev, new)
  <2>1. now = new /\ all = said \cup {new}
    BY <1>2, <1>5, <1>8
  <2>2. ASSUME NEW s \in said PROVE Rank(new) <= Rank(s)
    <3>1. prev \in said /\ Rank(prev) <= Rank(s)
      BY <1>4, <2>2
    <3>2. prev # "absent" /\ Rank(prev) \in Nat /\ Rank(new) \in Nat /\ Rank(s) \in Nat
      BY <1>1, <1>3, <2>2, <3>1
    <3>3. ~(Rank(prev) <= Rank(new))
      BY <1>8, <3>2 DEF Stands
    <3> QED
      BY <3>1, <3>2, <3>3
  <2>3. Rank(new) <= Rank(new)
    BY <1>1, <1>3
  <2> QED
    BY <2>1, <2>2, <2>3
<1> QED
  BY <1>6, <1>7, <1>8

\* Visiting any cached advisory keeps it.
LEMMA VisitKeeps ==
  ASSUME IInv, Visit
  PROVE  IInv'
<1>1. PICK adv \in unread :
        /\ unread' = unread \ {adv}
        /\ rating' = [n \in Names |->
             IF n \in Identity(adv) /\ ~Stands(rating[n], Severity(adv)) THEN Severity(adv) ELSE rating[n]]
  BY DEF Visit
<1>2. phase = "rate" /\ UNCHANGED <<input, maps, setAside, noted, cached, phase>>
  BY DEF Visit
<1>3. /\ unread \subseteq cached /\ cached \subseteq RecordType /\ adv \in RecordType
      /\ rating \in [Names -> Labels \cup {"absent"}]
      /\ cached' \ unread' = (cached \ unread) \cup {adv}
  BY <1>1, <1>2 DEF IInv, TypeCorrect
<1>4. TypeCorrect'
  <2>1. Severity(adv) \in Labels
    BY <1>3, SeverityIs
  <2>2. rating' \in [Names -> Labels \cup {"absent"}]
    BY <1>1, <1>3, <2>1
  <2>3. unread' \subseteq cached'
    BY <1>1, <1>2, <1>3
  <2> QED
    BY <1>2, <2>2, <2>3 DEF IInv, TypeCorrect
<1>5. AnswersIndexed'
  <2>1. \A j : Matched(j)' = Matched(j)
    BY <1>2 DEF Matched
  <2> QED
    BY <1>2, <2>1 DEF IInv, AnswersIndexed
<1>6. RatedSoFar'
  <2> SUFFICES ASSUME NEW n \in Names PROVE MostSevere(cached' \ unread', n, rating'[n])
    BY DEF RatedSoFar
  <2>1. MostSevere(cached \ unread, n, rating[n]) /\ cached \ unread \subseteq RecordType
    BY <1>3 DEF IInv, RatedSoFar
  <2>2. rating'[n] = IF n \in Identity(adv) /\ ~Stands(rating[n], Severity(adv))
                     THEN Severity(adv) ELSE rating[n]
    BY <1>1
  <2>3. MostSevere((cached \ unread) \cup {adv}, n, rating'[n])
    BY <1>3, <2>1, <2>2, OneMoreSaid
  <2> QED
    BY <1>3, <2>3
<1>7. WalkInPhase'
  BY <1>2 DEF WalkInPhase
<1> QED
  BY <1>4, <1>5, <1>6, <1>7 DEF IInv

\* The end of the walk keeps it.
LEMMA RatedKeeps ==
  ASSUME IInv, Rated
  PROVE  IInv'
<1>1. /\ phase' = "done" /\ unread' = {} /\ phase = "rate"
      /\ UNCHANGED <<input, maps, setAside, noted, cached, unread, rating>>
  BY DEF Rated
<1>2. \A j : Matched(j)' = Matched(j)
  BY <1>1 DEF Matched
<1>3. TypeCorrect' /\ RatedSoFar' /\ WalkInPhase'
  BY <1>1 DEF IInv, TypeCorrect, RatedSoFar, WalkInPhase
<1>4. AnswersIndexed'
  BY <1>1, <1>2 DEF IInv, AnswersIndexed
<1> QED
  BY <1>3, <1>4 DEF IInv

\* So does a step that changes nothing.
LEMMA StutterKeeps ==
  ASSUME IInv, UNCHANGED vars
  PROVE  IInv'
<1>1. \A j : Matched(j)' = Matched(j)
  BY DEF Matched, vars
<1>2. TypeCorrect' /\ RatedSoFar' /\ WalkInPhase'
  BY DEF IInv, TypeCorrect, RatedSoFar, WalkInPhase, vars
<1>3. AnswersIndexed'
  BY <1>1 DEF IInv, AnswersIndexed, vars
<1> QED
  BY <1>2, <1>3 DEF IInv

\* The invariant holds in every state of every behaviour.
LEMMA Inductive == Spec => []IInv
<1>1. IInv /\ [Next]_vars => IInv'
  BY QueryKeeps, CacheKeeps, VisitKeeps, RatedKeeps, StutterKeeps DEF Next, Done
<1> QED
  BY <1>1, Initially, PTL DEF Spec

\* Records that apply are found: each under its own id and aliases, with what a
\* name finds carrying it before what merely fixes it, and each under the CVEs it
\* fixes, unless it was set aside (buildMap and indexUpstream in osv.go, merge in
\* analyze.go).
THEOREM RecordsAreFound == Spec => []RecordsFindable
<1>1. ASSUME IInv PROVE RecordsFindable
  <2>0. /\ input \in Inputs /\ maps \in Seq([Names -> RecordType \cup {NoAdv}])
        /\ Len(maps) <= Len(input.answers)
    BY <1>1 DEF IInv, TypeCorrect, AnswersIndexed
  <2>1. DOMAIN maps \subseteq DOMAIN input.answers
    <3>1. input.answers \in Seq(Seq(RecordType))
      BY <2>0, InputIs
    <3> QED
      BY <2>0, <3>1
  <2>2. ASSUME NEW i \in DOMAIN maps
        PROVE  Records(Matched(i)) /\ IndexIsSound(input.version, Matched(i), maps[i])
    <3>1. Records(Matched(i))
      BY <2>0, <2>1, MatchedRecords
    <3> QED
      BY <1>1, <3>1, BuildMapSound DEF IInv, AnswersIndexed
  <2>3. IdentityOutranksBundle
    BY <2>2 DEF IdentityOutranksBundle, Answered, IndexIsSound
  <2>4. ASSUME NEW i \in DOMAIN maps, NEW k \in DOMAIN Matched(i),
               Matched(i)[k].inRelease, Matched(i)[k].id \notin setAside,
               NEW n \in Identity(Matched(i)[k]) \cup Matched(i)[k].upstream
        PROVE  Merge(maps)[n] # NoAdv
    <3> DEFINE recs == Matched(i)
    <3>1. k \in Kept(input.version, recs)
      <4>1. SetAside(input.version, recs) \subseteq setAside
        BY <1>1 DEF IInv, AnswersIndexed
      <4> QED
        BY <2>4, <4>1 DEF SetAside, Kept
    <3>2. recs[k] \in RecordType
      BY <2>2 DEF Records
    <3>3. n \in Names
      BY <2>4, <3>2, RecordIsNot
    <3> HIDE DEF recs
    <3>4. maps[i][n] # NoAdv
      BY <2>2, <2>4, <3>1, <3>3 DEF IndexIsSound, recs
    <3> QED
      BY <2>0, <3>3, <3>4, MergedSets
  <2>5. EveryRecordFindable
    BY <2>4 DEF EveryRecordFindable, Answered
  <2> QED
    BY <2>3, <2>5 DEF RecordsFindable
<1> QED
  BY <1>1, Inductive, PTL

\* An id is rated by its own record or one linked to it by shared identifiers,
\* by something whenever a record that carries it is rated (unless a rating that
\* cannot be read fills the field it would be lent), and by the most severe of
\* what the cached advisories say of it, in whatever order they are visited
\* (borrowSeverity in osv.go, severities in analyze.go).
THEOREM RatingsAreJust == Spec => []RatingsAreFair
<1>1. ASSUME IInv PROVE RatingsAreFair
  <2>0. /\ input \in Inputs /\ maps \in Seq([Names -> RecordType \cup {NoAdv}])
        /\ Len(maps) <= Len(input.answers)
    BY <1>1 DEF IInv, TypeCorrect, AnswersIndexed
  <2>1. DOMAIN maps \subseteq DOMAIN input.answers
    <3>1. input.answers \in Seq(Seq(RecordType))
      BY <2>0, InputIs
    <3> QED
      BY <2>0, <3>1
  <2>2. ASSUME NEW i \in DOMAIN maps
        PROVE  Records(Matched(i)) /\ IndexIsSound(input.version, Matched(i), maps[i])
    <3>1. Records(Matched(i))
      BY <2>0, <2>1, MatchedRecords
    <3> QED
      BY <1>1, <3>1, BuildMapSound DEF IInv, AnswersIndexed
  <2>3. RatingStaysWithIdentity
    BY <2>2 DEF RatingStaysWithIdentity, Answered, IndexIsSound, SaidBy
  <2>4. SharedIdIsRated
    <3> SUFFICES ASSUME NEW i \in DOMAIN maps, NEW n \in Names,
                        maps[i][n] # NoAdv, Severity(maps[i][n]) = Unrated,
                        NEW k \in Kept(input.version, Matched(i)), n \in Identity(Matched(i)[k])
                 PROVE  /\ Readable(Matched(i)[k].vector) => maps[i][n].vector = Unrated
                        /\ Readable(Matched(i)[k].published) => maps[i][n].published = Unrated
      BY DEF SharedIdIsRated, Answered
    <3>1. maps[i][n] \in RecordType
      BY <2>0
    <3>2. ~Readable(maps[i][n].vector) /\ ~Readable(maps[i][n].published)
      BY <3>1, SeverityIs
    <3>3. HasRatings(maps[i][n], Matched(i)[k])
      BY <2>2 DEF IndexIsSound
    <3> QED
      BY <3>2, <3>3 DEF HasRatings, Readable
  <2>5. RatingOrderFree
    <3>1. phase = "done" => cached \ unread = cached
      BY <1>1 DEF IInv, WalkInPhase
    <3> QED
      BY <1>1, <3>1 DEF IInv, RatedSoFar, MostSevere, RatingOrderFree
  <2> QED
    BY <2>3, <2>4, <2>5 DEF RatingsAreFair
<1> QED
  BY <1>1, Inductive, PTL

\* The offline match keeps what the OSV schema says is affected, keeps nothing
\* else where every range is ordered, and notes what it kept without being able
\* to tell (versionAffected, sweep and noteUnordered in local.go).
THEOREM LocalMatchIsSound == Spec => []LocalMatchSound
<1>1. ASSUME IInv PROVE LocalMatchSound
  <2> SUFFICES ASSUME input.local, NEW i \in DOMAIN input.answers, NEW k \in DOMAIN input.answers[i]
               PROVE  LET e == input.answers[i][k].entry
                          inside == Inside(input.version, e)
                          sure == Sure(input.version, e)
                      IN  /\ inside => VersionAffected(input.version, e)
                          /\ sure /\ input.version \notin e.versions /\ ~inside
                               => ~VersionAffected(input.version, e)
                          /\ ~sure /\ Considered(e) # {} /\ Comparable(input.version)
                               => VersionAffected(input.version, e)
                          /\ i \in DOMAIN maps /\ ~sure /\ e.ranges # <<>> /\ Comparable(input.version)
                               => \/ input.version \in e.versions \/ inside
                                  \/ ~VersionAffected(input.version, e)
                                  \/ input.answers[i][k].id \in noted
    BY DEF LocalMatchSound, Inside, Sure
  <2> DEFINE e == input.answers[i][k].entry
  <2>1. input.version \in Nat \cup {Odd} /\ Entry(e)
    BY <1>1, InputIs DEF IInv, TypeCorrect
  <2>2. i \in DOMAIN maps /\ NotedUnordered(input.version, e) => input.answers[i][k].id \in noted
    BY <1>1 DEF IInv, AnswersIndexed
  <2> HIDE DEF e
  <2>3. /\ Inside(input.version, e) => VersionAffected(input.version, e)
        /\ Sure(input.version, e) /\ input.version \notin e.versions /\ ~Inside(input.version, e)
             => ~VersionAffected(input.version, e)
        /\ ~Sure(input.version, e) /\ Considered(e) # {} /\ Comparable(input.version)
             => VersionAffected(input.version, e)
        /\ ~Sure(input.version, e) /\ e.ranges # <<>> /\ Comparable(input.version)
             /\ input.version \notin e.versions /\ ~Inside(input.version, e)
             => NotedUnordered(input.version, e)
    BY <2>1, EntryMatched
  <2> QED
    BY <2>2, <2>3 DEF e
<1> QED
  BY <1>1, Inductive, PTL
=============================================================================
