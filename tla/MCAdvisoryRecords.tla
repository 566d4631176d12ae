-------------------------- MODULE MCAdvisoryRecords --------------------------
(***************************************************************************)
(* Three families of inputs, small enough to enumerate: pairs of records   *)
(* that share aliases, bundle each other's CVEs and are rated in part;     *)
(* local records with one or two ranges over three versions; and degraded  *)
(* Go records with up to two custom ranges and a possible witness.         *)
(***************************************************************************)
EXTENDS AdvisoryRecords, FiniteSetsExt

MCNames == {"G", "H", "C", "D"}

Plain ==
  [id |-> "G", aliases |-> {}, upstream |-> {}, imports |-> FALSE,
   vector |-> Absent, published |-> Absent, inRelease |-> TRUE,
   unreviewed |-> FALSE, std |-> {}, custom |-> {},
   entry |-> [versions |-> {}, ranges |-> <<>>]]

RatedRecs(id) ==
  {[Plain EXCEPT !.id = id, !.aliases = a, !.upstream = u, !.imports = m,
                 !.vector = v, !.published = p] :
     a \in {{}, {"C"}}, u \in {{}, {"C", "D"}}, m \in BOOLEAN,
     v \in {Absent, Unrated, "MEDIUM"}, p \in {Absent, Unrated, "HIGH"}}

\* What the component's second name returns.
SecondAnswers ==
  {<<>>,
   <<[Plain EXCEPT !.id = "H", !.aliases = {"C"}, !.vector = "MEDIUM"],
     [Plain EXCEPT !.id = "D", !.inRelease = FALSE]>>,
   <<[Plain EXCEPT !.id = "D", !.upstream = {"C"}, !.vector = "LOW"]>>}

MapInputs ==
  {[version |-> 1, local |-> FALSE, answers |-> <<<<g, h>>, second>>] :
     g \in RatedRecs("G"), h \in RatedRecs("H"), second \in SecondAnswers}

Events == {Event(k, v) : k \in {Introduced, Fixed, LastAffected}, v \in 0 .. 2}
\* The schema asks every range for an introduced event.
RangesUpTo(n) ==
  {r \in UNION {kSubset(k, Events) : k \in 1 .. n} :
     \E e \in r : e.kind = Introduced}

\* An introduced event and at most one later event that closes it.
ProperRanges ==
  {{Event(Introduced, v)} : v \in 0 .. 2}
  \cup {{Event(Introduced, v), Event(k, w)} :
          k \in {Fixed, LastAffected}, v \in {0}, w \in 1 .. 2}
  \cup {{Event(Introduced, 1), Event(k, 2)} : k \in {Fixed, LastAffected}}

Ordered(events) == [git |-> FALSE, ordered |-> TRUE, events |-> events]

Entries ==
  {[versions |-> e, ranges |-> <<Ordered(r)>>] : e \in {{}, {1}}, r \in RangesUpTo(3)}
  \cup {[versions |-> {}, ranges |-> <<Ordered(r), Ordered(q)>>] :
          r, q \in ProperRanges}
  \cup {[versions |-> e, ranges |-> <<[git |-> g, ordered |-> o, events |-> r], Ordered(q)>>] :
          e \in {{}, {2}}, g \in BOOLEAN, o \in BOOLEAN,
          r \in {{Event(Introduced, 1), Event(Fixed, Odd)}, {Event(Introduced, 1)}},
          q \in RangesUpTo(1)}
  \cup {[versions |-> e, ranges |-> <<>>] : e \in {{}, {1}}}

LocalInputs ==
  {[version |-> v, local |-> TRUE, answers |-> <<<<[Plain EXCEPT !.entry = e]>>>>] :
     v \in (0 .. 2) \cup {Odd}, e \in Entries}

\* One range of any shape, or two closed ones that begin at different versions.
CustomSets ==
  {{r} : r \in RangesUpTo(3)}
  \cup {{{Event(Introduced, 0), Event(k, v)}, {Event(Introduced, w), Event(l, 2)}} :
          k, l \in {Fixed, LastAffected}, v, w \in 1 .. 2}

Witnesses ==
  {<<>>, <<[Plain EXCEPT !.id = "H", !.aliases = {"G"}]>>,
   <<[Plain EXCEPT !.id = "H", !.aliases = {"G"}, !.unreviewed = TRUE,
                   !.std = {{Event(Introduced, 0)}}]>>}

CustomInputs ==
  {[version |-> v, local |-> FALSE,
    answers |-> <<<<[Plain EXCEPT !.aliases = {"C"}, !.unreviewed = u,
                       !.std = {{Event(Introduced, 0)}}, !.custom = c]>> \o w>>] :
     v \in 0 .. 2, u \in {TRUE}, c \in CustomSets, w \in Witnesses}

MCInputs == MapInputs \cup LocalInputs \cup CustomInputs
=============================================================================
