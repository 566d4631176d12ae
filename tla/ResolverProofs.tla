---------------------------- MODULE ResolverProofs ----------------------------
(***************************************************************************)
(* What Resolver guarantees for every set of inventories, every naming and *)
(* every listing, and whichever requests fail.                             *)
(***************************************************************************)
EXTENDS Resolver, SequenceTheorems, NaturalsInduction, WellFoundedInduction, TLAPS

LEMMA Constants ==
  /\ KeyOf \in [Components -> Keys]
  /\ NamesOf \in [Components -> Seq(Names)] /\ HasEcosystem \in [Keys -> BOOLEAN]
  /\ \A c \in Components : IsInjective(NamesOf[c])
  /\ Listing \in [Names -> SUBSET Advisories]
  /\ Inventories \in Seq(Seq(Components)) /\ 1 \in DOMAIN Inventories
<1>1. Inventories \in Seq(Seq(Components)) /\ Inventories # <<>>
  BY KeysAssumption
<1> QED
  BY <1>1, KeysAssumption

Answers == Seq(SUBSET Advisories)

\* The component being resolved is one of this inventory.
LEMMA CurrentIsFound ==
  ASSUME TypeOK, AtComponent
  PROVE  /\ Current \in Components /\ Current = Inventories[turn][pos + 1]
         /\ CurrentKey \in Keys
         /\ pos + 1 \in 1 .. Len(Inventory)
<1>1. Inventory \in Seq(Components)
  BY Constants DEF TypeOK, Inventory
<1>2. Current \in Components
  BY <1>1 DEF TypeOK, AtComponent, Current
<1>3. CurrentKey \in Keys
  BY <1>2, Constants DEF CurrentKey
<1> QED
  BY <1>1, <1>2, <1>3 DEF TypeOK, AtComponent, Current, Inventory

LEMMA AnsweredInRange ==
  ASSUME TypeOK
  PROVE  /\ Answered \in 1 .. clock + 1
         /\ asOf # 0 => Answered = asOf
         /\ asOf = 0 => Answered = clock + 1
BY DEF TypeOK, Answered

LEMMA InitIInv == Init => IInv
<1> SUFFICES ASSUME Init PROVE IInv
  OBVIOUS
<1> USE Constants DEF Init
<1>1. Inventory \in Seq(Components)
  BY DEF Inventory
<1>2. TypeOK
  BY <1>1 DEF TypeOK
<1>3. AsOfConservative /\ UnknownIsEmpty /\ ResolvedOnce
  BY DEF AsOfConservative, UnknownIsEmpty, ResolvedOnce, IsCached
<1>4. ItemsFromCache
  BY DEF ItemsFromCache
<1> QED
  BY <1>2, <1>3, <1>4 DEF IInv

\* One more answer for the component at hand: what Emit does to the items.
LEMMA EmitExtendsItems ==
  ASSUME TypeOK, ItemsFromCache, AtComponent, NEW a \in SUBSET Advisories, Emit(a)
  PROVE  /\ items' \in Seq(Answers) /\ Len(items') = Len(items) /\ DOMAIN items' = DOMAIN items
         /\ turn \in DOMAIN items
         /\ \A t \in DOMAIN items : t # turn => items'[t] = items[t]
         /\ items'[turn] = Append(items[turn], a)
         /\ Len(items'[turn]) = pos + 1
         /\ pos' = pos + 1 /\ pos' \in 0 .. Len(Inventory)
<1>1. items \in Seq(Answers) /\ turn \in 1 .. Len(items) /\ Len(items[turn]) = pos
  BY Constants DEF TypeOK, AtComponent, Answers, ItemsFromCache
<1>2. items[turn] \in Answers
  BY <1>1
<1>3. Append(items[turn], a) \in Answers /\ Len(Append(items[turn], a)) = pos + 1
  BY <1>1, <1>2 DEF Answers
<1>4. items' = [items EXCEPT ![turn] = Append(items[turn], a)]
  BY DEF Emit
<1>5. pos' = pos + 1 /\ pos' \in 0 .. Len(Inventory)
  BY CurrentIsFound DEF Emit, TypeOK
<1> HIDE DEF Answers
<1> QED
  BY <1>1, <1>3, <1>4, <1>5

\* Pairing the component at hand with its cache entry keeps the account of the
\* items, if entries only ever appear and never change.
LEMMA EmitKeepsItems ==
  ASSUME TypeOK, ItemsFromCache, AtComponent, NEW a \in SUBSET Advisories, Emit(a),
         UNCHANGED <<turn, stage>>, CurrentKey \in known', cache'[CurrentKey] = a,
         known \subseteq known',
         \A k \in known : cache'[k] = cache[k]
  PROVE  ItemsFromCache'
<1>1. /\ Len(items') = Len(items) /\ DOMAIN items' = DOMAIN items /\ turn \in DOMAIN items
      /\ \A t \in DOMAIN items : t # turn => items'[t] = items[t]
      /\ items'[turn] = Append(items[turn], a) /\ Len(items'[turn]) = pos + 1 /\ pos' = pos + 1
      /\ items \in Seq(Answers)
  BY EmitExtendsItems DEF TypeOK, Answers
<1>2. stage = "lookup" /\ Len(items) = turn /\ Len(items[turn]) = pos
  BY DEF AtComponent, ItemsFromCache
<1>3. ASSUME NEW t \in DOMAIN items', NEW i \in DOMAIN items'[t]
      PROVE  /\ i <= Len(Inventories[t]) /\ KeyOf[Inventories[t][i]] \in known'
             /\ items'[t][i] = cache'[KeyOf[Inventories[t][i]]]
  <2>1. CASE t = turn /\ i = pos + 1
    <3>1. items'[t][i] = a
      BY <1>1, <1>2, <2>1 DEF Answers
    <3> QED
      BY <2>1, <3>1, CurrentIsFound DEF Inventory, CurrentKey
  <2>2. CASE t # turn
    BY <1>1, <2>2 DEF ItemsFromCache, IsCached
  <2>3. CASE t = turn /\ i # pos + 1
    <3>1. i \in DOMAIN items[t] /\ items'[t][i] = items[t][i]
      <4>1. items[turn] \in Answers
        BY <1>1
      <4> QED
        BY <1>1, <1>2, <2>3, <4>1 DEF Answers
    <3> QED
      BY <1>1, <2>3, <3>1 DEF ItemsFromCache, IsCached
  <2> QED
    BY <2>1, <2>2, <2>3
<1> QED
  BY <1>1, <1>2, <1>3 DEF ItemsFromCache, IsCached, TypeOK

\* A step that leaves the cache, the items and the place alone keeps the items.
LEMMA ItemsKept ==
  ASSUME ItemsFromCache, UNCHANGED <<turn, stage, pos, known, cache, items>>
  PROVE  ItemsFromCache'
BY DEF ItemsFromCache, IsCached

-----------------------------------------------------------------------------
(* The flattened request of a batch                                        *)

\* A set of numbers that holds 0 and the successor of each of its members holds
\* every number.
LEMMA NumberInduction ==
  ASSUME NEW G, 0 \in G, \A n \in Nat : n \in G => n + 1 \in G
  PROVE  \A n \in Nat : n \in G
<1> DEFINE R == {ss \in Nat \X Nat : ss[1] < ss[2]}
           T == {n \in Nat : n \notin G}
<1>1. SUFFICES ASSUME T # {} PROVE FALSE
  OBVIOUS
<1>2. IsWellFoundedOn(R, Nat)
  BY NatLessThanWellFounded DEF OpToRel
<1> HIDE DEF R
<1>3. PICK x \in T : \A y \in T : <<y, x>> \notin R
  BY <1>1, <1>2, WFMin
<1> USE DEF R
<1>4. x \in Nat /\ x # 0
  OBVIOUS
<1>5. x - 1 \in Nat /\ x - 1 < x /\ (x - 1) + 1 = x
  BY <1>4
<1>6. x - 1 \notin T
  BY <1>3, <1>4, <1>5
<1> QED
  BY <1>4, <1>5, <1>6

\* The loop that builds the request, one component after another.
LEMMA RefsGrow ==
  ASSUME Inventory \in Seq(Components)
  PROVE  /\ RefsAfter[0] = <<>>
         /\ \A i \in 1 .. Len(Inventory) :
              RefsAfter[i] = IF FirstAsked(i) THEN RefsAfter[i - 1] \o NamesOf[Inventory[i]]
                             ELSE RefsAfter[i - 1]
<1> DEFINE n == Len(Inventory)
           step(r, i) == IF FirstAsked(i) THEN r \o NamesOf[Inventory[i]] ELSE r
           D(m) == 0 .. m
           body(g, m) == [i \in D(m) |-> IF i = 0 THEN <<>> ELSE step(g[i - 1], i)]
           Solves(g, m) == g = body(g, m)
           G == {m \in Nat : \E g : Solves(g, m)}
<1>1. 0 \in G
  <2> DEFINE g == [i \in D(0) |-> <<>>]
  <2>1. Solves(g, 0)
    OBVIOUS
  <2> QED
    BY <2>1
<1>2. ASSUME NEW m \in Nat, m \in G PROVE m + 1 \in G
  <2>1. PICK g : Solves(g, m)
    BY <1>2
  <2> DEFINE h == [i \in D(m + 1) |-> IF i = m + 1 THEN step(g[m], m + 1) ELSE g[i]]
  <2>3. \A i \in D(m) : /\ i \in D(m + 1) /\ i # m + 1 /\ (i # 0 => i - 1 \in D(m))
                        /\ g[i] = IF i = 0 THEN <<>> ELSE step(g[i - 1], i)
    <3>1. \A i \in D(m) : g[i] = IF i = 0 THEN <<>> ELSE step(g[i - 1], i)
      <4> HIDE DEF step
      <4> QED
        BY <2>1
    <3> QED
      BY <3>1
  <2>4. /\ m \in D(m) /\ m + 1 \in D(m + 1) /\ m + 1 # 0 /\ (m + 1) - 1 = m
        /\ D(m + 1) = D(m) \cup {m + 1}
    OBVIOUS
  <2> HIDE DEF step, D
  <2>5. h[m + 1] = step(g[m], m + 1) /\ \A i \in D(m) : h[i] = g[i]
    BY <2>3, <2>4
  <2>6. h = body(h, m + 1)
    <3> SUFFICES ASSUME NEW i \in D(m + 1) PROVE h[i] = IF i = 0 THEN <<>> ELSE step(h[i - 1], i)
      OBVIOUS
    <3>1. CASE i = m + 1
      BY <2>4, <2>5, <3>1
    <3>2. CASE i \in D(m)
      <4>1. h[i] = IF i = 0 THEN <<>> ELSE step(g[i - 1], i)
        BY <2>3, <2>5, <3>2
      <4>2. i # 0 => h[i - 1] = g[i - 1]
        BY <2>3, <2>5, <3>2
      <4> QED
        BY <4>1, <4>2
    <3> QED
      BY <2>4, <3>1, <3>2
  <2> HIDE DEF h
  <2>8. Solves(h, m + 1)
    BY <2>6
  <2> QED
    BY <2>8
<1>3. n \in G
  <2>1. n \in Nat
    OBVIOUS
  <2> HIDE DEF G, n
  <2> QED
    BY <1>1, <1>2, <2>1, NumberInduction
<1>4. PICK g : Solves(g, n)
  BY <1>3
<1>5. RefsAfter = CHOOSE f : f = body(f, n)
  BY DEF RefsAfter
<1> HIDE DEF n
<1>6. RefsAfter = body(RefsAfter, n)
  <2> HIDE DEF body
  <2> QED
    BY <1>4, <1>5
<1>7. n \in Nat
  BY DEF n
<1>8. \A i \in D(n) : RefsAfter[i] = IF i = 0 THEN <<>> ELSE step(RefsAfter[i - 1], i)
  <2> HIDE DEF step
  <2> QED
    BY <1>6
<1>9. 0 \in D(n) /\ \A i \in 1 .. n : i \in D(n) /\ i # 0
  BY <1>7
<1> HIDE DEF D
<1> QED
  BY <1>8, <1>9 DEF n

\* The names of the component at place i sit in r right after the refs of the
\* components before it.
SitsIn(i, r) ==
  FirstAsked(i) =>
    \A m \in 1 .. Len(NamesOf[Inventory[i]]) :
      /\ Len(RefsAfter[i - 1]) + m \in 1 .. Len(r)
      /\ r[Len(RefsAfter[i - 1]) + m] = NamesOf[Inventory[i]][m]

\* Each component's names stay where the loop put them.
LEMMA RefsInPlace ==
  ASSUME Inventory \in Seq(Components)
  PROVE  /\ \A j \in 0 .. Len(Inventory) : RefsAfter[j] \in Seq(Names)
         /\ \A i \in 1 .. Len(Inventory) : SitsIn(i, Refs)
<1> DEFINE n == Len(Inventory)
           Good(j) == RefsAfter[j] \in Seq(Names) /\ \A i \in 1 .. j : SitsIn(i, RefsAfter[j])
           G == {j \in Nat : j <= n => Good(j)}
<1>0. n \in Nat /\ \A i \in 1 .. n : Inventory[i] \in Components /\ NamesOf[Inventory[i]] \in Seq(Names)
  <2>1. \A i \in 1 .. n : Inventory[i] \in Components
    OBVIOUS
  <2> QED
    BY <2>1, Constants
<1>1. 0 \in G
  <2>1. RefsAfter[0] = <<>>
    BY RefsGrow
  <2>2. Good(0)
    BY <2>1
  <2> HIDE DEF Good
  <2> QED
    BY <2>2
<1>2. ASSUME NEW j \in Nat, j \in G PROVE j + 1 \in G
  <2> SUFFICES ASSUME j + 1 <= n PROVE Good(j + 1)
    OBVIOUS
  <2> DEFINE r == RefsAfter[j]
             q == NamesOf[Inventory[j + 1]]
             s == RefsAfter[j + 1]
  <2>1. Good(j) /\ j + 1 \in 1 .. n /\ (j + 1) - 1 = j
    BY <1>0, <1>2
  <2>2. s = IF FirstAsked(j + 1) THEN r \o q ELSE r
    BY <2>1, RefsGrow
  <2>3. r \in Seq(Names) /\ q \in Seq(Names)
    BY <1>0, <2>1
  <2>4. /\ r \o q \in Seq(Names) /\ Len(r \o q) = Len(r) + Len(q)
        /\ \A m \in 1 .. Len(r) : (r \o q)[m] = r[m]
        /\ \A m \in 1 .. Len(q) : (r \o q)[Len(r) + m] = q[m]
        /\ Len(r) \in Nat /\ Len(q) \in Nat
    <3> HIDE DEF r, q
    <3>1. r \o q \in Seq(Names) /\ Len(r \o q) = Len(r) + Len(q) /\ Len(r) \in Nat /\ Len(q) \in Nat
      BY <2>3
    <3>2. ASSUME NEW m \in 1 .. Len(r) PROVE (r \o q)[m] = r[m]
      BY <2>3
    <3>3. ASSUME NEW m \in 1 .. Len(q) PROVE (r \o q)[Len(r) + m] = q[m]
      BY <2>3, <3>1
    <3> QED
      BY <3>1, <3>2, <3>3
  <2>5. /\ s \in Seq(Names) /\ Len(s) \in Nat /\ Len(r) <= Len(s)
        /\ \A m \in 1 .. Len(r) : s[m] = r[m]
    <3> HIDE DEF s, r, q
    <3> QED
      BY <2>2, <2>3, <2>4
  <2>6. ASSUME NEW i \in 1 .. j PROVE SitsIn(i, s)
    <3>1. SitsIn(i, r)
      BY <2>1
    <3> SUFFICES ASSUME FirstAsked(i), NEW m \in 1 .. Len(NamesOf[Inventory[i]])
                 PROVE  /\ Len(RefsAfter[i - 1]) + m \in 1 .. Len(s)
                        /\ s[Len(RefsAfter[i - 1]) + m] = NamesOf[Inventory[i]][m]
      BY DEF SitsIn
    <3> DEFINE at == Len(RefsAfter[i - 1]) + m
    <3> HIDE DEF s, r
    <3>2. at \in 1 .. Len(r) /\ r[at] = NamesOf[Inventory[i]][m]
      BY <3>1 DEF SitsIn
    <3> HIDE DEF at
    <3>3. at \in 1 .. Len(s) /\ s[at] = r[at]
      BY <2>4, <2>5, <3>2
    <3> QED
      BY <3>2, <3>3 DEF at
  <2>7. SitsIn(j + 1, s)
    <3> SUFFICES ASSUME FirstAsked(j + 1), NEW m \in 1 .. Len(q)
                 PROVE  Len(r) + m \in 1 .. Len(s) /\ s[Len(r) + m] = q[m]
      BY <2>1 DEF SitsIn
    <3> HIDE DEF s, r, q
    <3> QED
      BY <2>2, <2>4
  <2>8. 1 .. (j + 1) = 1 .. j \cup {j + 1}
    OBVIOUS
  <2> HIDE DEF s
  <2> QED
    BY <2>5, <2>6, <2>7, <2>8 DEF s
<1>3. \A j \in Nat : j \in G
  <2> HIDE DEF G
  <2> QED
    BY <1>1, <1>2, NumberInduction
<1>4. \A j \in 0 .. n : Good(j)
  BY <1>0, <1>3
<1> QED
  BY <1>0, <1>4 DEF Refs

\* What a source lists under any of the names of a component.
Listed(c) == UNION {Listing[x] : x \in ToSet(NamesOf[c])}

\* No key is asked for at two places of one inventory.
LEMMA OnePlacePerKey ==
  ASSUME NEW i \in QueuedAt, NEW j \in QueuedAt, KeyAt(i) = KeyAt(j), Inventory \in Seq(Components)
  PROVE  i = j
<1>1. i \in Nat \ {0} /\ j \in Nat \ {0} /\ FirstAsked(i) /\ FirstAsked(j)
  BY DEF QueuedAt
<1>2. ~(i < j) /\ ~(j < i)
  BY <1>1 DEF FirstAsked
<1> QED
  BY <1>1, <1>2

\* Merging the span of a key gives what is listed under the names of the
\* component it was asked for, no more.
LEMMA MergedIsListed ==
  ASSUME Inventory \in Seq(Components), NEW p \in QueuedAt
  PROVE  /\ Inventory[p] \in Components /\ KeyAt(p) \in Keys
         /\ Merged(KeyAt(p)) = Listed(Inventory[p]) /\ Merged(KeyAt(p)) \subseteq Advisories
<1> DEFINE q == NamesOf[Inventory[p]]
           b == Len(RefsAfter[p - 1])
<1>0. DOMAIN Inventory = 1 .. Len(Inventory) /\ Len(Inventory) \in Nat
  OBVIOUS
<1>1. p \in DOMAIN Inventory /\ FirstAsked(p) /\ Inventory[p] \in Components
  BY <1>0 DEF QueuedAt
<1>2. KeyAt(p) \in Keys
  BY <1>1, Constants DEF KeyAt
<1>3. (CHOOSE i \in QueuedAt : KeyAt(i) = KeyAt(p)) = p
  BY OnePlacePerKey
<1>4. Merged(KeyAt(p)) = UNION {Listing[Refs[j]] : j \in Span(p)}
  BY <1>3 DEF Merged
<1>6. q \in Seq(Names)
  BY <1>1, Constants
<1>7. RefsAfter[p - 1] \in Seq(Names) /\ SitsIn(p, Refs)
  <2>1. p \in 1 .. Len(Inventory) /\ p - 1 \in 0 .. Len(Inventory)
    BY <1>0, <1>1
  <2> QED
    BY <2>1, RefsInPlace
<1>8. b \in Nat /\ Len(q) \in Nat /\ DOMAIN q = 1 .. Len(q)
  BY <1>6, <1>7
<1>9. Span(p) = b + 1 .. b + Len(q)
  BY DEF Span
<1>10. \A m \in 1 .. Len(q) : Refs[b + m] = q[m]
  BY <1>1, <1>7 DEF SitsIn
<1> HIDE DEF b, q
<1>11. \A j \in Span(p) : \E m \in 1 .. Len(q) : j = b + m
  <2> SUFFICES ASSUME NEW j \in Span(p) PROVE j - b \in 1 .. Len(q) /\ j = b + (j - b)
    OBVIOUS
  <2> QED
    BY <1>8, <1>9
<1>12. \A m \in 1 .. Len(q) : b + m \in Span(p)
  BY <1>8, <1>9
<1>13. {Refs[j] : j \in Span(p)} = ToSet(q)
  <2>1. ToSet(q) = {q[m] : m \in 1 .. Len(q)}
    BY <1>8 DEF ToSet
  <2> QED
    BY <1>10, <1>11, <1>12, <2>1
<1>14. {Listing[Refs[j]] : j \in Span(p)} = {Listing[x1] : x1 \in ToSet(q)}
  BY <1>13
<1>15. Listed(Inventory[p]) \subseteq Advisories
  <2>1. ToSet(NamesOf[Inventory[p]]) \subseteq Names
    BY <1>6, <1>8 DEF ToSet, q
  <2> QED
    BY <2>1, Constants DEF Listed
<1> QED
  BY <1>1, <1>2, <1>4, <1>14, <1>15 DEF Listed, q

-----------------------------------------------------------------------------
(* The steps                                                               *)

\* One batch, answered, failed or not worth sending.
LEMMA PrefetchKeepsIInv ==
  ASSUME IInv, Prefetch
  PROVE  IInv'
<1> USE Constants DEF IInv
<1>1. /\ stage = "prefetch" /\ stage' = "lookup" /\ UNCHANGED <<turn, pos, asked, gathered, missed, items>>
  BY DEF Prefetch, SkipPrefetch, BatchAnswered, BatchFailed
<1>2. Len(items) = turn - 1 /\ pos = 0 /\ turn \in 1 .. Len(Inventories)
  BY <1>1 DEF ItemsFromCache, TypeOK
<1>3. Inventory \in Seq(Components) /\ Inventory' = Inventory
  BY <1>1 DEF TypeOK, Inventory
<1>4. Queued \subseteq Keys \ known /\ \A i \in QueuedAt : Inventory[i] \in Components
  <2>1. \A i \in QueuedAt : KeyAt(i) \in Keys \ known /\ Inventory[i] \in Components
    <3>1. \A i \in QueuedAt : KeyAt(i) \notin known
      BY DEF QueuedAt, FirstAsked, Askable
    <3> QED
      BY <1>3, <3>1, MergedIsListed
  <2> QED
    BY <2>1 DEF Queued
<1>5. known \subseteq known' /\ \A k \in known : cache'[k] = cache[k]
  BY <1>4 DEF Prefetch, SkipPrefetch, BatchAnswered, BatchFailed, KeptOnBatchFailure, TypeOK
<1>6. ItemsFromCache'
  <2>1. ASSUME NEW t \in DOMAIN items, NEW i \in DOMAIN items[t]
        PROVE  /\ i <= Len(Inventories[t]) /\ KeyOf[Inventories[t][i]] \in known'
               /\ items[t][i] = cache'[KeyOf[Inventories[t][i]]]
    BY <1>5 DEF ItemsFromCache, IsCached
  <2>2. pos' = 0 /\ items' = items /\ turn' = turn
    BY <1>1, <1>2
  <2>3. Len(items) = turn - 1 /\ Len(items) # turn
    BY <1>2
  <2> QED
    BY <1>1, <2>1, <2>2, <2>3 DEF ItemsFromCache, IsCached
<1>7. CASE BatchAnswered
  <2>1. /\ clock' = clock + 1 /\ asOf' = Answered /\ known' = known \cup Queued
        /\ resolved' = [k \in Keys |-> IF k \in Queued THEN resolved[k] + 1 ELSE resolved[k]]
        /\ gotAt' = [k \in Keys |-> IF k \in Queued THEN clock + 1 ELSE gotAt[k]]
    BY <1>7 DEF BatchAnswered
  <2>2. /\ cache' \in [Keys -> SUBSET Advisories]
        /\ \A k \in Keys \ Queued : cache'[k] = cache[k]
    <3>1. \A k \in Queued : Merged(k) \subseteq Advisories
      BY <1>3, MergedIsListed DEF Queued
    <3> QED
      BY <1>7, <3>1 DEF BatchAnswered, TypeOK
  <2>3. gotAt' \in [Keys -> 0 .. clock']
    BY <2>1 DEF TypeOK
  <2>4. TypeOK'
    <3>1. clock' \in Nat /\ asOf' \in 0 .. clock'
      <4>1. clock \in Nat /\ Answered \in 1 .. clock + 1
        BY AnsweredInRange DEF TypeOK
      <4> QED
        BY ONLY <2>1, <4>1
    <3>2. resolved' \in [Keys -> Nat]
      <4>1. resolved \in [Keys -> Nat]
        BY DEF TypeOK
      <4> QED
        BY ONLY <2>1, <4>1
    <3>3. known' \subseteq Keys /\ askers' \subseteq Components
      <4>1. askers' = askers \cup {Inventory[i] : i \in QueuedAt}
        BY <1>7 DEF BatchAnswered
      <4> QED
        BY <1>4, <2>1, <4>1 DEF TypeOK
    <3> QED
      BY <1>1, <1>3, <2>2, <2>3, <3>1, <3>2, <3>3 DEF TypeOK
  <2>5. AsOfConservative'
    <3>1. clock \in Nat /\ asOf \in 0 .. clock /\ gotAt \in [Keys -> 0 .. clock]
      BY DEF TypeOK
    <3>2. \A k \in Keys : gotAt[k] # 0 => asOf # 0 /\ asOf <= gotAt[k]
      BY DEF AsOfConservative
    <3>3. Answered = IF asOf = 0 THEN clock + 1 ELSE asOf
      BY DEF Answered
    <3>4. ASSUME NEW k \in Keys, gotAt'[k] # 0
          PROVE  asOf' # 0 /\ asOf' <= gotAt'[k]
      <4>1. CASE k \in Queued
        BY ONLY <2>1, <3>1, <3>3, <4>1
      <4>2. CASE k \notin Queued
        BY ONLY <2>1, <3>1, <3>2, <3>3, <3>4, <4>2
      <4> QED
        BY <4>1, <4>2
    <3> QED
      BY <3>4 DEF AsOfConservative
  <2>6. UnknownIsEmpty' /\ ResolvedOnce'
    BY SMTT(30), <1>4, <2>1, <2>2 DEF UnknownIsEmpty, ResolvedOnce, IsCached, TypeOK
  <2> QED
    BY <1>6, <2>4, <2>5, <2>6
<1>8. CASE SkipPrefetch \/ BatchFailed
  <2>1. UNCHANGED <<known, cache, asOf, askers, resolved, gotAt>> /\ clock' \in {clock, clock + 1}
    BY <1>8 DEF SkipPrefetch, BatchFailed, KeptOnBatchFailure
  <2>2. TypeOK'
    BY SMTT(30), <1>1, <1>3, <2>1 DEF TypeOK
  <2>3. AsOfConservative' /\ UnknownIsEmpty' /\ ResolvedOnce'
    BY <2>1 DEF AsOfConservative, UnknownIsEmpty, ResolvedOnce, IsCached
  <2> QED
    BY <1>6, <2>2, <2>3
<1> QED
  BY <1>7, <1>8 DEF Prefetch

\* Append adds one element at the end and keeps the others.
LEMMA AppendFacts ==
  ASSUME NEW S, NEW s \in Seq(S), NEW e \in S
  PROVE  /\ Append(s, e) \in Seq(S) /\ Len(Append(s, e)) = Len(s) + 1
         /\ Append(s, e)[Len(s) + 1] = e
         /\ \A t \in DOMAIN Append(s, e) :
              t # Len(s) + 1 => t \in DOMAIN s /\ Append(s, e)[t] = s[t]
OBVIOUS

\* The steps that pair a component with its advisories.
LEMMA LookupKeepsIInv ==
  ASSUME IInv, Lookup
  PROVE  IInv'
<1> USE Constants DEF IInv
<1>1. Inventory \in Seq(Components) /\ turn \in 1 .. Len(Inventories) /\ UNCHANGED <<turn, stage>>
  <2>1. Inventory \in Seq(Components) /\ turn \in 1 .. Len(Inventories)
    BY DEF TypeOK, Inventory
  <2>2. UNCHANGED <<turn, stage>>
    BY DEF Lookup, BeginItems, FromCache, NoEcosystem, NameAnswered, NameFailed, Store
  <2> QED
    BY <2>1, <2>2
<1>2. Inventory' = Inventory
  BY <1>1 DEF Inventory
<1>3. CASE BeginItems
  <2>1. /\ items' = Append(items, <<>>) /\ items \in Seq(Answers) /\ Len(items) = turn - 1 /\ pos = 0
        /\ UNCHANGED <<turn, stage, pos, asked, gathered, known, cache, clock, asOf, askers, missed, resolved, gotAt>>
    BY <1>1, <1>3 DEF BeginItems, TypeOK, Answers, ItemsFromCache
  <2>2. <<>> \in Answers
    BY DEF Answers
  <2>3. items' \in Seq(Answers) /\ Len(items') = turn /\ items'[turn] = <<>>
        /\ \A t \in DOMAIN items' : t # turn => t \in DOMAIN items /\ items'[t] = items[t]
    <3>1. turn = Len(items) + 1
      BY <1>1, <2>1
    <3>2. /\ Append(items, <<>>) \in Seq(Answers) /\ Len(Append(items, <<>>)) = turn
          /\ Append(items, <<>>)[turn] = <<>>
          /\ \A t \in DOMAIN Append(items, <<>>) :
               t # turn => t \in DOMAIN items /\ Append(items, <<>>)[t] = items[t]
      BY ONLY <2>1, <2>2, <3>1, AppendFacts
    <3> QED
      BY ONLY <2>1, <3>2
  <2>4. TypeOK'
    BY <1>2, <2>1, <2>3 DEF TypeOK, Answers
  <2>5. AsOfConservative' /\ UnknownIsEmpty' /\ ResolvedOnce'
    BY <2>1 DEF AsOfConservative, UnknownIsEmpty, ResolvedOnce, IsCached
  <2>6. ItemsFromCache'
    <3>1. ASSUME NEW t \in DOMAIN items', NEW i \in DOMAIN items'[t]
          PROVE  /\ i <= Len(Inventories[t]) /\ KeyOf[Inventories[t][i]] \in known
                 /\ items'[t][i] = cache[KeyOf[Inventories[t][i]]]
      <4>1. t # turn
        BY <2>3
      <4> QED
        BY <2>3, <4>1 DEF ItemsFromCache, IsCached
    <3>2. stage' = "lookup" /\ turn' = turn /\ pos' = 0 /\ Len(items'[turn]) = 0
      BY <1>1, <1>3, <2>1, <2>3 DEF BeginItems
    <3>3. Len(items') = turn /\ turn # turn - 1
      BY <1>1, <2>3
    <3> QED
      BY <2>1, <3>1, <3>2, <3>3 DEF ItemsFromCache, IsCached
  <2> QED
    BY <2>4, <2>5, <2>6
<1>4. CASE FromCache
  <2>1. /\ AtComponent /\ CurrentKey \in known /\ Emit(cache[CurrentKey])
        /\ UNCHANGED <<turn, stage, asked, gathered, known, cache, clock, asOf, askers, missed, resolved, gotAt>>
    BY <1>4 DEF FromCache, IsCached
  <2>2. cache[CurrentKey] \in SUBSET Advisories
    BY <2>1, CurrentIsFound DEF TypeOK
  <2>3. ItemsFromCache'
    BY <2>1, <2>2, EmitKeepsItems
  <2>4. TypeOK'
    BY <1>2, <2>1, <2>2, EmitExtendsItems DEF TypeOK, Answers
  <2>5. AsOfConservative' /\ UnknownIsEmpty' /\ ResolvedOnce'
    BY <2>1 DEF AsOfConservative, UnknownIsEmpty, ResolvedOnce, IsCached
  <2> QED
    BY <2>3, <2>4, <2>5
<1>5. CASE NoEcosystem
  <2>1. /\ AtComponent /\ CurrentKey \in Keys \ known /\ Emit({}) /\ known' = known \cup {CurrentKey}
        /\ UNCHANGED <<turn, stage, asked, gathered, cache, clock, asOf, missed, resolved, gotAt>>
        /\ askers' \subseteq Components
    BY <1>5, CurrentIsFound DEF NoEcosystem, TypeOK, IsCached
  <2>2. cache'[CurrentKey] = {}
    BY <2>1 DEF UnknownIsEmpty, IsCached
  <2>3. ItemsFromCache'
    BY <2>1, <2>2, EmitKeepsItems
  <2>4. TypeOK'
    BY <1>2, <2>1, EmitExtendsItems DEF TypeOK, Answers
  <2>5. AsOfConservative' /\ UnknownIsEmpty' /\ ResolvedOnce'
    BY <2>1 DEF AsOfConservative, UnknownIsEmpty, ResolvedOnce, IsCached
  <2> QED
    BY <2>3, <2>4, <2>5
<1>6. CASE NameAnswered \/ NameFailed
  <2>1. /\ AtComponent /\ Current \in Components /\ CurrentKey \in Keys /\ clock' = clock + 1 /\ asked' = asked + 1
        /\ asked < Len(NamesOf[Current])
        /\ UNCHANGED <<turn, stage, pos, known, cache, askers, resolved, items>>
    BY <1>6, CurrentIsFound DEF NameAnswered, NameFailed, Asking
  <2>2. NamesOf[Current][asked + 1] \in Names
    <3>1. NamesOf[Current] \in Seq(Names)
      BY <2>1
    <3> QED
      BY <2>1, <3>1 DEF TypeOK
  <2>3. /\ gathered' \subseteq Advisories /\ missed' \subseteq Keys \X Names
        /\ \/ asOf' = Answered /\ gotAt' = [gotAt EXCEPT ![CurrentKey] = IF @ = 0 THEN clock + 1 ELSE @]
           \/ UNCHANGED <<asOf, gotAt>>
    <3>1. CASE NameAnswered
      <4>1. Listing[NamesOf[Current][asked + 1]] \subseteq Advisories
        BY <2>2
      <4> QED
        BY <3>1, <4>1 DEF NameAnswered, TypeOK
    <3>2. CASE NameFailed
      BY SMTT(30), <2>1, <2>2, <3>2 DEF NameFailed, TypeOK
    <3> QED
      BY <1>6, <3>1, <3>2
  <2>4. /\ clock \in Nat /\ clock' \in Nat /\ asOf' \in 0 .. clock'
        /\ \/ asOf' = IF asOf = 0 THEN clock + 1 ELSE asOf
           \/ asOf' = asOf /\ gotAt' = gotAt
    BY SMTT(30), <2>1, <2>3 DEF TypeOK, Answered
  <2>5. /\ gotAt' \in [Keys -> 0 .. clock']
        /\ \A k \in Keys : \/ gotAt'[k] = gotAt[k]
                           \/ gotAt'[k] = clock + 1 /\ asOf' = IF asOf = 0 THEN clock + 1 ELSE asOf
    <3>1. gotAt \in [Keys -> 0 .. clock]
      BY DEF TypeOK
    <3>2. CASE UNCHANGED <<asOf, gotAt>>
      BY <2>1, <2>4, <3>1, <3>2
    <3>3. CASE asOf' = Answered /\ gotAt' = [gotAt EXCEPT ![CurrentKey] = IF @ = 0 THEN clock + 1 ELSE @]
      <4>1. ASSUME NEW k \in Keys
            PROVE  gotAt'[k] = gotAt[k] \/ gotAt'[k] = clock + 1
        BY <3>1, <3>3
      <4>2. DOMAIN gotAt' = Keys /\ gotAt' = [k \in Keys |-> gotAt'[k]]
        BY <3>1, <3>3
      <4> QED
        BY <2>1, <2>4, <3>1, <3>3, <4>1, <4>2 DEF Answered
    <3> QED
      BY <2>3, <3>2, <3>3
  <2>6. TypeOK'
    BY SMTT(30), <1>2, <2>1, <2>3, <2>4, <2>5 DEF TypeOK
  <2>7. AsOfConservative'
    <3>1. asOf \in Nat /\ asOf <= clock /\ \A k \in Keys : gotAt[k] \in Nat /\ gotAt[k] <= clock
      BY DEF TypeOK
    <3>2. asOf' = asOf \/ (asOf = 0 /\ asOf' = clock + 1)
      BY <2>4
    <3>3. ASSUME NEW k \in Keys, gotAt'[k] # 0
          PROVE  asOf' # 0 /\ asOf' <= gotAt'[k]
      <4>1. CASE gotAt'[k] = gotAt[k]
        <5>1. asOf # 0 /\ asOf <= gotAt[k]
          BY <3>3, <4>1 DEF AsOfConservative
        <5> QED
          BY <3>2, <4>1, <5>1
      <4>2. CASE gotAt'[k] = clock + 1 /\ asOf' = IF asOf = 0 THEN clock + 1 ELSE asOf
        <5>1. asOf' # 0 /\ asOf' <= clock + 1
          BY <2>4, <3>1, <4>2
        <5> QED
          BY <4>2, <5>1
      <4> QED
        BY <2>5, <4>1, <4>2
    <3> QED
      BY <3>3 DEF AsOfConservative
  <2>8. UnknownIsEmpty' /\ ResolvedOnce' /\ ItemsFromCache'
    BY <2>1, ItemsKept DEF UnknownIsEmpty, ResolvedOnce, IsCached
  <2> QED
    BY <2>6, <2>7, <2>8
<1>7. CASE Store
  <2>1. /\ AtComponent /\ CurrentKey \in Keys \ known /\ Emit(gathered) /\ known' = known \cup {CurrentKey}
        /\ cache' = [cache EXCEPT ![CurrentKey] = gathered]
        /\ resolved' = [resolved EXCEPT ![CurrentKey] = @ + 1]
        /\ asked' = 0 /\ gathered' = {} /\ UNCHANGED <<turn, stage, clock, asOf, missed, gotAt>>
    BY <1>7, CurrentIsFound DEF Store, Asking, IsCached
  <2>2. gathered \in SUBSET Advisories /\ cache'[CurrentKey] = gathered /\ \A k \in known : cache'[k] = cache[k]
    BY <2>1 DEF TypeOK
  <2>3. ItemsFromCache'
    BY <2>1, <2>2, EmitKeepsItems
  <2>4. TypeOK'
    <3>1. items' \in Seq(Answers) /\ pos' \in 0 .. Len(Inventory)
      BY <2>1, <2>2, EmitExtendsItems
    <3>2. cache' \in [Keys -> SUBSET Advisories] /\ known' \subseteq Keys
          /\ askers' \subseteq Components
      BY <1>7, <2>1, <2>2, CurrentIsFound DEF TypeOK, Store
    <3>3. resolved' \in [Keys -> Nat]
      BY <2>1 DEF TypeOK
    <3> QED
      BY <1>2, <2>1, <3>1, <3>2, <3>3 DEF TypeOK, Answers
  <2>5. AsOfConservative' /\ UnknownIsEmpty' /\ ResolvedOnce'
    BY <2>1 DEF AsOfConservative, UnknownIsEmpty, ResolvedOnce, IsCached, TypeOK
  <2> QED
    BY <2>3, <2>4, <2>5
<1> QED
  BY <1>3, <1>4, <1>5, <1>6, <1>7 DEF Lookup

\* Going on to the next analyzer, or out.
LEMMA NextAnalyzerKeepsIInv ==
  ASSUME IInv, NextAnalyzer
  PROVE  IInv'
<1> USE Constants DEF IInv
<1>1. /\ stage = "lookup" /\ Len(items) = turn /\ pos' = 0
      /\ \/ turn < Len(Inventories) /\ turn' = turn + 1 /\ stage' = "prefetch"
         \/ turn' = turn /\ stage' = "done"
      /\ UNCHANGED <<asked, gathered, known, cache, clock, asOf, askers, missed, resolved, gotAt, items>>
  BY DEF NextAnalyzer, MoreAnalyzers
<1>2. turn' \in 1 .. Len(Inventories)
  BY <1>1 DEF TypeOK
<1>3. Inventory' \in Seq(Components) /\ pos' \in 0 .. Len(Inventory')
  <2>1. Inventory' \in Seq(Components)
    BY <1>2 DEF Inventory
  <2> QED
    BY <1>1, <2>1
<1>4. TypeOK'
  <2>1. stage' \in {"prefetch", "lookup", "done"} /\ turn' \in DOMAIN Inventories
    BY <1>1, <1>2
  <2>2. asked' \in Nat /\ clock' \in Nat /\ asOf' \in 0 .. clock'
        /\ gotAt' \in [Keys -> 0 .. clock']
    BY <1>1 DEF TypeOK
  <2> QED
    BY <1>1, <1>3, <2>1, <2>2 DEF TypeOK
<1>5. AsOfConservative' /\ UnknownIsEmpty' /\ ResolvedOnce'
  BY <1>1 DEF AsOfConservative, UnknownIsEmpty, ResolvedOnce, IsCached
<1>6. ItemsFromCache'
  <2>1. \A t \in DOMAIN items : \A i \in DOMAIN items[t] :
          /\ i <= Len(Inventories[t]) /\ KeyOf[Inventories[t][i]] \in known
          /\ items[t][i] = cache[KeyOf[Inventories[t][i]]]
    BY DEF ItemsFromCache, IsCached
  <2>2. /\ Len(items) \in {turn' - 1, turn'}
        /\ stage' = "prefetch" => Len(items) = turn' - 1
        /\ stage' # "lookup" /\ pos' = 0
    BY <1>1 DEF TypeOK
  <2> QED
    BY <1>1, <2>1, <2>2 DEF ItemsFromCache, IsCached
<1> QED
  BY <1>4, <1>5, <1>6

-----------------------------------------------------------------------------
(* What is cached is what was heard                                        *)

\* What comes after the first i elements of a longer list is one of them.
LEMMA NextElement ==
  ASSUME NEW S, NEW s \in Seq(S), NEW i \in 0 .. Len(s), i < Len(s)
  PROVE  s[i + 1] \in S
<1>1. i + 1 \in 1 .. Len(s)
  OBVIOUS
<1> QED
  BY <1>1

\* With no lookup half done and every failure settled, nothing is underway.
LEMMA NothingUnderway ==
  ASSUME TypeOK', asked' = 0, gathered' = {}, \A m \in missed' : m[1] \in known'
  PROVE  GatheredSoFar' /\ MissesAreSettled'
<1>1. MissesAreSettled'
  BY DEF MissesAreSettled, IsCached
<1>2. ASSUME Asking' PROVE 0 <= Len(NamesOf[Current'])
  <2>1. Inventory' \in Seq(Components)
    BY Constants DEF TypeOK, Inventory
  <2>2. pos' \in 0 .. Len(Inventory') /\ pos' < Len(Inventory')
    BY <1>2 DEF TypeOK, Asking, AtComponent
  <2>3. Current' \in Components
    BY <2>1, <2>2, NextElement DEF Current
  <2> QED
    BY <2>3, Constants
<1>3. HeardSoFar' = {}
  <2>1. 1 .. asked' = {}
    OBVIOUS
  <2> QED
    BY <2>1 DEF HeardSoFar
<1> QED
  BY <1>1, <1>2, <1>3 DEF GatheredSoFar

\* A step taken between two lookups leaves nothing underway, if it forgets no
\* cache entry and logs no failure.
LEMMA StillNothingUnderway ==
  ASSUME TypeOK', ~Asking, GatheredSoFar, MissesAreSettled,
         UNCHANGED <<asked, gathered, missed>>, known \subseteq known'
  PROVE  GatheredSoFar' /\ MissesAreSettled'
<1>1. asked' = 0 /\ gathered' = {} /\ \A m \in missed' : m[1] \in known'
  BY DEF GatheredSoFar, MissesAreSettled, IsCached
<1> QED
  BY <1>1, NothingUnderway

\* A step that keeps the cache and the failures keeps what it was asked for, if
\* it forgets no key and adds, with each new key, a component whose answer it is.
LEMMA CacheAskedGrows ==
  ASSUME CacheAsked, missed' = missed, known \subseteq known', askers \subseteq askers',
         \A k \in known : cache'[k] = cache[k],
         \A c \in askers' \ askers : KeyOf[c] \in known' /\ cache'[KeyOf[c]] = Heard(c),
         \A k \in known' \ known : \E c \in askers' : KeyOf[c] = k
  PROVE  CacheAsked'
<1>1. \A c : Heard(c)' = Heard(c)
  BY DEF Heard
<1>2. ASSUME NEW c \in askers' PROVE KeyOf[c] \in known' /\ cache'[KeyOf[c]] = Heard(c)
  <2>1. CASE c \in askers
    <3>1. KeyOf[c] \in known /\ cache[KeyOf[c]] = Heard(c)
      BY <2>1 DEF CacheAsked, IsCached
    <3> QED
      BY <3>1
  <2> QED
    BY <2>1
<1>3. ASSUME NEW k \in known' PROVE \E c \in askers' : KeyOf[c] = k
  <2>1. CASE k \in known
    BY <2>1 DEF CacheAsked
  <2> QED
    BY <2>1
<1> QED
  BY <1>1, <1>2, <1>3 DEF CacheAsked, IsCached

\* A batch caches what the source lists under the names of each component it
\* asks about: nothing was asked under their keys by name before.
LEMMA PrefetchKeepsAnswers ==
  ASSUME IInv, TypeOK', AnswersKept, Prefetch
  PROVE  AnswersKept'
<1> USE DEF IInv, AnswersKept
<1>1. stage = "prefetch" /\ ~Asking /\ UNCHANGED <<asked, gathered, missed>>
  BY DEF Prefetch, SkipPrefetch, BatchAnswered, BatchFailed, Asking, AtComponent
<1>2. Inventory \in Seq(Components)
  BY Constants DEF TypeOK, Inventory
<1>3. ASSUME NEW i \in QueuedAt
      PROVE  /\ KeyAt(i) \in Keys \ known /\ KeyAt(i) \in Queued /\ KeyOf[Inventory[i]] = KeyAt(i)
             /\ Merged(KeyAt(i)) = Heard(Inventory[i])
  <2>1. KeyAt(i) \notin known /\ HasEcosystem[KeyAt(i)]
    BY DEF QueuedAt, FirstAsked, Askable
  <2>2. KeyAt(i) \in Keys /\ Merged(KeyAt(i)) = Listed(Inventory[i])
    BY <1>2, MergedIsListed
  <2>3. \A n : <<KeyAt(i), n>> \notin missed
    BY <1>1, <2>1 DEF MissesAreSettled, IsCached
  <2>4. {m \in ToSet(NamesOf[Inventory[i]]) : <<KeyAt(i), m>> \notin missed} = ToSet(NamesOf[Inventory[i]])
    BY <2>3
  <2> QED
    BY <2>1, <2>2, <2>4 DEF Heard, Listed, KeyAt, Queued
<1>4. known \subseteq known'
  BY DEF Prefetch, SkipPrefetch, BatchAnswered, BatchFailed, KeptOnBatchFailure
<1>5. CacheAsked'
  <2>1. CASE BatchAnswered
    <3>1. /\ known' = known \cup Queued /\ askers' = askers \cup {Inventory[i] : i \in QueuedAt}
          /\ cache' = [k \in Keys |-> IF k \in Queued THEN Merged(k) ELSE cache[k]]
      BY <2>1 DEF BatchAnswered
    <3>2. \A i \in QueuedAt : KeyOf[Inventory[i]] \in known' /\ cache'[KeyOf[Inventory[i]]] = Heard(Inventory[i])
      BY <1>3, <3>1
    <3>3. \A k \in known : k \in Keys /\ k \notin Queued
      BY <1>3 DEF Queued, TypeOK
    <3>4. \A k \in Queued : \E c \in askers' : KeyOf[c] = k
      BY <1>3, <3>1 DEF Queued
    <3>5. \A k \in known : cache'[k] = cache[k]
      BY <3>1, <3>3
    <3> QED
      BY <1>1, <3>1, <3>2, <3>4, <3>5, CacheAskedGrows
  <2>2. CASE SkipPrefetch \/ BatchFailed
    <3>1. UNCHANGED <<known, cache, askers, missed>>
      BY <2>2 DEF SkipPrefetch, BatchFailed, KeptOnBatchFailure
    <3> QED
      BY <3>1, CacheAskedGrows
  <2> QED
    BY <2>1, <2>2 DEF Prefetch
<1> QED
  BY <1>1, <1>4, <1>5, StillNothingUnderway

\* Going on to the next component that needs no lookup, or to the next analyzer.
LEMMA PassingKeepsAnswers ==
  ASSUME IInv, TypeOK', AnswersKept, BeginItems \/ FromCache \/ NoEcosystem \/ NextAnalyzer
  PROVE  AnswersKept'
<1> USE DEF IInv, AnswersKept
<1>1. ~Asking /\ UNCHANGED <<asked, gathered, missed, cache>> /\ known \subseteq known'
  <2>1. CASE BeginItems
    BY <2>1 DEF BeginItems, Asking, AtComponent
  <2>2. CASE FromCache
    BY <2>2 DEF FromCache, Asking
  <2>3. CASE NoEcosystem
    BY <2>3 DEF NoEcosystem, Asking
  <2>4. CASE NextAnalyzer
    <3>1. ~(pos < Len(Inventory))
      BY <2>4 DEF NextAnalyzer, TypeOK
    <3> QED
      BY <2>4, <3>1 DEF NextAnalyzer, Asking, AtComponent
  <2> QED
    BY <2>1, <2>2, <2>3, <2>4
<1>2. CacheAsked'
  <2>1. CASE NoEcosystem
    <3>1. /\ AtComponent /\ CurrentKey \notin known /\ ~HasEcosystem[CurrentKey]
          /\ known' = known \cup {CurrentKey} /\ askers' = askers \cup {Current}
      BY <2>1 DEF NoEcosystem, IsCached
    <3>2. CurrentKey \in Keys /\ KeyOf[Current] = CurrentKey
      BY <3>1, CurrentIsFound DEF CurrentKey
    <3>3. cache[CurrentKey] = {} /\ Heard(Current) = {}
      BY <3>1, <3>2 DEF UnknownIsEmpty, IsCached, Heard
    <3> QED
      BY <1>1, <3>1, <3>2, <3>3, CacheAskedGrows
  <2>2. CASE BeginItems \/ FromCache \/ NextAnalyzer
    <3>1. UNCHANGED <<known, cache, askers, missed>>
      BY <2>2 DEF BeginItems, FromCache, NextAnalyzer
    <3> QED
      BY <3>1, CacheAskedGrows
  <2> QED
    BY <2>1, <2>2
<1> QED
  BY <1>1, <1>2, StillNothingUnderway

\* One name more: an answer is gathered, a failure logged; no other component's
\* account changes, and no name of this one is asked twice.
LEMMA AskingKeepsAnswers ==
  ASSUME IInv, TypeOK', AnswersKept, NameAnswered \/ NameFailed
  PROVE  AnswersKept'
<1> USE DEF IInv, AnswersKept
<1> DEFINE q == NamesOf[Current]
           new == q[asked + 1]
           heard == {i \in 1 .. asked : <<CurrentKey, q[i]>> \notin missed}
<1>1. /\ Asking /\ Asking' /\ asked < Len(q) /\ asked' = asked + 1 /\ Current' = Current /\ CurrentKey' = CurrentKey
      /\ UNCHANGED <<turn, stage, pos, known, cache, askers, items>>
  BY DEF NameAnswered, NameFailed, Asking, AtComponent, Current, CurrentKey, Inventory, IsCached
<1>2. Current \in Components /\ CurrentKey \in Keys /\ CurrentKey \notin known
  BY <1>1, CurrentIsFound DEF Asking, IsCached
<1>3. q \in Seq(Names) /\ Len(q) \in Nat /\ asked \in Nat /\ asked + 1 \in DOMAIN q
      /\ \A i \in 1 .. asked : i \in DOMAIN q /\ i # asked + 1
  <2>1. q \in Seq(Names)
    BY <1>2, Constants
  <2>2. asked \in Nat
    BY DEF TypeOK
  <2> HIDE DEF q
  <2> QED
    BY <1>1, <2>1, <2>2
<1>4. \A i \in 1 .. asked : q[i] # new
  <2>1. IsInjective(q)
    BY <1>2, Constants
  <2> HIDE DEF q
  <2> QED
    BY <1>3, <2>1 DEF IsInjective
<1>5. <<CurrentKey, new>> \notin missed
  <2> SUFFICES ASSUME <<CurrentKey, new>> \in missed PROVE FALSE
    OBVIOUS
  <2>1. \E j \in 1 .. asked : new = q[j]
    BY <1>2 DEF MissesAreSettled, IsCached
  <2> QED
    BY <1>4, <2>1
<1>6. 1 .. asked' = 1 .. asked \cup {asked + 1}
  BY <1>1, <1>3
<1>7. asked' <= Len(q)
  BY <1>1, <1>3
<1>8. gathered = UNION {Listing[n] : n \in {q[j] : j \in heard}}
  BY <1>1 DEF GatheredSoFar, HeardSoFar
<1> DEFINE heard1 == {i \in 1 .. asked' : <<CurrentKey, q[i]>> \notin missed'}
<1>9. HeardSoFar' = UNION {Listing[n] : n \in {q[j] : j \in heard1}}
  BY <1>1 DEF HeardSoFar
<1>10. CASE NameAnswered
  <2>1. missed' = missed /\ gathered' = gathered \cup Listing[new]
    BY <1>10 DEF NameAnswered
  <2>2. heard1 = heard \cup {asked + 1}
    <3> HIDE DEF q
    <3> QED
      BY <1>5, <1>6, <2>1
  <2> HIDE DEF heard, heard1
  <2>3. {q[j] : j \in heard1} = {q[j] : j \in heard} \cup {new}
    BY <2>2
  <2>4. HeardSoFar' = gathered'
    <3> DEFINE A == {q[j] : j \in heard}
               B == {q[j] : j \in heard1}
    <3>1. B = A \cup {new}
      BY <2>3
    <3> HIDE DEF A, B, new
    <3> QED
      BY <1>8, <1>9, <2>1, <3>1 DEF A, B
  <2>5. CacheAsked'
    BY <1>1, <2>1, CacheAskedGrows
  <2>6. MissesAreSettled'
    BY <1>1, <1>6, <2>1 DEF MissesAreSettled, IsCached
  <2> QED
    BY <1>1, <1>7, <2>4, <2>5, <2>6 DEF GatheredSoFar
<1>11. CASE NameFailed
  <2>1. missed' = missed \cup {<<CurrentKey, new>>} /\ gathered' = gathered
    BY <1>11 DEF NameFailed
  <2>2. heard1 = heard
    <3>1. ASSUME NEW i \in 1 .. asked PROVE <<CurrentKey, q[i]>> \in missed' <=> <<CurrentKey, q[i]>> \in missed
      BY <1>4, <2>1
    <3>2. <<CurrentKey, q[asked + 1]>> \in missed'
      BY <2>1
    <3> HIDE DEF q
    <3> QED
      BY <1>6, <3>1, <3>2
  <2>3. HeardSoFar' = gathered'
    <3> HIDE DEF heard, heard1, q
    <3> QED
      BY <1>8, <1>9, <2>1, <2>2
  <2>4. CacheAsked'
    <3>1. \A k \in known : \A n : <<k, n>> \in missed' <=> <<k, n>> \in missed
      BY <1>2, <2>1
    <3>2. ASSUME NEW c \in askers' PROVE KeyOf[c] \in known' /\ cache'[KeyOf[c]] = Heard(c)'
      <4>1. KeyOf[c] \in known /\ cache[KeyOf[c]] = Heard(c)
        BY <1>1 DEF CacheAsked, IsCached
      <4>2. {m \in ToSet(NamesOf[c]) : <<KeyOf[c], m>> \notin missed'}
              = {m \in ToSet(NamesOf[c]) : <<KeyOf[c], m>> \notin missed}
        BY <3>1, <4>1
      <4>3. Heard(c)' = Heard(c)
        BY <4>2 DEF Heard
      <4> QED
        BY <1>1, <4>1, <4>3
    <3> QED
      BY <1>1, <3>2 DEF CacheAsked, IsCached
  <2>5. MissesAreSettled'
    <3> SUFFICES ASSUME NEW m \in missed', m[1] \notin known
                 PROVE  m[1] = CurrentKey /\ \E j \in 1 .. asked' : m[2] = q[j]
      BY <1>1 DEF MissesAreSettled, IsCached
    <3>1. CASE m \in missed
      BY <1>6, <3>1 DEF MissesAreSettled, IsCached
    <3>2. CASE m = <<CurrentKey, new>>
      BY <1>6, <3>2
    <3> QED
      BY <2>1, <3>1, <3>2
  <2> QED
    BY <1>1, <1>7, <2>3, <2>4, <2>5 DEF GatheredSoFar
<1> QED
  BY <1>10, <1>11

\* The names are all asked: what is cached is what they brought.
LEMMA StoreKeepsAnswers ==
  ASSUME IInv, TypeOK', AnswersKept, Store
  PROVE  AnswersKept'
<1> USE DEF IInv, AnswersKept
<1> DEFINE q == NamesOf[Current]
<1>1. /\ Asking /\ asked = Len(q) /\ known' = known \cup {CurrentKey} /\ missed' = missed
      /\ askers' = askers \cup {Current}
      /\ cache' = [cache EXCEPT ![CurrentKey] = gathered] /\ asked' = 0 /\ gathered' = {}
  BY DEF Store, LookupOver
<1>2. /\ Current \in Components /\ CurrentKey \in Keys /\ CurrentKey \notin known
      /\ HasEcosystem[CurrentKey] /\ KeyOf[Current] = CurrentKey
  BY <1>1, CurrentIsFound DEF Asking, IsCached, CurrentKey
<1>3. DOMAIN q = 1 .. asked
  <2>1. q \in Seq(Names)
    BY <1>2, Constants
  <2> QED
    BY <1>1, <2>1
<1>4. {q[j] : j \in {i \in 1 .. asked : <<CurrentKey, q[i]>> \notin missed}}
        = {m \in ToSet(q) : <<CurrentKey, m>> \notin missed}
  <2>1. ToSet(q) = {q[i] : i \in 1 .. asked}
    BY <1>3 DEF ToSet
  <2> HIDE DEF q
  <2> QED
    BY <2>1
<1>5. gathered = Heard(Current)
  <2>1. gathered = HeardSoFar
    BY <1>1 DEF GatheredSoFar
  <2> QED
    BY <1>2, <1>4, <2>1 DEF HeardSoFar, Heard
<1>6. CacheAsked'
  <2>1. cache'[CurrentKey] = gathered /\ \A k \in known : cache'[k] = cache[k]
    BY <1>1, <1>2 DEF TypeOK
  <2> QED
    BY <1>1, <1>2, <1>5, <2>1, CacheAskedGrows
<1>7. \A m \in missed' : m[1] \in known'
  BY <1>1 DEF MissesAreSettled, IsCached
<1> QED
  BY <1>1, <1>6, <1>7, NothingUnderway

-----------------------------------------------------------------------------
(* The theorems                                                            *)

\* The strengthening of the properties below is an invariant of every scan.
THEOREM Inductive == Spec => []IInv
<1>1. Init => IInv
  BY InitIInv
<1>2. IInv /\ [Next]_vars => IInv'
  <2> SUFFICES ASSUME IInv, [Next]_vars PROVE IInv'
    OBVIOUS
  <2>1. CASE Prefetch
    BY <2>1, PrefetchKeepsIInv
  <2>2. CASE Lookup
    BY <2>2, LookupKeepsIInv
  <2>3. CASE NextAnalyzer
    BY <2>3, NextAnalyzerKeepsIInv
  <2>4. CASE UNCHANGED vars
    BY <2>4 DEF vars, IInv, TypeOK, Inventory, AsOfConservative, UnknownIsEmpty, ResolvedOnce,
                ItemsFromCache, IsCached
  <2> QED
    BY <2>1, <2>2, <2>3, <2>4 DEF Next, Done
<1> QED
  BY <1>1, <1>2, PTL DEF Spec

\* Every state of the resolver is well typed.
THEOREM TypeCorrect == Spec => []TypeOK
<1>1. IInv => TypeOK
  BY DEF IInv
<1> QED
  BY <1>1, Inductive, PTL

\* The time a scan says its data is from is never later than the answer any of
\* its cached data came in, however batches and single lookups fail between.
THEOREM FreshnessIsConservative == Spec => []AsOfConservative
<1>1. IInv => AsOfConservative
  BY DEF IInv
<1> QED
  BY <1>1, Inductive, PTL

\* No key is resolved twice in a scan, by a batch, by name or by both.
THEOREM AskedOnce == Spec => []ResolvedOnce
<1>1. IInv => ResolvedOnce
  BY DEF IInv
<1> QED
  BY <1>1, Inductive, PTL

\* Two components of one key get the same advisories wherever in the scan they
\* are found, and every work item carries its own component's.
THEOREM OneAnswerPerKey == Spec => []SameKeySameItems
<1>1. IInv => SameKeySameItems
  BY DEF IInv, ItemsFromCache, SameKeySameItems
<1> QED
  BY <1>1, Inductive, PTL

\* Nor do the answers that are being gathered ever fall behind the names asked.
THEOREM AnswersInductive == Spec => []AnswersKept
<1>1. Init => AnswersKept
  <2> SUFFICES ASSUME Init PROVE AnswersKept
    OBVIOUS
  <2>1. ~Asking /\ known = {} /\ askers = {} /\ missed = {} /\ asked = 0 /\ gathered = {}
    BY DEF Init, Asking, AtComponent
  <2> QED
    BY <2>1 DEF AnswersKept, CacheAsked, GatheredSoFar, MissesAreSettled, IsCached
<1>2. IInv /\ IInv' /\ AnswersKept /\ [Next]_vars => AnswersKept'
  <2> SUFFICES ASSUME IInv, TypeOK', AnswersKept, [Next]_vars PROVE AnswersKept'
    BY DEF IInv
  <2>1. CASE Prefetch
    BY <2>1, PrefetchKeepsAnswers
  <2>2. CASE Lookup
    <3>1. CASE BeginItems \/ FromCache \/ NoEcosystem
      BY <3>1, PassingKeepsAnswers
    <3>2. CASE NameAnswered \/ NameFailed
      BY <3>2, AskingKeepsAnswers
    <3>3. CASE Store
      BY <3>3, StoreKeepsAnswers
    <3> QED
      BY <2>2, <3>1, <3>2, <3>3 DEF Lookup
  <2>3. CASE NextAnalyzer
    BY <2>3, PassingKeepsAnswers
  <2>4. CASE UNCHANGED vars
    <3>1. /\ UNCHANGED <<known, cache, askers, missed, asked, gathered>>
          /\ Current' = Current /\ CurrentKey' = CurrentKey /\ (Asking' <=> Asking) /\ HeardSoFar' = HeardSoFar
      BY <2>4 DEF vars, HeardSoFar, Asking, AtComponent, Current, CurrentKey, Inventory, IsCached
    <3>2. CacheAsked'
      BY <3>1, CacheAskedGrows DEF AnswersKept
    <3>3. GatheredSoFar' /\ MissesAreSettled'
      BY <3>1 DEF AnswersKept, GatheredSoFar, MissesAreSettled, IsCached
    <3> QED
      BY <3>2, <3>3 DEF AnswersKept
  <2> QED
    BY <2>1, <2>2, <2>3, <2>4 DEF Next, Done
<1> QED
  BY <1>1, <1>2, Inductive, PTL DEF Spec

\* A work item that is its key's entry is what some component of that key heard.
LEMMA ItemIsHeard ==
  ASSUME IInv, CacheAsked, NEW t \in DOMAIN items, NEW i \in DOMAIN items[t]
  PROVE  /\ Inventories[t][i] \in Components
         /\ \E d \in askers : /\ d \in Components /\ KeyOf[d] = KeyOf[Inventories[t][i]]
                              /\ items[t][i] = Heard(d)
<1> DEFINE c == Inventories[t][i]
<1>1. i <= Len(Inventories[t]) /\ KeyOf[c] \in known /\ items[t][i] = cache[KeyOf[c]]
  BY DEF IInv, ItemsFromCache, IsCached
<1>2. t \in DOMAIN Inventories /\ i \in Nat \ {0}
  <2>1. items \in Seq(Answers) /\ turn \in 1 .. Len(Inventories) /\ Len(items) \in {turn - 1, turn}
    <3>1. items \in Seq(Answers) /\ Len(items) \in {turn - 1, turn}
      BY DEF IInv, TypeOK, Answers, ItemsFromCache
    <3>2. turn \in DOMAIN Inventories /\ DOMAIN Inventories = 1 .. Len(Inventories)
      BY Constants DEF IInv, TypeOK
    <3> QED
      BY <3>1, <3>2
  <2>2. items[t] \in Answers /\ t \in 1 .. Len(Inventories)
    BY Constants, <2>1
  <2> QED
    BY Constants, <2>2 DEF Answers
<1>3. c \in Components
  <2>1. Inventories[t] \in Seq(Components)
    BY Constants, <1>2
  <2> QED
    BY <1>1, <1>2, <2>1
<1>4. PICK d \in askers : KeyOf[d] = KeyOf[c]
  BY <1>1 DEF CacheAsked
<1>5. cache[KeyOf[d]] = Heard(d)
  BY <1>4 DEF CacheAsked
<1>6. d \in Components
  BY DEF IInv, TypeOK
<1> QED
  BY <1>1, <1>3, <1>4, <1>5, <1>6

\* Components of one key hear the same under the same names, and what is listed
\* under the Name they have in common either way.
LEMMA HeardAlike ==
  ASSUME NEW c \in Components, NEW d \in Components, KeyOf[d] = KeyOf[c]
  PROVE  (KeyTells(c) => Heard(d) = Heard(c)) /\ HeardByName(c) \subseteq Heard(d)
<1>1. KeyTells(c) => Heard(d) = Heard(c)
  BY DEF KeyTells, Heard
<1>2. ASSUME NamesOf[c] # <<>>, HasEcosystem[KeyOf[c]], <<KeyOf[c], NamesOf[c][1]>> \notin missed
      PROVE  Listing[NamesOf[c][1]] \subseteq Heard(d)
  <2>1. NamesOf[d] # <<>> /\ NamesOf[d][1] = NamesOf[c][1]
    BY <1>2, KeysAssumption DEF SameName
  <2>2. NamesOf[d] \in Seq(Names)
    BY Constants
  <2>3. NamesOf[d][1] \in ToSet(NamesOf[d])
    <3>1. 1 \in DOMAIN NamesOf[d]
      BY <2>1, <2>2
    <3> QED
      BY <3>1 DEF ToSet
  <2> QED
    BY <1>2, <2>1, <2>3 DEF Heard
<1> QED
  BY <1>1, <1>2 DEF HeardByName

\* What the scan works with is the source's own answer for some component of the
\* same key: an advisory listed under a component's Name, and under every name if
\* no other names share its key, is missing only when the lookup of that name
\* failed and was logged; a failed batch never empties or shortens anything.
THEOREM CacheIsFaithful == Spec => []CacheFaithful
<1>1. IInv /\ AnswersKept => CacheFaithful
  <2> SUFFICES ASSUME IInv, AnswersKept, NEW t \in DOMAIN items, NEW i \in DOMAIN items[t]
               PROVE  LET c == Inventories[t][i] IN
                      /\ \E d \in askers : KeyOf[d] = KeyOf[c] /\ items[t][i] = Heard(d)
                      /\ KeyTells(c) => items[t][i] = Heard(c)
                      /\ HeardByName(c) \subseteq items[t][i]
    BY DEF CacheFaithful
  <2>1. Inventories[t][i] \in Components
    BY ItemIsHeard DEF AnswersKept
  <2>2. PICK d \in askers : /\ d \in Components /\ KeyOf[d] = KeyOf[Inventories[t][i]]
                            /\ items[t][i] = Heard(d)
    BY ItemIsHeard DEF AnswersKept
  <2> QED
    BY <2>1, <2>2, HeardAlike
<1> QED
  BY <1>1, Inductive, AnswersInductive, PTL
=============================================================================
