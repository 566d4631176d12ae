---------------------------- MODULE FleetScanProofs ----------------------------
(***************************************************************************)
(* Of every invocation, whatever it names and however its scans end: each  *)
(* image asked for is scanned, once, under what was said of it; the formats*)
(* of every report agree; the roll-up has a row for each image and counts  *)
(* every finding; the status is told of all of them and says what is so;   *)
(* an unpacked bundle is held while it is read and released.               *)
(*                                                                         *)
(* The proof has four parts.  The first is about the data the program goes *)
(* over: sums, lists that are filtered or laid end to end, least and       *)
(* greatest numbers (the library's induction theorems take an operator, so *)
(* induction is done with a set of numbers, or of sets, and its least      *)
(* member outside).  The second is about one result and its formats, the   *)
(* third about the readers of an image list.  The fourth is the run: a     *)
(* phase that follows the loop is reached only at the end of it or with a  *)
(* failure recorded, and what the last phases show is made of what the     *)
(* loop left.                                                              *)
(***************************************************************************)
EXTENDS FleetScan, SequenceTheorems, FiniteSetTheorems, WellFoundedInduction, TLAPS

(* The data the program goes over                                          *)

\* A set of numbers that holds 0 and the successor of each of its members holds
\* every number.
LEMMA NumberInduction ==
  ASSUME NEW G, 0 \in G, \A n \in Nat : n \in G => n + 1 \in G
  PROVE  \A n \in Nat : n \in G
<1> DEFINE R == {ss \in Nat \X Nat : ss[1] < ss[2]}
           T == {n \in Nat : n \notin G}
<1>1. SUFFICES ASSUME T # {} PROVE FALSE
  OBVIOUS
<1>2. IsWellFoundedOn(R, Nat)
  BY NatLessThanWellFounded DEF OpToRel
<1> HIDE DEF R
<1>3. PICK x \in T : \A y \in T : <<y, x>> \notin R
  BY <1>1, <1>2, WFMin
<1> USE DEF R
<1>4. x \in Nat /\ x # 0
  OBVIOUS
<1>5. x - 1 \in Nat /\ x - 1 < x /\ (x - 1) + 1 = x
  BY <1>4
<1>6. x - 1 \notin T
  BY <1>3, <1>4, <1>5
<1> QED
  BY <1>4, <1>5, <1>6

\* A family of subsets of a finite set holds all of them, if it holds each one
\* it holds with any one element taken out.
LEMMA SubsetInduction ==
  ASSUME NEW S, IsFiniteSet(S), NEW G,
         \A s \in SUBSET S : (\A x \in s : s \ {x} \in G) => s \in G
  PROVE  \A s \in SUBSET S : s \in G
<1> DEFINE T == {s \in SUBSET S : s \notin G}
<1>1. SUFFICES ASSUME T # {} PROVE FALSE
  OBVIOUS
<1>2. IsWellFoundedOn(StrictSubsetOrdering(S), SUBSET S)
  BY FS_StrictSubsetOrderingWellFounded, FS_FiniteSubsetsOfFinite
<1>3. \E s \in T : \A t \in T : <<t, s>> \notin StrictSubsetOrdering(S)
  <2>1. T \subseteq SUBSET S
    OBVIOUS
  <2> HIDE DEF T
  <2> QED
    BY <1>1, <1>2, <2>1, WFMin
<1>7. PICK s \in T : \A t \in T : <<t, s>> \notin StrictSubsetOrdering(S)
  BY <1>3
<1>4. \A x \in s : <<s \ {x}, s>> \in StrictSubsetOrdering(S)
  BY DEF StrictSubsetOrdering
<1> QED
  BY <1>4, <1>7

\* What a sum is, whichever order it was taken in: there are partial sums over
\* the subsets, each adds one of its elements to the sum of the others.
LEMMA PartialSums ==
  ASSUME NEW v, IsFiniteSet(DOMAIN v), \A x \in DOMAIN v : v[x] \in Nat
  PROVE  \E w \in [SUBSET DOMAIN v -> Nat] :
           /\ w[{}] = 0
           /\ \A s \in SUBSET DOMAIN v : \A x \in s : w[s] = v[x] + w[s \ {x}]
           /\ SumOf(v) = w[DOMAIN v]
<1> DEFINE S == DOMAIN v
           c(s) == CHOOSE x \in s : TRUE
           body(g) == [s \in SUBSET S |-> IF s = {} THEN 0 ELSE v[c(s)] + g[s \ {c(s)}]]
           w == CHOOSE g : g = body(g)
<1>0. \E g : g = body(g)
  <2> DEFINE D(n) == {s \in SUBSET S : Cardinality(s) <= n}
             Solves(g, n) == g = [s \in D(n) |-> IF s = {} THEN 0 ELSE v[c(s)] + g[s \ {c(s)}]]
             Solvable(n) == \E g : Solves(g, n)
             G == {n \in Nat : Solvable(n)}
  <2>1. \A s \in SUBSET S : IsFiniteSet(s) /\ Cardinality(s) \in Nat /\ (Cardinality(s) = 0 <=> s = {})
    BY FS_Subset, FS_CardinalityType, FS_EmptySet
  <2>2. \A s \in SUBSET S : s # {} => c(s) \in s /\ s \ {c(s)} \in SUBSET S
    OBVIOUS
  <2>3. \A s \in SUBSET S : s # {} => Cardinality(s \ {c(s)}) = Cardinality(s) - 1
    BY <2>1, <2>2, FS_RemoveElement
  <2> HIDE DEF c
  <2>4. 0 \in G
    <3> DEFINE g == [s \in D(0) |-> 0]
    <3>1. \A s \in D(0) : s = {}
      BY <2>1
    <3>2. Solves(g, 0)
      BY <3>1
    <3> QED
      BY <3>2
  <2>5. \A n \in Nat : n \in G => n + 1 \in G
    <3> HIDE DEF Solvable
    <3> SUFFICES ASSUME NEW n \in Nat, Solvable(n) PROVE Solvable(n + 1)
      OBVIOUS
    <3> USE DEF Solvable
    <3>0. PICK g : Solves(g, n)
      OBVIOUS
    <3> DEFINE h == [s \in D(n + 1) |-> IF s = {} THEN 0 ELSE v[c(s)] + g[s \ {c(s)}]]
    <3>1. \A s \in D(n) : s \in D(n + 1) /\ g[s] = (IF s = {} THEN 0 ELSE v[c(s)] + g[s \ {c(s)}])
      <4>1. \A s \in D(n) : s \in D(n + 1)
        BY <2>1
      <4> HIDE DEF D
      <4> QED
        BY <3>0, <4>1
    <3>2. \A s \in D(n) : h[s] = g[s]
      BY <3>1
    <3>3. \A s \in D(n + 1) : s # {} => s \ {c(s)} \in D(n)
      BY <2>1, <2>2, <2>3
    <3>4. \A s \in D(n + 1) : s # {} => h[s \ {c(s)}] = g[s \ {c(s)}]
      BY <3>2, <3>3
    <3> DEFINE k == [s \in D(n + 1) |-> IF s = {} THEN 0 ELSE v[c(s)] + h[s \ {c(s)}]]
    <3>5. h = k
      BY <3>4
    <3> QED
      BY <3>5
  <2> HIDE DEF G
  <2>6. Cardinality(S) \in G
    BY <2>4, <2>5, NumberInduction, FS_CardinalityType
  <2>7. SUBSET S = D(Cardinality(S))
    BY FS_Subset
  <2> USE DEF G, c
  <2> QED
    BY <2>6, <2>7
<1>1. w = [s \in SUBSET S |-> IF s = {} THEN 0 ELSE v[c(s)] + w[s \ {c(s)}]]
  <2> HIDE DEF body
  <2>1. w = body(w)
    BY <1>0
  <2> USE DEF body
  <2> QED
    BY <2>1
<1>2. SumOf(v) = w[S]
  BY DEF SumOf, MapThenSumSet, MapThenFoldSet
<1> HIDE DEF w
<1>3. w[{}] = 0
  BY <1>1
<1>4. \A s \in SUBSET S : s # {} => c(s) \in s /\ w[s] = v[c(s)] + w[s \ {c(s)}]
  BY <1>1
<1> HIDE DEF c
<1>5. \A s \in SUBSET S : w[s] \in Nat
  <2> DEFINE G == {s \in SUBSET S : w[s] \in Nat}
  <2>1. ASSUME NEW s \in SUBSET S, \A x \in s : s \ {x} \in G
        PROVE  s \in G
    <3>1. CASE s = {}
      BY <1>3, <3>1
    <3>2. CASE s # {}
      <4>1. c(s) \in s /\ w[s] = v[c(s)] + w[s \ {c(s)}] /\ v[c(s)] \in Nat
        BY <1>4, <3>2
      <4>2. w[s \ {c(s)}] \in Nat
        BY <2>1, <4>1
      <4> QED
        BY <4>1, <4>2
    <3> QED
      BY <3>1, <3>2
  <2> HIDE DEF G
  <2>2. \A s \in SUBSET S : s \in G
    BY <2>1, SubsetInduction
  <2> USE DEF G
  <2> QED
    BY <2>2
<1>6. \A s \in SUBSET S : \A x \in s : w[s] = v[x] + w[s \ {x}]
  <2> DEFINE G == {s \in SUBSET S : \A x \in s : w[s] = v[x] + w[s \ {x}]}
  <2>1. ASSUME NEW s \in SUBSET S, \A x \in s : s \ {x} \in G
        PROVE  s \in G
    <3> SUFFICES ASSUME NEW x \in s, x # c(s)
                 PROVE  w[s] = v[x] + w[s \ {x}]
      BY <1>4
    <3> DEFINE r == s \ {x, c(s)}
    <3>1. c(s) \in s /\ w[s] = v[c(s)] + w[s \ {c(s)}]
      BY <1>4
    <3>2. w[s \ {c(s)}] = v[x] + w[r]
      <4>1. s \ {c(s)} \in G /\ x \in s \ {c(s)} /\ (s \ {c(s)}) \ {x} = r
        BY <2>1, <3>1
      <4> QED
        BY <4>1
    <3>3. w[s \ {x}] = v[c(s)] + w[r]
      <4>1. s \ {x} \in G /\ c(s) \in s \ {x} /\ (s \ {x}) \ {c(s)} = r
        BY <2>1, <3>1
      <4> QED
        BY <4>1
    <3>4. v[x] \in Nat /\ v[c(s)] \in Nat /\ w[r] \in Nat
      BY <1>5, <3>1
    <3> QED
      BY <3>1, <3>2, <3>3, <3>4
  <2> HIDE DEF G
  <2>2. \A s \in SUBSET S : s \in G
    BY <2>1, SubsetInduction
  <2> USE DEF G
  <2> QED
    BY <2>2
<1>7. w \in [SUBSET S -> Nat]
  BY <1>1, <1>5
<1> QED
  BY <1>2, <1>3, <1>6, <1>7

\* A sum of numbers is a number, and 0 only if each of them is.
LEMMA SumIsZero ==
  ASSUME NEW v, IsFiniteSet(DOMAIN v), \A x \in DOMAIN v : v[x] \in Nat
  PROVE  SumOf(v) \in Nat /\ (SumOf(v) = 0 <=> \A x \in DOMAIN v : v[x] = 0)
<1> DEFINE S == DOMAIN v
<1>1. PICK w \in [SUBSET S -> Nat] :
        /\ w[{}] = 0
        /\ \A s \in SUBSET S : \A x \in s : w[s] = v[x] + w[s \ {x}]
        /\ SumOf(v) = w[S]
  BY PartialSums
<1> DEFINE G == {s \in SUBSET S : w[s] = 0 <=> \A x \in s : v[x] = 0}
<1>2. ASSUME NEW s \in SUBSET S, \A x \in s : s \ {x} \in G
      PROVE  s \in G
  <2>1. CASE s = {}
    BY <1>1, <2>1
  <2>2. CASE s # {}
    <3>1. PICK x \in s : TRUE
      BY <2>2
    <3>2. w[s] = v[x] + w[s \ {x}] /\ v[x] \in Nat /\ w[s \ {x}] \in Nat
      BY <1>1, <3>1
    <3>3. w[s] = 0 <=> v[x] = 0 /\ w[s \ {x}] = 0
      BY <3>2
    <3>4. w[s \ {x}] = 0 <=> \A y \in s \ {x} : v[y] = 0
      BY <1>2, <3>1
    <3> QED
      BY <3>1, <3>3, <3>4
  <2> QED
    BY <2>1, <2>2
<1> HIDE DEF G
<1>3. \A s \in SUBSET S : s \in G
  BY <1>2, SubsetInduction
<1> USE DEF G
<1> QED
  BY <1>1, <1>3

\* The sum does not depend on what the numbers are filed under.
LEMMA SumRenamed ==
  ASSUME NEW v, IsFiniteSet(DOMAIN v), \A x \in DOMAIN v : v[x] \in Nat,
         NEW u, NEW m \in [DOMAIN v -> DOMAIN u], DOMAIN u = {m[x] : x \in DOMAIN v},
         \A x, y \in DOMAIN v : m[x] = m[y] => x = y,
         \A x \in DOMAIN v : u[m[x]] = v[x]
  PROVE  SumOf(u) = SumOf(v)
<1> DEFINE S == DOMAIN v
           T == DOMAIN u
           img(s) == {m[x] : x \in s}
<1>1. PICK w \in [SUBSET S -> Nat] :
        /\ w[{}] = 0
        /\ \A s \in SUBSET S : \A x \in s : w[s] = v[x] + w[s \ {x}]
        /\ SumOf(v) = w[S]
  BY PartialSums
<1>2. IsFiniteSet(T) /\ \A y \in T : u[y] \in Nat
  <2>1. m \in Surjection(S, T)
    BY DEF Surjection
  <2> QED
    BY <2>1, FS_Surjection
<1>3. PICK z \in [SUBSET T -> Nat] :
        /\ z[{}] = 0
        /\ \A s \in SUBSET T : \A x \in s : z[s] = u[x] + z[s \ {x}]
        /\ SumOf(u) = z[T]
  BY <1>2, PartialSums
<1> DEFINE G == {s \in SUBSET S : z[img(s)] = w[s]}
<1>4. ASSUME NEW s \in SUBSET S, \A x \in s : s \ {x} \in G
      PROVE  s \in G
  <2>1. CASE s = {}
    <3>1. img(s) = {}
      BY <2>1
    <3> QED
      BY <1>1, <1>3, <2>1, <3>1
  <2>2. CASE s # {}
    <3>1. PICK x \in s : TRUE
      BY <2>2
    <3>2. img(s) \in SUBSET T /\ m[x] \in img(s) /\ img(s) \ {m[x]} = img(s \ {x})
      BY <3>1
    <3> HIDE DEF img
    <3>3. w[s] = v[x] + w[s \ {x}]
      BY <1>1, <3>1
    <3>4. z[img(s)] = u[m[x]] + z[img(s) \ {m[x]}]
      BY ONLY <1>3, <3>2
    <3>5. z[img(s)] = u[m[x]] + z[img(s \ {x})]
      BY ONLY <3>2, <3>4
    <3> QED
      BY <1>4, <3>1, <3>3, <3>5
  <2> QED
    BY <2>1, <2>2
<1> HIDE DEF G
<1>5. \A s \in SUBSET S : s \in G
  BY <1>4, SubsetInduction
<1> USE DEF G
<1> QED
  BY <1>1, <1>3, <1>5

\* Rows counted set by set, none in two, are all of them counted once.
LEMMA SumOfParts ==
  ASSUME NEW P, IsFiniteSet(DOMAIN P), \A x \in DOMAIN P : IsFiniteSet(P[x]),
         \A x, y \in DOMAIN P : x # y => P[x] \cap P[y] = {}
  PROVE  SumOf([x \in DOMAIN P |-> Cardinality(P[x])]) = Cardinality(UNION {P[x] : x \in DOMAIN P})
<1> DEFINE S == DOMAIN P
           v == [x \in S |-> Cardinality(P[x])]
           all(s) == UNION {P[x] : x \in s}
<1>0. DOMAIN v = S /\ \A x \in S : v[x] \in Nat
  BY FS_CardinalityType
<1>1. PICK w \in [SUBSET S -> Nat] :
        /\ w[{}] = 0
        /\ \A s \in SUBSET S : \A x \in s : w[s] = v[x] + w[s \ {x}]
        /\ SumOf(v) = w[S]
  <2>1. IsFiniteSet(DOMAIN v) /\ \A x \in DOMAIN v : v[x] \in Nat
    BY <1>0
  <2>2. DOMAIN v = S
    BY <1>0
  <2> HIDE DEF v, S
  <2> QED
    BY <2>1, <2>2, PartialSums
<1> DEFINE G == {s \in SUBSET S : IsFiniteSet(all(s)) /\ w[s] = Cardinality(all(s))}
<1>2. ASSUME NEW s \in SUBSET S, \A x \in s : s \ {x} \in G
      PROVE  s \in G
  <2>1. CASE s = {}
    <3>1. all(s) = {}
      BY <2>1
    <3> HIDE DEF all
    <3> QED
      BY <1>1, <2>1, <3>1, FS_EmptySet
  <2>2. CASE s # {}
    <3>1. PICK x \in s : TRUE
      BY <2>2
    <3>2. all(s) = P[x] \cup all(s \ {x}) /\ P[x] \cap all(s \ {x}) = {}
      BY <3>1
    <3>3. IsFiniteSet(P[x]) /\ v[x] = Cardinality(P[x])
      BY <3>1
    <3> HIDE DEF all, v
    <3>4. IsFiniteSet(all(s \ {x})) /\ w[s \ {x}] = Cardinality(all(s \ {x}))
      BY <1>2, <3>1
    <3>5. IsFiniteSet(all(s)) /\ Cardinality(all(s)) = Cardinality(P[x]) + Cardinality(all(s \ {x}))
      <4>1. Cardinality(P[x] \cap all(s \ {x})) = 0
        BY <3>2, FS_EmptySet
      <4>2. Cardinality(P[x]) \in Nat /\ Cardinality(all(s \ {x})) \in Nat
        BY <3>3, <3>4, FS_CardinalityType
      <4>3. /\ IsFiniteSet(P[x] \cup all(s \ {x}))
            /\ Cardinality(P[x] \cup all(s \ {x})) =
                 Cardinality(P[x]) + Cardinality(all(s \ {x})) - Cardinality(P[x] \cap all(s \ {x}))
        BY <3>3, <3>4, FS_Union
      <4>4. IsFiniteSet(all(s)) /\ Cardinality(all(s)) =
              Cardinality(P[x]) + Cardinality(all(s \ {x})) - Cardinality(P[x] \cap all(s \ {x}))
        BY ONLY <3>2, <4>3, Zenon
      <4> QED
        BY ONLY <4>1, <4>2, <4>4
    <3> QED
      BY <1>1, <3>1, <3>3, <3>4, <3>5
  <2> QED
    BY <2>1, <2>2
<1> HIDE DEF G
<1>3. \A s \in SUBSET S : s \in G
  BY <1>2, SubsetInduction
<1> USE DEF G
<1> QED
  BY <1>1, <1>3
\* What has been kept of the first numbers up to m: the members of a set of
\* places, each once, in order.
Kept(r, m, places) ==
  /\ r \in Seq(Nat)
  /\ \A k \in 1..Len(r) : r[k] \in places /\ 1 <= r[k] /\ r[k] <= m
  /\ \A i \in 1..m : i \in places => \E k \in 1..Len(r) : r[k] = i
  /\ \A j, k \in 1..Len(r) : j < k => r[j] < r[k]

LEMMA KeptLonger ==
  ASSUME NEW m \in Nat, NEW places, NEW r, Kept(r, m, places)
  PROVE  Kept(IF m + 1 \in places THEN Append(r, m + 1) ELSE r, m + 1, places)
<1> USE DEF Kept
<1>1. CASE m + 1 \in places
  <2> DEFINE q == Append(r, m + 1)
  <2>1. /\ q \in Seq(Nat) /\ Len(q) = Len(r) + 1 /\ Len(r) \in Nat
        /\ \A k \in 1..Len(r) : q[k] = r[k]
        /\ q[Len(r) + 1] = m + 1
    BY AppendProperties
  <2> HIDE DEF q
  <2>2. Kept(q, m + 1, places)
    <3>1. \A k \in 1..Len(q) : k \in 1..Len(r) \/ k = Len(r) + 1
      BY <2>1
    <3>2. \A k \in 1..Len(r) : r[k] \in Nat
      OBVIOUS
    <3>3. \A k \in 1..Len(q) : q[k] \in places /\ 1 <= q[k] /\ q[k] <= m + 1
      BY <1>1, <2>1, <3>1, <3>2
    <3>4. \A i \in 1..(m + 1) : i \in places => \E k \in 1..Len(q) : q[k] = i
      <4> SUFFICES ASSUME NEW i \in 1..(m + 1), i \in places PROVE \E k \in 1..Len(q) : q[k] = i
        OBVIOUS
      <4>1. CASE i = m + 1
        BY <2>1, <4>1
      <4>2. CASE i # m + 1
        <5>1. PICK k \in 1..Len(r) : r[k] = i
          BY <4>2
        <5> QED
          BY <2>1, <5>1
      <4> QED
        BY <4>1, <4>2
    <3>5. \A j, k \in 1..Len(q) : j < k => q[j] < q[k]
      <4> SUFFICES ASSUME NEW j \in 1..Len(q), NEW k \in 1..Len(q), j < k PROVE q[j] < q[k]
        OBVIOUS
      <4>1. j \in 1..Len(r) /\ q[j] = r[j] /\ r[j] \in Nat /\ r[j] <= m
        BY <2>1, <3>1, <3>2
      <4>2. CASE k = Len(r) + 1
        BY <2>1, <4>1, <4>2
      <4>3. CASE k \in 1..Len(r)
        BY <2>1, <4>1, <4>3
      <4> QED
        BY <3>1, <4>2, <4>3
    <3> QED
      BY <2>1, <3>3, <3>4, <3>5
  <2> QED
    BY <1>1, <2>2 DEF q
<1>2. CASE m + 1 \notin places
  <2>1. \A k \in 1..Len(r) : r[k] <= m + 1
    OBVIOUS
  <2>2. \A i \in 1..(m + 1) : i \in places => i \in 1..m
    BY <1>2
  <2> QED
    BY <1>2, <2>1, <2>2
<1> QED
  BY <1>1, <1>2

\* A filtering loop keeps just the places it was given, each once, in order.
LEMMA InOrderKept ==
  ASSUME NEW n \in Nat, NEW places
  PROVE  Kept(InOrder(n, places), n, places)
<1> DEFINE step(r, i) == IF i \in places THEN Append(r, i) ELSE r
           D(m) == 0..m
           body(g, m) == [i \in D(m) |-> IF i = 0 THEN <<>> ELSE step(g[i - 1], i)]
           Solves(g, m) == g = body(g, m)
           G == {m \in Nat : \E g : Solves(g, m)}
<1>1. 0 \in G
  <2> DEFINE g == [i \in D(0) |-> <<>>]
  <2>1. Solves(g, 0)
    OBVIOUS
  <2> QED
    BY <2>1
<1>2. ASSUME NEW m \in Nat, m \in G PROVE m + 1 \in G
  <2>1. PICK g : Solves(g, m)
    BY <1>2
  <2> DEFINE h == [i \in D(m + 1) |-> IF i = m + 1 THEN step(g[m], m + 1) ELSE g[i]]
  <2>3. \A i \in D(m) : i \in D(m + 1) /\ i # m + 1 /\ (i # 0 => i - 1 \in D(m)) /\ g[i] = IF i = 0 THEN <<>> ELSE step(g[i - 1], i)
    <3>1. \A i \in D(m) : g[i] = IF i = 0 THEN <<>> ELSE step(g[i - 1], i)
      <4> HIDE DEF step
      <4> QED
        BY <2>1
    <3> QED
      BY <3>1
  <2>4. m \in D(m) /\ m + 1 \in D(m + 1) /\ m + 1 # 0 /\ (m + 1) - 1 = m /\ D(m + 1) = D(m) \cup {m + 1}
    OBVIOUS
  <2> HIDE DEF step, D
  <2>5. h[m + 1] = step(g[m], m + 1) /\ \A i \in D(m) : h[i] = g[i]
    BY <2>3, <2>4
  <2>6. h = body(h, m + 1)
    <3> SUFFICES ASSUME NEW i \in D(m + 1) PROVE h[i] = IF i = 0 THEN <<>> ELSE step(h[i - 1], i)
      OBVIOUS
    <3>1. CASE i = m + 1
      BY <2>4, <2>5, <3>1
    <3>2. CASE i \in D(m)
      <4>1. h[i] = IF i = 0 THEN <<>> ELSE step(g[i - 1], i)
        BY <2>3, <2>5, <3>2
      <4>2. i # 0 => h[i - 1] = g[i - 1]
        BY <2>3, <2>5, <3>2
      <4> QED
        BY <4>1, <4>2
    <3> QED
      BY <2>4, <3>1, <3>2
  <2> HIDE DEF h
  <2>8. Solves(h, m + 1)
    BY <2>6
  <2> QED
    BY <2>8
<1> HIDE DEF G
<1>3. n \in G
  BY <1>1, <1>2, NumberInduction
<1> USE DEF G
<1>4. PICK g : Solves(g, n)
  BY <1>3
<1> DEFINE kept == CHOOSE f : f = body(f, n)
<1>5. kept = body(kept, n)
  <2> HIDE DEF body
  <2> QED
    BY <1>4
<1> HIDE DEF kept
<1>6. Kept(kept[n], n, places)
  <2> DEFINE H == {j \in Nat : j \in 0..n => Kept(kept[j], j, places)}
  <2>1. 0 \in H
    <3>1. Kept(<<>>, 0, places)
      BY DEF Kept
    <3>2. kept[0] = <<>>
      <4> HIDE DEF step
      <4> QED
        BY <1>5
    <3> QED
      BY <3>1, <3>2
  <2>2. ASSUME NEW j \in Nat, j \in H PROVE j + 1 \in H
    <3> SUFFICES ASSUME j + 1 \in 0..n PROVE Kept(kept[j + 1], j + 1, places)
      OBVIOUS
    <3>1. kept[j + 1] = step(kept[j], j + 1)
      <4>1. j + 1 # 0 /\ (j + 1) - 1 = j
        OBVIOUS
      <4> HIDE DEF step
      <4> QED
        BY <1>5, <4>1
    <3>2. Kept(kept[j], j, places)
      BY <2>2
    <3> QED
      BY <3>1, <3>2, KeptLonger
  <2> HIDE DEF H
  <2>3. \A j \in Nat : j \in H
    BY <2>1, <2>2, NumberInduction
  <2> QED
    BY <2>3 DEF H
<1>7. InOrder(n, places) = kept[n]
  BY DEF InOrder, kept
<1> QED
  BY <1>6, <1>7
\* Lists laid end to end are a list.
LEMMA FlattenIsList ==
  ASSUME NEW S, NEW seqs \in Seq(Seq(S))
  PROVE  FlattenSeq(seqs) \in Seq(S)
<1> DEFINE n == Len(seqs)
           D(m) == 1..m
           step(g, i) == IF i = 1 THEN seqs[i] ELSE g[i - 1] \o seqs[i]
           Solves(g, m) == g = [i \in D(m) |-> step(g, i)]
           G == {m \in Nat : \E g : Solves(g, m)}
<1>1. n \in Nat /\ \A i \in 1..n : seqs[i] \in Seq(S)
  OBVIOUS
<1>2. 0 \in G
  <2> DEFINE g == [i \in D(0) |-> <<>>]
  <2>1. Solves(g, 0)
    OBVIOUS
  <2> QED
    BY <2>1
<1>3. ASSUME NEW m \in Nat, m \in G PROVE m + 1 \in G
  <2>1. PICK g : Solves(g, m)
    BY <1>3
  <2> DEFINE h == [i \in D(m + 1) |-> IF i = m + 1 THEN step(g, m + 1) ELSE g[i]]
  <2>2. D(m + 1) = D(m) \cup {m + 1} /\ m + 1 \notin D(m) /\ \A i \in D(m + 1) : i # 1 => i - 1 \in D(m)
    OBVIOUS
  <2>3. \A i \in D(m) : g[i] = step(g, i)
    <3> HIDE DEF step
    <3> QED
      BY <2>1
  <2> HIDE DEF D
  <2>4. \A i \in D(m) : h[i] = g[i]
    BY <2>2
  <2>5. \A i \in D(m + 1) : step(h, i) = step(g, i)
    BY <2>2, <2>4
  <2>6. h[m + 1] = step(g, m + 1)
    BY <2>2
  <2> HIDE DEF step
  <2>7. \A i \in D(m + 1) : h[i] = step(h, i)
    BY <2>2, <2>3, <2>4, <2>5, <2>6
  <2>8. Solves(h, m + 1)
    BY <2>7
  <2> HIDE DEF Solves, h
  <2> QED
    BY <2>8
<1> HIDE DEF G
<1>4. n \in G
  BY <1>1, <1>2, <1>3, NumberInduction
<1> USE DEF G
<1>5. PICK g : Solves(g, n)
  BY <1>4
<1> DEFINE flatten == CHOOSE f : Solves(f, n)
<1>6. Solves(flatten, n)
  <2> HIDE DEF Solves
  <2> QED
    BY <1>5
<1> HIDE DEF flatten
<1> DEFINE H == {m \in Nat : m \in D(n) => flatten[m] \in Seq(S)}
<1>7. 0 \in H
  OBVIOUS
<1>8. ASSUME NEW m \in Nat, m \in H PROVE m + 1 \in H
  <2> SUFFICES ASSUME m + 1 \in D(n) PROVE flatten[m + 1] \in Seq(S)
    OBVIOUS
  <2>1. flatten[m + 1] = step(flatten, m + 1)
    <3> HIDE DEF step
    <3> QED
      BY <1>6
  <2>2. m + 1 # 1 => m \in D(n) /\ (m + 1) - 1 = m
    BY <1>1
  <2> QED
    BY <1>1, <1>8, <2>1, <2>2
<1> HIDE DEF H
<1>9. n \in H
  BY <1>1, <1>7, <1>8, NumberInduction
<1> USE DEF H
<1>10. CASE n = 0
  <2>1. FlattenSeq(seqs) = seqs /\ seqs = <<>>
    BY <1>10 DEF FlattenSeq
  <2> QED
    BY <2>1
<1>11. CASE n # 0
  <2>1. FlattenSeq(seqs) = flatten[n]
    BY <1>11 DEF FlattenSeq, flatten
  <2> QED
    BY <1>1, <1>9, <1>11, <2>1
<1> QED
  BY <1>10, <1>11

\* Any set of numbers has a least one, and a finite one a greatest.
LEMMA LeastNumber ==
  ASSUME NEW P, P \subseteq Nat, P # {}
  PROVE  Min(P) \in P /\ \A y \in P : Min(P) <= y
<1> DEFINE R == {ss \in Nat \X Nat : ss[1] < ss[2]}
<1>1. IsWellFoundedOn(R, Nat)
  BY NatLessThanWellFounded DEF OpToRel
<1> HIDE DEF R
<1>2. PICK x \in P : \A y \in P : <<y, x>> \notin R
  BY <1>1, WFMin
<1> USE DEF R
<1>3. ASSUME NEW y \in P PROVE x <= y
  <2>1. x \in Nat /\ y \in Nat
    OBVIOUS
  <2>2. <<y, x>> \in R <=> y < x
    BY <2>1
  <2> HIDE DEF R
  <2> QED
    BY <1>2, <2>1, <2>2
<1> QED
  BY <1>3 DEF Min

LEMMA GreatestNumber ==
  ASSUME NEW P, P \subseteq Nat, P # {}, IsFiniteSet(P)
  PROVE  Max(P) \in P /\ \A y \in P : y <= Max(P)
<1> DEFINE G == {s \in SUBSET P : s = {} \/ \E x \in s : \A y \in s : y <= x}
<1>1. ASSUME NEW s \in SUBSET P, \A x \in s : s \ {x} \in G PROVE s \in G
  <2> SUFFICES ASSUME s # {} PROVE \E x \in s : \A y \in s : y <= x
    OBVIOUS
  <2>1. PICK a \in s : TRUE
    OBVIOUS
  <2>2. CASE s \ {a} = {}
    BY <2>1, <2>2
  <2>3. CASE s \ {a} # {}
    <3>1. PICK b \in s \ {a} : \A y \in s \ {a} : y <= b
      BY <1>1, <2>1, <2>3
    <3>2. a \in Nat /\ b \in Nat /\ \A y \in s : y \in Nat
      OBVIOUS
    <3> QED
      BY <3>1, <3>2
  <2> QED
    BY <2>2, <2>3
<1> HIDE DEF G
<1>2. P \in G
  BY <1>1, SubsetInduction
<1> USE DEF G
<1>3. PICK x \in P : \A y \in P : y <= x
  BY <1>2
<1>4. \E z \in P : \A y \in P : z >= y
  BY <1>3
<1>5. Max(P) \in P /\ \A y \in P : Max(P) >= y
  BY <1>4, Zenon DEF Max
<1> QED
  BY <1>5

\* Keeping the first of each kind: every kind is kept, and once.
FirstOfEach(n, A, key, places) ==
  /\ n \in Nat /\ A \subseteq 1..n /\ places \subseteq A
  /\ \A i \in A : i \in places <=> ~ \E j \in 1..(i - 1) : j \in A /\ key[j] = key[i]

KeepsEach(r, A, key) ==
  /\ DOMAIN r = 1..Len(r) /\ Len(r) \in Nat
  /\ \A k \in DOMAIN r : r[k] \in A
  /\ \A i \in A : \E k \in DOMAIN r : key[r[k]] = key[i]
  /\ \A j, k \in DOMAIN r : key[r[j]] = key[r[k]] => j = k

LEMMA FirstsKept ==
  ASSUME NEW n, NEW A, NEW key, NEW places, FirstOfEach(n, A, key, places)
  PROVE  KeepsEach(InOrder(n, places), A, key)
<1> DEFINE r == InOrder(n, places)
<1> USE DEF FirstOfEach
<1>0. Kept(r, n, places) /\ A \subseteq Nat
  BY InOrderKept
<1> HIDE DEF r
<1>1. /\ r \in Seq(Nat)
      /\ \A k \in 1..Len(r) : r[k] \in places /\ 1 <= r[k] /\ r[k] <= n
      /\ \A i \in 1..n : i \in places => \E k \in 1..Len(r) : r[k] = i
      /\ \A j, k \in 1..Len(r) : j < k => r[j] < r[k]
  BY <1>0 DEF Kept
<1>2. DOMAIN r = 1..Len(r) /\ Len(r) \in Nat
  BY <1>1
<1>3. \A k \in DOMAIN r : r[k] \in A
  BY <1>1, <1>2
<1>4. ASSUME NEW i \in A PROVE \E k \in DOMAIN r : key[r[k]] = key[i]
  <2> DEFINE P == {j \in A : key[j] = key[i]}
             f == Min(P)
  <2>1. f \in P /\ \A j \in P : f <= j
    <3>1. P \subseteq Nat /\ P # {}
      BY <1>0
    <3> HIDE DEF P
    <3> QED
      BY <3>1, LeastNumber
  <2> HIDE DEF f
  <2>2. f \in places
    <3>1. f \in A /\ f \in 1..n /\ key[f] = key[i] /\ \A j \in A : key[j] = key[i] => f <= j
      BY <2>1
    <3>2. \A j \in 1..(f - 1) : ~ (f <= j)
      BY <3>1
    <3> QED
      BY <3>1, <3>2
  <2>3. PICK k \in 1..Len(r) : r[k] = f
    BY <1>1, <2>1, <2>2
  <2> QED
    BY <1>2, <2>1, <2>3
<1>5. ASSUME NEW j \in DOMAIN r, NEW k \in DOMAIN r, key[r[j]] = key[r[k]] PROVE j = k
  <2>1. ASSUME NEW a \in DOMAIN r, NEW b \in DOMAIN r, key[r[a]] = key[r[b]], a < b PROVE FALSE
    <3>1. r[a] \in A /\ r[b] \in places /\ r[a] \in Nat /\ r[b] \in Nat /\ 1 <= r[a] /\ r[a] < r[b]
      BY <1>0, <1>1, <1>2, <1>3, <2>1
    <3>2. r[a] \in 1..(r[b] - 1)
      BY <3>1
    <3> QED
      BY <2>1, <3>1, <3>2
  <2>2. j \in Nat /\ k \in Nat
    BY <1>2
  <2> QED
    BY <1>5, <2>1, <2>2
<1> QED
  BY <1>2, <1>3, <1>4, <1>5 DEF KeepsEach, r

-----------------------------------------------------------------------------
(* One result, in every format                                             *)

\* Every finding has a rank, and "any" is past them all.
LEMMA Ranked ==
  ASSUME NEW res, WellFormed(res), NEW f \in res.findings
  PROVE  RankOf(f) \in 0..5 /\ RankOf(f) <= AnyRank
<1>1. f.sev \in {"", "CRITICAL", "HIGH", "UNKNOWN", "MEDIUM", "LOW", "NONE"}
  <2>1. f.sev \in {""} \cup {Labels[i] : i \in DOMAIN Labels}
    BY DEF WellFormed
  <2>2. \A i \in DOMAIN Labels : Labels[i] \in {"CRITICAL", "HIGH", "UNKNOWN", "MEDIUM", "LOW", "NONE"}
    BY DEF Labels
  <2> QED
    BY <2>1, <2>2
<1>2. Display(f.sev) \in {"CRITICAL", "HIGH", "UNKNOWN", "MEDIUM", "LOW", "NONE"}
  BY <1>1 DEF Display
<1>3. \E r \in 0..5 : Labels[r + 1] = Display(f.sev)
  <2>1. /\ Labels[0 + 1] = "CRITICAL" /\ Labels[1 + 1] = "HIGH" /\ Labels[2 + 1] = "UNKNOWN"
        /\ Labels[3 + 1] = "MEDIUM" /\ Labels[4 + 1] = "LOW" /\ Labels[5 + 1] = "NONE"
    BY DEF Labels
  <2> QED
    BY <1>2, <2>1
<1>4. Rank(Display(f.sev)) \in 0..5
  BY <1>3 DEF Rank
<1>5. AnyRank = 7
  BY DEF AnyRank, Labels
<1> QED
  BY <1>4, <1>5 DEF RankOf

\* A finding is in one section, by its status and what a vendor says.
LEMMA Bucketed ==
  ASSUME NEW f
  PROVE  /\ BucketOf(f) = "AFFECTED" <=> Affected(f) /\ ~AlreadyVexed(f)
         /\ BucketOf(f) = "RULED OUT" <=> RuledOut(f)
         /\ BucketOf(f) = "UNDETERMINED" <=> ~Affected(f) /\ ~RuledOut(f)
         /\ BucketOf(f) \in {Buckets[i] : i \in 1..4}
<1>1. ~ (Affected(f) /\ RuledOut(f))
  BY DEF Affected, RuledOut
<1>2. {Buckets[i] : i \in 1..4} = {"AFFECTED", "ALREADY VEXED", "UNDETERMINED", "RULED OUT"}
  <2>1. \A i \in 1..4 : i = 1 \/ i = 2 \/ i = 3 \/ i = 4
    OBVIOUS
  <2>2. /\ Buckets[1] = "AFFECTED" /\ Buckets[2] = "ALREADY VEXED"
        /\ Buckets[3] = "UNDETERMINED" /\ Buckets[4] = "RULED OUT"
    BY DEF Buckets
  <2>3. 1 \in 1..4 /\ 2 \in 1..4 /\ 3 \in 1..4 /\ 4 \in 1..4
    OBVIOUS
  <2> QED
    BY ONLY <2>1, <2>2, <2>3
<1> QED
  BY <1>1, <1>2 DEF BucketOf

LEMMA FormatsDoAgree ==
  ASSUME NEW res, WellFormed(res)
  PROVE  FormatsAgree(res)
<1> DEFINE open == {f \in res.findings : Affected(f) /\ ~AlreadyVexed(f)}
<1>1. open = Open(res)
  BY Bucketed DEF Open
<1>2. Remediation(res).total = Cardinality(Open(res))
  BY <1>1 DEF Remediation
<1>3. FixPlan(res).fixable \cup FixPlan(res).noFix = Open(res) /\ FixPlan(res).fixable \cap FixPlan(res).noFix = {}
  <2>1. FixPlan(res).fixable = {f \in open : f.fix > 0} /\ FixPlan(res).noFix = open \ {f \in open : f.fix > 0}
    BY DEF FixPlan
  <2> HIDE DEF open
  <2> QED
    BY <1>1, <2>1
<1>4. FixPlan(res).undetermined = {f \in res.findings : BucketOf(f) = "UNDETERMINED"}
  BY Bucketed DEF FixPlan
<1>5. Evaluate([rank |-> AnyRank, classes |-> {"affected"}], res).tripped = Cardinality(Open(res))
  <2> DEFINE counted == {f \in res.findings : Classify(f) \in {"affected"}}
  <2>1. counted = open
    BY DEF Classify
  <2>2. {f \in counted : RankOf(f) <= AnyRank} = open
    BY <2>1, Ranked
  <2> QED
    BY <1>1, <2>2 DEF Evaluate
<1>6. {s.of : s \in {s \in Sarif(res) : s.suppressed}} = {f \in res.findings : BucketOf(f) = "RULED OUT"}
  <2>1. \A f : Suppressed(f) <=> BucketOf(f) = "RULED OUT"
    BY Bucketed DEF Suppressed, RuledOut
  <2>2. \A f \in res.findings : [rule |-> f.id, of |-> f, level |-> Level(f), suppressed |-> Suppressed(f)] \in Sarif(res)
    BY DEF Sarif
  <2>3. \A s \in Sarif(res) : s.of \in res.findings /\ s.suppressed = Suppressed(s.of)
    BY DEF Sarif
  <2>4. ASSUME NEW f \in res.findings, BucketOf(f) = "RULED OUT"
        PROVE  \E s \in Sarif(res) : s.suppressed /\ s.of = f
    <3>1. [rule |-> f.id, of |-> f, level |-> Level(f), suppressed |-> Suppressed(f)].suppressed = Suppressed(f)
      OBVIOUS
    <3> QED
      BY <2>1, <2>2, <2>4, <3>1
  <2>5. ASSUME NEW x \in {s.of : s \in {s \in Sarif(res) : s.suppressed}}
        PROVE  x \in res.findings /\ BucketOf(x) = "RULED OUT"
    <3>1. PICK s \in Sarif(res) : s.suppressed /\ x = s.of
      BY <2>5
    <3> QED
      BY <2>1, <2>3, <3>1
  <2> QED
    BY ONLY <2>4, <2>5
<1> QED
  BY <1>2, <1>3, <1>4, <1>5, <1>6 DEF FormatsAgree

\* A row of the plan is a package at the newest fix of its findings.
LEMMA UpgradeOf ==
  ASSUME NEW res, WellFormed(res), NEW dpkg, NEW F, F \subseteq res.findings, NEW f \in F,
         \A g \in F : SameUpgrade(dpkg, f, g)
  PROVE  LET u == Upgrade(dpkg, F) IN
         /\ u.eco = f.eco /\ u.comp = f.comp /\ u.version = f.version
         /\ u.advisories = {g.id : g \in F}
         /\ IF f.eco \in dpkg THEN \A g \in F : u.fixedIn >= g.fix ELSE u.fixedIn = f.fix
         /\ u.top <= RankOf(f) /\ (f.kev => u.kev)
<1> DEFINE some == CHOOSE g \in F : TRUE
           u == Upgrade(dpkg, F)
<1>1. some \in F
  OBVIOUS
<1>2. /\ u.eco = some.eco /\ u.comp = some.comp /\ u.version = some.version
      /\ u.fixedIn = IF some.eco \in dpkg THEN Max({g.fix : g \in F}) ELSE some.fix
      /\ u.advisories = {g.id : g \in F}
      /\ u.top = Min({RankOf(g) : g \in F}) /\ u.kev = \E g \in F : g.kev
  BY DEF Upgrade
<1> HIDE DEF some, u
<1>3. f.eco = some.eco /\ f.comp = some.comp /\ f.version = some.version /\ (f.eco \in dpkg \/ f.fix = some.fix)
  BY <1>1 DEF SameUpgrade
<1>4. {g.fix : g \in F} \subseteq Nat /\ IsFiniteSet({g.fix : g \in F})
  <2>1. IsFiniteSet(F) /\ \A g \in F : g.fix \in Nat
    BY FS_Subset DEF WellFormed
  <2> DEFINE fixOf == [g \in F |-> g.fix]
  <2>2. fixOf \in Surjection(F, {g.fix : g \in F})
    BY DEF Surjection
  <2>3. IsFiniteSet({g.fix : g \in F})
    <3> HIDE DEF fixOf
    <3> QED
      BY <2>1, <2>2, FS_Surjection
  <2> QED
    BY <2>1, <2>3
<1>5. \A g \in F : Max({h.fix : h \in F}) >= g.fix
  <2> DEFINE P == {h.fix : h \in F}
  <2>1. P \subseteq Nat /\ P # {} /\ IsFiniteSet(P) /\ \A g \in F : g.fix \in P
    BY <1>1, <1>4
  <2> HIDE DEF P
  <2>2. Max(P) \in P /\ \A y \in P : y <= Max(P)
    BY <2>1, GreatestNumber
  <2> QED
    BY <2>1, <2>2 DEF P
<1>6. Min({RankOf(g) : g \in F}) <= RankOf(f)
  <2> DEFINE P == {RankOf(g) : g \in F}
  <2>1. P \subseteq Nat /\ RankOf(f) \in P
    BY Ranked
  <2> HIDE DEF P
  <2>2. \A y \in P : Min(P) <= y
    BY <2>1, LeastNumber
  <2> QED
    BY <2>1, <2>2 DEF P
<1> QED
  BY <1>2, <1>3, <1>5, <1>6 DEF u

LEMMA PlanDoesClear ==
  ASSUME NEW res, WellFormed(res)
  PROVE  PlanClears(res)
<1> DEFINE dpkg == DpkgPlugins(res)
           F == FixPlan(res).fixable
           group(f) == {g \in F : SameUpgrade(dpkg, f, g)}
<1>1. F \subseteq res.findings /\ FixPlan(res).upgrades = {Upgrade(dpkg, group(f)) : f \in F}
  BY DEF FixPlan, GroupUpgrades
<1> HIDE DEF dpkg, F
<1>2. \A f \in F : f \in group(f) /\ group(f) \subseteq res.findings /\ \A g \in group(f) : SameUpgrade(dpkg, f, g)
  BY <1>1 DEF SameUpgrade
<1>3. ASSUME NEW f \in F
      PROVE  LET u == Upgrade(dpkg, group(f)) IN
             /\ u.eco = f.eco /\ u.comp = f.comp /\ u.version = f.version
             /\ u.advisories = {g.id : g \in group(f)}
             /\ IF f.eco \in dpkg THEN u.fixedIn >= f.fix ELSE u.fixedIn = f.fix
             /\ u.top <= RankOf(f) /\ (f.kev => u.kev)
  <2>1. f \in group(f) /\ group(f) \subseteq res.findings /\ \A g \in group(f) : SameUpgrade(dpkg, f, g)
    BY <1>2
  <2> HIDE DEF group
  <2> QED
    BY <2>1, UpgradeOf
<1>4. ASSUME NEW f \in F
      PROVE  \E u \in FixPlan(res).upgrades :
               /\ u.eco = f.eco /\ u.comp = f.comp /\ u.version = f.version /\ f.id \in u.advisories
               /\ IF f.eco \in dpkg THEN u.fixedIn >= f.fix ELSE u.fixedIn = f.fix
               /\ u.top <= RankOf(f) /\ (f.kev => u.kev)
  <2>1. f \in group(f) /\ Upgrade(dpkg, group(f)) \in FixPlan(res).upgrades
    BY <1>1, <1>2
  <2> HIDE DEF group
  <2> QED
    BY <1>3, <2>1
<1>5. ASSUME NEW u \in FixPlan(res).upgrades, NEW a \in u.advisories
      PROVE  \E f \in F : f.id = a /\ f.eco = u.eco /\ f.comp = u.comp /\ f.version = u.version
  <2>1. PICK f \in F : u = Upgrade(dpkg, group(f))
    BY <1>1
  <2>2. /\ u.eco = f.eco /\ u.comp = f.comp /\ u.version = f.version
        /\ u.advisories = {g.id : g \in group(f)}
    <3> HIDE DEF group
    <3> QED
      BY <1>3, <2>1
  <2>3. PICK g \in group(f) : g.id = a
    BY <2>2
  <2> QED
    BY <2>2, <2>3 DEF SameUpgrade
<1> QED
  BY <1>4, <1>5 DEF PlanClears, F, dpkg

LEMMA GateDoesAgree ==
  ASSUME NEW res, WellFormed(res)
  PROVE  GateAgrees(res)
<1> SUFFICES ASSUME NEW f \in res.findings
             PROVE  \/ BucketOf(f) = CASE Classify(f) = "affected" -> "AFFECTED" [] Classify(f) = "vexed" -> "ALREADY VEXED"
                                       [] Classify(f) = "undetermined" -> "UNDETERMINED" [] Classify(f) = "cleared" -> "RULED OUT"
                    \/ ~Affected(f) /\ Classify(f) = "vexed"
  BY DEF GateAgrees
<1>1. f.status \in {"linked", "reachable", "undetermined", "not_present", "not_in_execute_path"}
  BY DEF WellFormed
<1>2. CASE AlreadyVexed(f)
  BY <1>2 DEF Classify, BucketOf
<1>3. CASE ~AlreadyVexed(f) /\ Affected(f)
  BY <1>3 DEF Classify, BucketOf
<1>4. CASE ~AlreadyVexed(f) /\ ~Affected(f) /\ f.status = "undetermined"
  <2>1. ~RuledOut(f)
    BY <1>4 DEF RuledOut
  <2> QED
    BY <1>4, <2>1 DEF Classify, BucketOf
<1>5. CASE ~AlreadyVexed(f) /\ ~Affected(f) /\ f.status # "undetermined"
  <2>1. RuledOut(f)
    BY <1>1, <1>5 DEF RuledOut, Affected
  <2> QED
    BY <1>5, <2>1 DEF Classify, BucketOf
<1> QED
  BY <1>2, <1>3, <1>4, <1>5

\* The text of a well-formed result claims no more than the scan found.
LEMMA TextIsNoCleaner ==
  ASSUME NEW res, WellFormed(res)
  PROVE  TextLooksNoCleaner(res)
<1> DEFINE text == Text(res)
<1>0. res.unreadable \in Nat /\ res.withheld \in Nat /\ res.unfixed \in Nat
  BY DEF WellFormed
<1>1. /\ text.body = (IF res.findings = {} THEN NoFindings(res) ELSE "sections")
      /\ text.notes = Notes(res) /\ text.incomplete = Incomplete(res)
      /\ text.exploited = (IF res.triage.on THEN Exploited(res) ELSE "unsaid")
  BY DEF Text
<1> HIDE DEF text
<1>2. text.body = "clean" => ~Failed(res) /\ res.withheld = 0 /\ res.unfixed = 0
  BY <1>0, <1>1 DEF NoFindings
<1>3. ASSUME text.body \in {"sections", "filtered"}, res.withheld + res.unfixed > 0
      PROVE  text.body = "filtered" \/ text.notes \cap {"severity", "fixed-only"} # {}
  <2>1. CASE res.findings = {}
    <3>1. text.body # "sections"
      BY <1>1, <2>1 DEF NoFindings
    <3> QED
      BY <1>3, <3>1
  <2>2. CASE res.findings # {}
    <3>1. res.withheld > 0 \/ res.unfixed > 0
      BY <1>0, <1>3
    <3>2. res.withheld > 0 => "severity" \in Notes(res)
      BY <2>2 DEF Notes
    <3>3. res.unfixed > 0 => "fixed-only" \in Notes(res)
      BY <2>2 DEF Notes
    <3> QED
      BY <1>1, <3>1, <3>2, <3>3
  <2> QED
    BY <2>1, <2>2
<1>4. Failed(res) => text.incomplete # {}
  BY <1>1 DEF Failed, Incomplete
<1>5. text.exploited = "none" => res.triage.kevRead /\ \A f \in res.findings : ~f.kev
  BY <1>1 DEF Exploited
<1> QED
  BY <1>2, <1>3, <1>4, <1>5 DEF TextLooksNoCleaner, text

\* Each finding of an ecosystem is in that ecosystem's row, and in no other.
LEMMA SummaryDoesAgree ==
  ASSUME NEW res, WellFormed(res)
  PROVE  SummaryAgrees(res)
<1> DEFINE rows == SummaryRows(res)
           went == {e \in res.ecosystems : ~e.failed}
           of(id) == {f \in res.findings : f.eco = id}
           row(e) == [id |-> e.id, components |-> e.components, counts |-> Counts(of(e.id))]
           named == {f \in res.findings : f.eco # ""}
           bs == {Buckets[i] : i \in 1..4}
<1>1. DOMAIN NoCounts = bs /\ \A F : Counts(F) = [b \in bs |-> Cardinality({f \in F : BucketOf(f) = b})]
  BY DEF NoCounts, Counts
<1>2. rows = {r \in {row(e) : e \in went} : r.components > 0 \/ r.counts # NoCounts}
  BY DEF SummaryRows
<1>3. ASSUME NEW r \in rows
      PROVE  r.counts = Counts(of(r.id)) /\ r.id # "" /\ \E e \in went : r = row(e)
  <2>1. PICK e \in went : r = row(e)
    BY <1>2
  <2>2. e.id # ""
    BY DEF WellFormed
  <2> QED
    BY <2>1, <2>2
<1>4. ASSUME NEW r \in rows, NEW q \in rows, r # q PROVE r.id # q.id
  <2>1. PICK e \in went : r = row(e)
    BY <1>3
  <2>2. PICK d \in went : q = row(d)
    BY <1>3
  <2>3. e # d => e.id # d.id
    BY DEF WellFormed
  <2> QED
    BY <1>4, <2>1, <2>2, <2>3
<1>5. ASSUME NEW f \in named PROVE \E r \in rows : r.id = f.eco
  <2>1. PICK e \in went : e.id = f.eco
    BY DEF WellFormed
  <2>2. row(e).id = f.eco /\ row(e).counts = Counts(of(f.eco))
    BY <2>1
  <2>3. Counts(of(f.eco)) # NoCounts
    <3> DEFINE b == BucketOf(f)
               here == {g \in of(f.eco) : BucketOf(g) = b}
    <3>1. b \in bs
      BY Bucketed
    <3>2. Counts(of(f.eco))[b] = Cardinality(here) /\ NoCounts[b] = Cardinality({g \in {} : BucketOf(g) = b})
      BY <1>1, <3>1 DEF NoCounts
    <3>3. f \in here /\ IsFiniteSet(here)
      <4>1. here \subseteq res.findings
        OBVIOUS
      <4> QED
        BY <4>1, FS_Subset DEF WellFormed
    <3>4. Cardinality(here) # 0
      BY <3>3, FS_EmptySet
    <3>5. Cardinality({g \in {} : BucketOf(g) = b}) = 0
      BY FS_EmptySet
    <3> QED
      BY <3>2, <3>4, <3>5
  <2> QED
    BY <1>2, <2>1, <2>2, <2>3
<1>6. IsFiniteSet(rows)
  <2>1. IsFiniteSet(went)
    BY FS_Subset DEF WellFormed
  <2> DEFINE rowOf == [e \in went |-> row(e)]
  <2>2. IsFiniteSet({row(e) : e \in went})
    <3> HIDE DEF went, row
    <3>1. rowOf \in Surjection(went, {row(e) : e \in went})
      BY DEF Surjection
    <3> HIDE DEF rowOf
    <3> QED
      BY <2>1, <3>1, FS_Surjection
  <2> QED
    BY <1>2, <2>2, FS_Subset
<1>7. ASSUME NEW b \in bs
      PROVE  SumOf([r \in rows |-> r.counts[b]]) = Cardinality({f \in named : BucketOf(f) = b})
  <2> DEFINE P == [r \in rows |-> {f \in of(r.id) : BucketOf(f) = b}]
  <2>1. DOMAIN P = rows /\ \A r \in rows : P[r] = {f \in of(r.id) : BucketOf(f) = b}
    OBVIOUS
  <2>2. \A r \in rows : r.counts[b] = Cardinality(P[r])
    BY <1>1, <1>3
  <2>3. \A r \in DOMAIN P : IsFiniteSet(P[r])
    <3>1. \A r \in rows : P[r] \subseteq res.findings
      BY <2>1
    <3> QED
      BY <2>1, <3>1, FS_Subset DEF WellFormed
  <2>4. \A r, q \in DOMAIN P : r # q => P[r] \cap P[q] = {}
    BY <1>4, <2>1
  <2>5. UNION {P[r] : r \in DOMAIN P} = {f \in named : BucketOf(f) = b}
    <3>1. \A r \in rows : \A f \in P[r] : f \in named /\ BucketOf(f) = b
      BY <1>3, <2>1
    <3>2. \A f \in named : BucketOf(f) = b => \E r \in rows : f \in P[r]
      BY <1>5, <2>1
    <3> HIDE DEF P, rows, named
    <3> QED
      BY <2>1, <3>1, <3>2
  <2>6. [r \in rows |-> r.counts[b]] = [r \in DOMAIN P |-> Cardinality(P[r])]
    BY <2>1, <2>2
  <2>7. SumOf([r \in DOMAIN P |-> Cardinality(P[r])]) = Cardinality(UNION {P[r] : r \in DOMAIN P})
    <3>1. IsFiniteSet(DOMAIN P)
      BY <1>6, <2>1
    <3> HIDE DEF P
    <3> QED
      BY <2>3, <2>4, <3>1, SumOfParts
  <2> QED
    BY <2>5, <2>6, <2>7
<1>8. SummaryTotal(res) = [b \in bs |-> SumOf([r \in rows |-> r.counts[b]])]
  <2> DEFINE v == [r \in rows |-> r.counts]
  <2>1. \A b : [x \in DOMAIN v |-> v[x][b]] = [r \in rows |-> r.counts[b]]
    <3> HIDE DEF rows
    <3> QED
      OBVIOUS
  <2>2. SummaryTotal(res) = [b \in DOMAIN NoCounts |-> SumOf([x \in DOMAIN v |-> v[x][b]])]
    BY DEF SummaryTotal, AddAll
  <2> HIDE DEF rows, v, bs
  <2> QED
    BY <1>1, <2>1, <2>2
<1> QED
  BY <1>1, <1>7, <1>8 DEF SummaryAgrees

-----------------------------------------------------------------------------
(* Reading the names of a fleet                                            *)

\* A mention is a reference and how the input says it is started.  Entries say
\* what the mentions say: all of their references, each once and as each of
\* its mentions has it.
SaysAll(entries, mentions) ==
  /\ IsList(entries)
  /\ \A d \in mentions : \E n \in DOMAIN entries : entries[n].ref = d.ref
  /\ \A n \in DOMAIN entries : \E d \in mentions : d.ref = entries[n].ref /\ d.how = entries[n].assert
  /\ \A n \in DOMAIN entries : \A d \in mentions : d.ref = entries[n].ref => d.how = entries[n].assert

LEMMA Reads == /\ Refused.ok = FALSE
               /\ \A e : Accepted(e).ok = TRUE /\ Accepted(e).entries = e
               /\ \A r, h : Entry(r, h).ref = r /\ Entry(r, h).assert = h
BY DEF Refused, Accepted, Entry

LEMMA ListRange ==
  ASSUME NEW s, IsList(s)
  PROVE  DOMAIN s = 1..Len(s) /\ Len(s) \in Nat
BY DEF IsList

\* A list made of places of another is as long.
LEMMA Numbered ==
  ASSUME NEW r, DOMAIN r = 1..Len(r), Len(r) \in Nat, NEW s, s \in [DOMAIN r -> ToSet(s)]
  PROVE  IsList(s) /\ DOMAIN s = DOMAIN r /\ Len(s) = Len(r)
<1>1. s \in [1..Len(r) -> ToSet(s)]
  OBVIOUS
<1>2. s \in Seq(ToSet(s))
  BY <1>1, SeqDef
<1> QED
  BY <1>1, <1>2 DEF IsList

\* Lines: a repeat that says anything has the whole list refused.
LEMMA LinesRead ==
  ASSUME NEW lines, IsList(lines), NEW from, ParseImageList(lines, from).ok
  PROVE  SaysAll(ParseImageList(lines, from).entries,
                 {[ref |-> lines[i].name, how |-> LineAssertion(lines, i, from)] :
                    i \in {i \in DOMAIN lines : lines[i].kind = "image"}})
<1> DEFINE images == {i \in DOMAIN lines : lines[i].kind = "image"}
           places == {i \in images : ~ \E j \in 1..(i - 1) : SameRef(lines, i, j)}
           firsts == InOrder(Len(lines), places)
           key == [i \in DOMAIN lines |-> lines[i].name]
           says(i) == LineAssertion(lines, i, from)
           mention(i) == [ref |-> lines[i].name, how |-> says(i)]
           entries == [n \in DOMAIN firsts |-> Entry(lines[firsts[n]].name, says(firsts[n]))]
<1>1. DOMAIN lines = 1..Len(lines) /\ Len(lines) \in Nat
  BY ListRange
<1>2. /\ ParseImageList(lines, from).entries = entries
      /\ \A i, j \in images : j < i /\ SameRef(lines, i, j) => ~RepeatRefused(lines, i, j)
  <2>1. ~ (\E i, j \in images : j < i /\ SameRef(lines, i, j) /\ RepeatRefused(lines, i, j))
    BY Reads DEF ParseImageList
  <2>2. ParseImageList(lines, from) = Accepted(entries)
    BY Reads DEF ParseImageList
  <2>3. ParseImageList(lines, from).entries = entries
    <3> HIDE DEF entries
    <3> QED
      BY <2>2, Reads
  <2> QED
    BY <2>1, <2>3
<1>3. places \subseteq images /\ \A i \in images : i \in places <=> ~ \E j \in 1..(i - 1) : j \in images /\ key[j] = key[i]
  <2>1. \A i \in images : i \in Nat /\ key[i] = lines[i].name /\ \A j \in 1..(i - 1) : j \in DOMAIN lines /\ key[j] = lines[j].name
    BY <1>1
  <2>2. \A i \in images : \A j \in 1..(i - 1) : SameRef(lines, i, j) <=> j \in images /\ key[j] = key[i]
    BY <2>1 DEF SameRef
  <2> QED
    BY <2>2
<1>4. /\ DOMAIN firsts = 1..Len(firsts) /\ Len(firsts) \in Nat
      /\ \A k \in DOMAIN firsts : firsts[k] \in images
      /\ \A i \in images : \E k \in DOMAIN firsts : key[firsts[k]] = key[i]
  <2>1. FirstOfEach(Len(lines), images, key, places)
    BY <1>1, <1>3 DEF FirstOfEach
  <2>2. KeepsEach(firsts, images, key)
    BY <2>1, FirstsKept
  <2> QED
    BY <2>2 DEF KeepsEach
<1> HIDE DEF firsts, places
<1>5. IsList(entries)
  <2>1. entries \in [DOMAIN firsts -> ToSet(entries)]
    BY DEF ToSet
  <2> HIDE DEF entries
  <2> QED
    BY <1>4, <2>1, Numbered
<1>6. ASSUME NEW n \in DOMAIN entries
      PROVE  /\ firsts[n] \in images /\ entries[n].ref = lines[firsts[n]].name
             /\ entries[n].assert = says(firsts[n])
  BY <1>4, Reads
<1>7. ASSUME NEW i \in images, NEW j \in images, lines[i].name = lines[j].name
      PROVE  says(i) = says(j)
  <2>1. ASSUME NEW a \in images, NEW b \in images, lines[a].name = lines[b].name, a < b
        PROVE  says(a) = NoAssertion /\ says(b) = NoAssertion
    <3>1. SameRef(lines, b, a)
      BY <2>1 DEF SameRef
    <3>2. ~RepeatRefused(lines, b, a)
      BY <1>2, <2>1, <3>1
    <3> QED
      BY <3>2 DEF RepeatRefused, LineAssertion
  <2>2. i \in Nat /\ j \in Nat
    BY <1>1
  <2>3. i < j \/ j < i \/ i = j
    BY <2>2
  <2> HIDE DEF says, images
  <2> QED
    BY <1>7, <2>1, <2>3
<1>8. \A i \in images : \E n \in DOMAIN entries : entries[n].ref = lines[i].name
  <2> SUFFICES ASSUME NEW i \in images PROVE \E n \in DOMAIN entries : entries[n].ref = lines[i].name
    OBVIOUS
  <2>1. PICK k \in DOMAIN firsts : key[firsts[k]] = key[i]
    BY <1>4
  <2>2. firsts[k] \in images /\ k \in DOMAIN entries
    BY <1>4
  <2>3. lines[firsts[k]].name = lines[i].name
    BY <2>1, <2>2
  <2> QED
    BY <1>6, <2>2, <2>3
<1>9. SaysAll(entries, {mention(i) : i \in images})
  <2>1. \A i \in images : mention(i).ref = lines[i].name /\ mention(i).how = says(i)
    OBVIOUS
  <2> HIDE DEF mention, entries, says, images
  <2> QED
    BY <1>5, <1>6, <1>7, <1>8, <2>1 DEF SaysAll
<1> QED
  BY <1>2, <1>9

\* Containers of one image are refused unless they start alike.
LEMMA ContainersRead ==
  ASSUME NEW docs, NEW from, K8sEntries(docs, from).ok,
         DOMAIN Containers(docs) = 1..Len(Containers(docs)), Len(Containers(docs)) \in Nat
  PROVE  SaysAll(K8sEntries(docs, from).entries,
                 {[ref |-> c.image, how |-> K8sAssertion(c, from)] : c \in ToSet(Containers(docs))})
<1> DEFINE cs == Containers(docs)
           N == DOMAIN cs
           places == {i \in N : ~ \E j \in 1..(i - 1) : cs[j].image = cs[i].image}
           firsts == InOrder(Len(cs), places)
           key == [i \in N |-> cs[i].image]
           says(i) == K8sAssertion(cs[i], from)
           mention(c) == [ref |-> c.image, how |-> K8sAssertion(c, from)]
           entries == [n \in DOMAIN firsts |-> Entry(cs[firsts[n]].image, says(firsts[n]))]
<1>2. /\ K8sEntries(docs, from).entries = entries
      /\ \A i, j \in N : cs[i].image = cs[j].image => SameArgv(cs[i], cs[j])
  <2>1. ~ (\E i, j \in N : cs[i].image = cs[j].image /\ ~SameArgv(cs[i], cs[j]))
    BY Reads DEF K8sEntries
  <2>2. K8sEntries(docs, from) = Accepted(entries)
    BY Reads DEF K8sEntries
  <2>3. K8sEntries(docs, from).entries = entries
    <3> HIDE DEF entries
    <3> QED
      BY <2>2, Reads
  <2> QED
    BY <2>1, <2>3
<1>0. N = 1..Len(cs) /\ Len(cs) \in Nat
  OBVIOUS
<1> HIDE DEF cs
<1>3. places \subseteq N /\ \A i \in N : i \in places <=> ~ \E j \in 1..(i - 1) : j \in N /\ key[j] = key[i]
  <2>1. \A i \in N : key[i] = cs[i].image /\ \A j \in 1..(i - 1) : j \in N /\ key[j] = cs[j].image
    BY <1>0
  <2> QED
    BY <2>1
<1>4. /\ DOMAIN firsts = 1..Len(firsts) /\ Len(firsts) \in Nat
      /\ \A k \in DOMAIN firsts : firsts[k] \in N
      /\ \A i \in N : \E k \in DOMAIN firsts : key[firsts[k]] = key[i]
  <2>1. FirstOfEach(Len(cs), N, key, places)
    BY <1>0, <1>3 DEF FirstOfEach
  <2>2. KeepsEach(firsts, N, key)
    BY <2>1, FirstsKept
  <2> QED
    BY <2>2 DEF KeepsEach
<1> HIDE DEF firsts, places
<1>5. IsList(entries)
  <2>1. entries \in [DOMAIN firsts -> ToSet(entries)]
    BY DEF ToSet
  <2> HIDE DEF entries
  <2> QED
    BY <1>4, <2>1, Numbered
<1>6. ASSUME NEW n \in DOMAIN entries
      PROVE  /\ firsts[n] \in N /\ entries[n].ref = cs[firsts[n]].image
             /\ entries[n].assert = says(firsts[n])
  BY <1>4, Reads
<1>7. ASSUME NEW i \in N, NEW j \in N, cs[i].image = cs[j].image
      PROVE  says(i) = says(j)
  BY <1>2, <1>7 DEF SameArgv, K8sAssertion
<1>8. \A i \in N : \E n \in DOMAIN entries : entries[n].ref = cs[i].image
  <2> SUFFICES ASSUME NEW i \in N PROVE \E n \in DOMAIN entries : entries[n].ref = cs[i].image
    OBVIOUS
  <2>1. PICK k \in DOMAIN firsts : key[firsts[k]] = key[i]
    BY <1>4
  <2>2. firsts[k] \in N /\ k \in DOMAIN entries
    BY <1>4
  <2>3. cs[firsts[k]].image = cs[i].image
    BY <2>1, <2>2
  <2> QED
    BY <1>6, <2>2, <2>3
<1>9. SaysAll(entries, {mention(c) : c \in ToSet(cs)})
  <2>1. \A c : mention(c).ref = c.image /\ mention(c).how = K8sAssertion(c, from)
    OBVIOUS
  <2>2. \A d \in {mention(c) : c \in ToSet(cs)} : \E i \in N : d.ref = cs[i].image /\ d.how = says(i)
    BY <2>1 DEF ToSet
  <2>3. \A i \in N : \E d \in {mention(c) : c \in ToSet(cs)} : d.ref = cs[i].image /\ d.how = says(i)
    BY <2>1 DEF ToSet
  <2> DEFINE M == {mention(c) : c \in ToSet(cs)}
  <2> HIDE DEF M, mention, entries, says, N
  <2> QED
    BY <1>5, <1>6, <1>7, <1>8, <2>2, <2>3 DEF SaysAll, M
<1> QED
  BY <1>2, <1>9 DEF cs

\* A hauler manifest says nothing of how an image is started.
LEMMA NamesRead ==
  ASSUME NEW docs, DOMAIN HaulerNames(docs) = 1..Len(HaulerNames(docs)), Len(HaulerNames(docs)) \in Nat
  PROVE  SaysAll(HaulerEntries(docs).entries,
                 {[ref |-> n, how |-> NoAssertion] : n \in ToSet(HaulerNames(docs)) \ {""}})
<1> DEFINE names == HaulerNames(docs)
           N == {i \in DOMAIN names : names[i] # ""}
           places == {i \in DOMAIN names : names[i] # "" /\ ~ \E j \in 1..(i - 1) : names[j] = names[i]}
           firsts == InOrder(Len(names), places)
           entries == [n \in DOMAIN firsts |-> Entry(names[firsts[n]], NoAssertion)]
           mention(n) == [ref |-> n, how |-> NoAssertion]
           M == {mention(n) : n \in ToSet(names) \ {""}}
<1>0. DOMAIN names = 1..Len(names) /\ Len(names) \in Nat
  OBVIOUS
<1>2. HaulerEntries(docs).entries = entries
  BY DEF HaulerEntries, Accepted
<1> HIDE DEF names
<1>3. places \subseteq N /\ \A i \in N : i \in places <=> ~ \E j \in 1..(i - 1) : j \in N /\ names[j] = names[i]
  <2>1. \A i \in 1..Len(names) : \A j \in 1..(i - 1) : j \in 1..Len(names)
    BY <1>0
  <2>2. N \subseteq 1..Len(names) /\ \A j \in DOMAIN names : names[j] # "" => j \in N
    BY <1>0, Zenon
  <2> QED
    BY <1>0, <2>1, <2>2
<1>4. /\ DOMAIN firsts = 1..Len(firsts) /\ Len(firsts) \in Nat
      /\ \A k \in DOMAIN firsts : firsts[k] \in N
      /\ \A i \in N : \E k \in DOMAIN firsts : names[firsts[k]] = names[i]
  <2>1. FirstOfEach(Len(names), N, names, places)
    BY <1>0, <1>3 DEF FirstOfEach
  <2>2. KeepsEach(firsts, N, names)
    BY <2>1, FirstsKept
  <2> QED
    BY <2>2 DEF KeepsEach
<1> HIDE DEF firsts, places
<1>5. IsList(entries)
  <2>1. entries \in [DOMAIN firsts -> ToSet(entries)]
    BY DEF ToSet
  <2> HIDE DEF entries
  <2> QED
    BY <1>4, <2>1, Numbered
<1>6. ASSUME NEW n \in DOMAIN entries
      PROVE  firsts[n] \in N /\ entries[n].ref = names[firsts[n]] /\ entries[n].assert = NoAssertion
  <2>1. n \in DOMAIN firsts /\ entries[n] = Entry(names[firsts[n]], NoAssertion)
    OBVIOUS
  <2> HIDE DEF entries, N
  <2> QED
    BY <1>4, <2>1, Reads
<1>7. \A i \in N : \E n \in DOMAIN entries : entries[n].ref = names[i]
  <2> SUFFICES ASSUME NEW i \in N PROVE \E n \in DOMAIN entries : entries[n].ref = names[i]
    OBVIOUS
  <2>1. PICK k \in DOMAIN firsts : names[firsts[k]] = names[i]
    BY <1>4
  <2> QED
    BY <1>6, <2>1
<1>8. /\ \A d \in M : d.how = NoAssertion /\ \E i \in N : d.ref = names[i]
      /\ \A i \in N : \E d \in M : d.ref = names[i] /\ d.how = NoAssertion
  <2>1. \A n : mention(n).ref = n /\ mention(n).how = NoAssertion
    OBVIOUS
  <2> HIDE DEF mention
  <2>2. \A i \in N : names[i] \in ToSet(names) \ {""}
    BY DEF ToSet
  <2>3. \A n \in ToSet(names) \ {""} : \E i \in N : n = names[i]
    BY DEF ToSet
  <2>4. \A d \in M : \E n \in ToSet(names) \ {""} : d = mention(n)
    OBVIOUS
  <2>5. \A n \in ToSet(names) \ {""} : mention(n) \in M
    OBVIOUS
  <2> HIDE DEF N, M
  <2> QED
    BY <2>1, <2>2, <2>3, <2>4, <2>5
<1>9. SaysAll(entries, M)
  <2> HIDE DEF M, entries, N
  <2> QED
    BY <1>5, <1>6, <1>7, <1>8 DEF SaysAll
<1> QED
  BY <1>2, <1>9 DEF names

\* One entry for each reference, saying what an entry that said anything does.
OnePerImage(D, entries) ==
  /\ DOMAIN D = 1..Len(D) /\ Len(D) \in Nat
  /\ \A i \in DOMAIN entries : \E n \in DOMAIN D : D[n].ref = entries[i].ref
  /\ \A m, n \in DOMAIN D : D[m].ref = D[n].ref => m = n
  /\ \A n \in DOMAIN D :
       /\ \E i \in DOMAIN entries : entries[i].ref = D[n].ref /\ entries[i].assert = D[n].assert
       /\ D[n].assert = NoAssertion =>
            \A i \in DOMAIN entries : entries[i].ref = D[n].ref => entries[i].assert = NoAssertion

LEMMA Deduplicated ==
  ASSUME NEW entries, DOMAIN entries = 1..Len(entries), Len(entries) \in Nat
  PROVE  OnePerImage(DedupeEntries(entries), entries)
<1> DEFINE D == DedupeEntries(entries)
           N == DOMAIN entries
           places == {i \in N : ~ \E j \in 1..(i - 1) : entries[j].ref = entries[i].ref}
           firsts == InOrder(Len(entries), places)
           key == [i \in N |-> entries[i].ref]
           Stated(ref) == {i \in N : entries[i].ref = ref /\ entries[i].assert # NoAssertion}
           assertOf(ref) == IF Stated(ref) = {} THEN NoAssertion ELSE entries[Min(Stated(ref))].assert
<1>1. D = [n \in DOMAIN firsts |-> Entry(entries[firsts[n]].ref, assertOf(entries[firsts[n]].ref))]
  BY DEF DedupeEntries
<1> HIDE DEF D
<1>2. places \subseteq N /\ \A i \in N : i \in places <=> ~ \E j \in 1..(i - 1) : j \in N /\ key[j] = key[i]
  <2>1. \A i \in N : key[i] = entries[i].ref /\ \A j \in 1..(i - 1) : j \in N /\ key[j] = entries[j].ref
    OBVIOUS
  <2> QED
    BY <2>1
<1>3. /\ DOMAIN firsts = 1..Len(firsts) /\ Len(firsts) \in Nat
      /\ \A k \in DOMAIN firsts : firsts[k] \in N
      /\ \A i \in N : \E k \in DOMAIN firsts : key[firsts[k]] = key[i]
      /\ \A j, k \in DOMAIN firsts : key[firsts[j]] = key[firsts[k]] => j = k
  <2>1. FirstOfEach(Len(entries), N, key, places)
    BY <1>2 DEF FirstOfEach
  <2>2. KeepsEach(firsts, N, key)
    BY <2>1, FirstsKept
  <2> QED
    BY <2>2 DEF KeepsEach
<1>4. \A i \in N : key[i] = entries[i].ref
  OBVIOUS
<1>5. ASSUME NEW ref, Stated(ref) # {}
      PROVE  Min(Stated(ref)) \in N /\ entries[Min(Stated(ref))].ref = ref
             /\ entries[Min(Stated(ref))].assert # NoAssertion
  <2>1. Stated(ref) \subseteq Nat
    OBVIOUS
  <2>2. Min(Stated(ref)) \in Stated(ref)
    <3> HIDE DEF Stated
    <3> QED
      BY <1>5, <2>1, LeastNumber
  <2> QED
    BY <2>2
<1> HIDE DEF firsts, places, key
<1>6. DOMAIN D = DOMAIN firsts /\ Len(D) = Len(firsts)
  <2>1. D \in [DOMAIN firsts -> ToSet(D)]
    BY <1>1 DEF ToSet
  <2> QED
    BY <1>3, <2>1, Numbered
<1>7. ASSUME NEW n \in DOMAIN D
      PROVE  firsts[n] \in N /\ D[n].ref = entries[firsts[n]].ref /\ D[n].assert = assertOf(D[n].ref)
  <2>1. D[n] = Entry(entries[firsts[n]].ref, assertOf(entries[firsts[n]].ref))
    BY <1>1, <1>6
  <2> HIDE DEF assertOf
  <2> QED
    BY <1>3, <1>6, <2>1, Reads
<1>8. /\ \A i \in N : \E n \in DOMAIN D : D[n].ref = entries[i].ref
      /\ \A m, n \in DOMAIN D : D[m].ref = D[n].ref => m = n
  <2>1. \A n \in DOMAIN D : key[firsts[n]] = D[n].ref
    BY <1>4, <1>7
  <2> HIDE DEF N
  <2> QED
    BY <1>3, <1>4, <1>6, <2>1
<1>9. ASSUME NEW n \in DOMAIN D
       PROVE  /\ \E i \in N : entries[i].ref = D[n].ref /\ entries[i].assert = D[n].assert
              /\ D[n].assert = NoAssertion => \A i \in N : entries[i].ref = D[n].ref => entries[i].assert = NoAssertion
  <2>1. CASE Stated(D[n].ref) = {}
    BY <1>7, <2>1
  <2>2. CASE Stated(D[n].ref) # {}
    <3>1. D[n].assert = entries[Min(Stated(D[n].ref))].assert
      BY <1>7, <2>2
    <3> HIDE DEF Stated
    <3> QED
      BY <1>5, <2>2, <3>1
  <2> QED
    BY <2>1, <2>2
<1> QED
  BY <1>3, <1>6, <1>8, <1>9 DEF OnePerImage, D

\* Documents laid end to end have containers and names laid end to end.
LEMMA DocumentsRead ==
  ASSUME NEW docs, IsList(docs),
         \A d \in ToSet(docs) \cup UNION {ToSet(l.items) : l \in ToSet(docs)} :
            IsList(d.containers) /\ IsList(d.items) /\ IsList(d.names)
  PROVE  /\ DOMAIN Containers(docs) = 1..Len(Containers(docs)) /\ Len(Containers(docs)) \in Nat
         /\ DOMAIN HaulerNames(docs) = 1..Len(HaulerNames(docs)) /\ Len(HaulerNames(docs)) \in Nat
<1> DEFINE all == ToSet(docs) \cup UNION {ToSet(l.items) : l \in ToSet(docs)}
           named == UNION {ToSet(d.names) : d \in all}
           run == UNION {ToSet(d.containers) : d \in all}
           parts == [i \in DOMAIN docs |-> IF docs[i].kind = "List" THEN docs[i].items ELSE <<docs[i]>>]
           names == [i \in DOMAIN docs |-> IF docs[i].kind = "Images" THEN docs[i].names ELSE <<>>]
<1>0. ASSUME NEW s, NEW T, IsList(s), ToSet(s) \subseteq T PROVE s \in Seq(T)
  <2>1. s \in [1..Len(s) -> ToSet(s)] /\ Len(s) \in Nat
    BY <1>0 DEF IsList
  <2>2. s \in [1..Len(s) -> T]
    BY <1>0, <2>1
  <2> QED
    BY <2>1, <2>2, SeqDef
<1>1. DOMAIN docs = 1..Len(docs) /\ Len(docs) \in Nat /\ \A i \in DOMAIN docs : docs[i] \in ToSet(docs)
  BY ListRange DEF ToSet
<1>2. parts \in Seq(Seq(all))
  <2>1. ASSUME NEW i \in DOMAIN docs PROVE parts[i] \in Seq(all)
    <3>1. docs[i] \in all /\ ToSet(docs[i].items) \subseteq all /\ IsList(docs[i].items)
      BY <1>1
    <3> HIDE DEF all
    <3>2. docs[i].items \in Seq(all)
      BY <1>0, <3>1
    <3> QED
      BY <3>1, <3>2
  <2>2. parts \in [1..Len(docs) -> Seq(all)]
    BY <1>1, <2>1
  <2> HIDE DEF parts, all
  <2> QED
    BY <1>1, <2>2, SeqDef
<1>3. Documents(docs) \in Seq(all)
  <2>1. FlattenSeq(parts) \in Seq(all)
    <3> HIDE DEF parts, all
    <3> QED
      BY <1>2, FlattenIsList
  <2> QED
    BY <2>1 DEF Documents
<1> DEFINE ds == Documents(docs)
           seqs == [i \in DOMAIN ds |-> LET d == ds[i] IN IF d.kind \in Workloads THEN d.containers ELSE <<>>]
<1>4. DOMAIN ds = 1..Len(ds) /\ Len(ds) \in Nat /\ \A i \in DOMAIN ds : ds[i] \in all
  <2> HIDE DEF all, ds
  <2>1. ds \in Seq(all)
    BY <1>3 DEF ds
  <2> QED
    BY <2>1
<1>5. seqs \in Seq(Seq(run))
  <2>1. ASSUME NEW i \in DOMAIN ds PROVE seqs[i] \in Seq(run)
    <3>1. ds[i] \in all
      BY <1>4
    <3> HIDE DEF ds
    <3>2. ToSet(ds[i].containers) \subseteq run /\ IsList(ds[i].containers)
      BY <3>1
    <3> HIDE DEF all, run
    <3>3. ds[i].containers \in Seq(run)
      BY <1>0, <3>2
    <3> QED
      BY <3>3
  <2> HIDE DEF ds
  <2>2. seqs \in [1..Len(ds) -> Seq(run)]
    BY <1>4, <2>1
  <2> HIDE DEF seqs, run
  <2> QED
    BY <1>4, <2>2, SeqDef
<1>6. Containers(docs) \in Seq(run)
  <2>1. FlattenSeq(seqs) \in Seq(run)
    <3> HIDE DEF seqs, run
    <3> QED
      BY <1>5, FlattenIsList
  <2> QED
    BY <2>1 DEF Containers
<1>7. names \in Seq(Seq(named))
  <2>1. ASSUME NEW i \in DOMAIN docs PROVE names[i] \in Seq(named)
    <3>1. docs[i] \in all
      BY <1>1
    <3>2. ToSet(docs[i].names) \subseteq named /\ IsList(docs[i].names)
      BY <3>1
    <3> HIDE DEF all, named
    <3>3. docs[i].names \in Seq(named)
      BY <1>0, <3>2
    <3> QED
      BY <3>3
  <2>2. names \in [1..Len(docs) -> Seq(named)]
    BY <1>1, <2>1
  <2> HIDE DEF names, named
  <2> QED
    BY <1>1, <2>2, SeqDef
<1>8. HaulerNames(docs) \in Seq(named)
  <2>1. FlattenSeq(names) \in Seq(named)
    <3> HIDE DEF names, named
    <3> QED
      BY <1>7, FlattenIsList
  <2> QED
    BY <2>1 DEF HaulerNames
<1> HIDE DEF run, named
<1> QED
  BY <1>6, <1>8

\* A file of no workload names no container, and an empty one nothing.
LEMMA NoWorkloads ==
  ASSUME NEW docs, IsList(docs), ~LooksLikeK8s(docs)
  PROVE  Containers(docs) = <<>> /\ (docs = <<>> => HaulerNames(docs) = <<>>)
<1> DEFINE all == ToSet(docs)
           parts == [i \in DOMAIN docs |-> IF docs[i].kind = "List" THEN docs[i].items ELSE <<docs[i]>>]
           ds == Documents(docs)
           seqs == [i \in DOMAIN ds |-> LET d == ds[i] IN IF d.kind \in Workloads THEN d.containers ELSE <<>>]
           names == [i \in DOMAIN docs |-> IF docs[i].kind = "Images" THEN docs[i].names ELSE <<>>]
<1>0. ASSUME NEW s \in Seq({}) PROVE s = <<>>
  OBVIOUS
<1>1. DOMAIN docs = 1..Len(docs) /\ Len(docs) \in Nat
      /\ \A i \in DOMAIN docs : docs[i] \in all /\ docs[i].kind \notin Workloads \cup {"List"}
  BY ListRange DEF ToSet, LooksLikeK8s
<1>2. \A d \in all : d.kind \notin Workloads
  BY <1>1 DEF ToSet
<1>3. parts \in Seq(Seq(all))
  <2>1. \A i \in DOMAIN docs : parts[i] = <<docs[i]>> /\ <<docs[i]>> \in Seq(all)
    BY <1>1
  <2>2. parts \in [1..Len(docs) -> Seq(all)]
    BY <1>1, <2>1
  <2> HIDE DEF parts, all
  <2> QED
    BY <1>1, <2>2, SeqDef
<1>4. ds \in Seq(all)
  <2>1. FlattenSeq(parts) \in Seq(all)
    <3> HIDE DEF parts, all
    <3> QED
      BY <1>3, FlattenIsList
  <2> QED
    BY <2>1 DEF Documents
<1> HIDE DEF ds, all
<1>5. seqs \in Seq(Seq({}))
  <2>1. DOMAIN ds = 1..Len(ds) /\ Len(ds) \in Nat /\ \A i \in DOMAIN ds : ds[i] \in all
    BY <1>4
  <2>2. \A i \in DOMAIN ds : seqs[i] = <<>> /\ <<>> \in Seq({})
    BY <1>2, <2>1
  <2>3. seqs \in [1..Len(ds) -> Seq({})]
    BY <2>1, <2>2
  <2> HIDE DEF seqs
  <2> QED
    BY <2>1, <2>3, SeqDef
<1>6. Containers(docs) = <<>>
  <2>1. FlattenSeq(seqs) \in Seq({})
    <3> HIDE DEF seqs
    <3> QED
      BY <1>5, FlattenIsList
  <2>2. Containers(docs) = FlattenSeq(seqs)
    BY DEF Containers, ds
  <2> QED
    BY <1>0, <2>1, <2>2
<1>7. ASSUME docs = <<>> PROVE HaulerNames(docs) = <<>>
  <2>1. names \in Seq(Seq({}))
    BY <1>7
  <2>2. FlattenSeq(names) \in Seq({})
    <3> HIDE DEF names
    <3> QED
      BY <2>1, FlattenIsList
  <2>3. HaulerNames(docs) = FlattenSeq(names)
    BY DEF HaulerNames
  <2> HIDE DEF names
  <2> QED
    BY <1>0, <2>2, <2>3
<1> QED
  BY <1>6, <1>7

\* What a list is read into says what the list says.
ListMentions(list) ==
  {[ref |-> list.lines[i].name, how |-> LineAssertion(list.lines, i, list.from)] :
     i \in {i \in DOMAIN list.lines : list.lines[i].kind = "image"}}
  \cup {[ref |-> c.image, how |-> K8sAssertion(c, list.from)] : c \in ToSet(Containers(list.docs))}
  \cup {[ref |-> n, how |-> NoAssertion] : n \in ToSet(HaulerNames(list.docs)) \ {""}}

LEMMA ListRead ==
  ASSUME inv \in Invocations, inv.list # NoList, ~TwoManifests, ReadImageList(inv.list).ok
  PROVE  SaysAll(ReadImageList(inv.list).entries, ListMentions(inv.list))
<1> DEFINE lines == inv.list.lines
           docs == inv.list.docs
           from == inv.list.from
           inLines == {[ref |-> lines[i].name, how |-> LineAssertion(lines, i, from)] :
                         i \in {i \in DOMAIN lines : lines[i].kind = "image"}}
           inDocs == {[ref |-> c.image, how |-> K8sAssertion(c, from)] : c \in ToSet(Containers(docs))}
           inNames == {[ref |-> n, how |-> NoAssertion] : n \in ToSet(HaulerNames(docs)) \ {""}}
<1>1. /\ IsList(lines) /\ IsList(docs) /\ (docs = <<>> \/ lines = <<>>)
      /\ \A d \in ToSet(docs) \cup UNION {ToSet(l.items) : l \in ToSet(docs)} :
            IsList(d.containers) /\ IsList(d.items) /\ IsList(d.names)
  BY InvocationAssumption
<1>2. /\ DOMAIN Containers(docs) = 1..Len(Containers(docs)) /\ Len(Containers(docs)) \in Nat
      /\ DOMAIN HaulerNames(docs) = 1..Len(HaulerNames(docs)) /\ Len(HaulerNames(docs)) \in Nat
  BY <1>1, DocumentsRead
<1>3. ListMentions(inv.list) = inLines \cup inDocs \cup inNames
  BY DEF ListMentions
<1>4. CASE LooksLikeK8s(docs)
  <2>1. K8sEntries(docs, from).ok /\ ReadImageList(inv.list) = K8sEntries(docs, from)
    BY <1>4 DEF ReadImageList
  <2>2. inNames = {}
    BY <1>4 DEF TwoManifests
  <2>3. inLines = {}
    <3>1. docs # <<>>
      BY <1>4 DEF LooksLikeK8s
    <3>2. lines = <<>>
      BY <1>1, <3>1
    <3> QED
      BY <3>2
  <2>4. SaysAll(K8sEntries(docs, from).entries, inDocs)
    BY <1>2, <2>1, ContainersRead
  <2> HIDE DEF inDocs, inNames, inLines
  <2> QED
    BY <1>3, <2>1, <2>2, <2>3, <2>4
<1>5. CASE ~LooksLikeK8s(docs) /\ docs # <<>>
  <2>1. ReadImageList(inv.list) = HaulerEntries(docs)
    BY <1>5 DEF ReadImageList
  <2>2. inLines = {}
    BY <1>1, <1>5
  <2>3. inDocs = {}
    <3>1. Containers(docs) = <<>>
      BY <1>1, <1>5, NoWorkloads
    <3> QED
      BY <3>1 DEF ToSet
  <2>4. SaysAll(HaulerEntries(docs).entries, inNames)
    BY <1>2, NamesRead
  <2> HIDE DEF inDocs, inNames, inLines
  <2> QED
    BY <1>3, <2>1, <2>2, <2>3, <2>4
<1>6. CASE docs = <<>>
  <2>1. ParseImageList(lines, from).ok /\ ReadImageList(inv.list) = ParseImageList(lines, from)
    BY <1>6 DEF ReadImageList, LooksLikeK8s
  <2>2. inDocs = {} /\ inNames = {}
    <3>1. Containers(docs) = <<>> /\ HaulerNames(docs) = <<>>
      BY <1>1, <1>6, NoWorkloads DEF LooksLikeK8s
    <3> QED
      BY <3>1 DEF ToSet
  <2>3. SaysAll(ParseImageList(lines, from).entries, inLines)
    <3>1. IsList(lines)
      BY <1>1
    <3> HIDE DEF lines, from
    <3> QED
      BY ONLY <2>1, <3>1, LinesRead
  <2> HIDE DEF inDocs, inNames, inLines
  <2> QED
    BY <1>3, <2>1, <2>2, <2>3
<1> QED
  BY <1>4, <1>5, <1>6

\* What the loop is given before it keeps one entry of each image: every mention,
\* as it was made, and no two that say different things.
Carries(C, mentions) ==
  /\ DOMAIN C = 1..Len(C) /\ Len(C) \in Nat
  /\ \A d \in mentions : \E i \in DOMAIN C : C[i].ref = d.ref /\ C[i].assert = d.how
  /\ \A i \in DOMAIN C : \E d \in mentions : C[i].ref = d.ref /\ C[i].assert = d.how
  /\ \A i, j \in DOMAIN C : C[i].ref = C[j].ref /\ NoAssertion \notin {C[i].assert, C[j].assert}
       => C[i].assert = C[j].assert

\* One list after another.
LEMMA Joined ==
  ASSUME NEW s, NEW t, IsList(s), IsList(t)
  PROVE  /\ DOMAIN (s \o t) = 1..(Len(s) + Len(t)) /\ Len(s \o t) = Len(s) + Len(t)
         /\ Len(s) \in Nat /\ Len(t) \in Nat /\ DOMAIN s = 1..Len(s) /\ DOMAIN t = 1..Len(t)
         /\ \A i \in 1..Len(s) : (s \o t)[i] = s[i]
         /\ \A i \in 1..Len(t) : (s \o t)[Len(s) + i] = t[i]
<1> DEFINE S == ToSet(s) \cup ToSet(t)
<1>1. s \in Seq(S) /\ t \in Seq(S)
  <2>1. s \in [1..Len(s) -> ToSet(s)] /\ Len(s) \in Nat /\ t \in [1..Len(t) -> ToSet(t)] /\ Len(t) \in Nat
    BY DEF IsList
  <2>2. s \in [1..Len(s) -> S] /\ t \in [1..Len(t) -> S]
    BY <2>1
  <2> HIDE DEF S
  <2> QED
    BY <2>1, <2>2, SeqDef
<1> HIDE DEF S
<1>2. /\ s \o t \in Seq(S) /\ Len(s \o t) = Len(s) + Len(t)
      /\ \A i \in 1..(Len(s) + Len(t)) : (s \o t)[i] = IF i <= Len(s) THEN s[i] ELSE t[i - Len(s)]
  BY <1>1, ConcatProperties
<1>3. Len(s) \in Nat /\ Len(t) \in Nat /\ DOMAIN s = 1..Len(s) /\ DOMAIN t = 1..Len(t)
  BY <1>1
<1>4. \A i \in 1..Len(t) : Len(s) + i \in 1..(Len(s) + Len(t)) /\ ~ (Len(s) + i <= Len(s)) /\ (Len(s) + i) - Len(s) = i
  BY <1>3
<1>5. \A i \in 1..Len(s) : i \in 1..(Len(s) + Len(t)) /\ i <= Len(s)
  BY <1>3
<1>6. DOMAIN (s \o t) = 1..(Len(s) + Len(t))
  BY <1>2
<1> QED
  BY <1>2, <1>3, <1>4, <1>5, <1>6

LEMMA Gathered ==
  ASSUME inv \in Invocations, ~TwoManifests, inv.list # NoList => ReadImageList(inv.list).ok
  PROVE  Carries(Plain(inv.images) \o
                   (IF inv.list = NoList THEN <<>> ELSE ReadImageList(inv.list).entries), Asked)
<1> DEFINE P == Plain(inv.images)
           E == IF inv.list = NoList THEN <<>> ELSE ReadImageList(inv.list).entries
           said == IF inv.list = NoList THEN {} ELSE ListMentions(inv.list)
           named == {[ref |-> inv.images[i], how |-> NoAssertion] : i \in DOMAIN inv.images}
           C == P \o E
<1>1. Asked = named \cup said
  BY DEF Asked, ListMentions
<1>2. SaysAll(E, said)
  <2>1. CASE inv.list # NoList
    <3>1. SaysAll(ReadImageList(inv.list).entries, ListMentions(inv.list))
      BY <2>1, ListRead
    <3> QED
      BY <2>1, <3>1
  <2>2. CASE inv.list = NoList
    <3>1. IsList(<<>>) /\ DOMAIN <<>> = {}
      BY DEF IsList, ToSet
    <3> QED
      BY <2>2, <3>1 DEF SaysAll
  <2> QED
    BY <2>1, <2>2
<1>3. IsList(P) /\ DOMAIN P = DOMAIN inv.images
  <2>1. DOMAIN inv.images = 1..Len(inv.images) /\ Len(inv.images) \in Nat
    BY InvocationAssumption, ListRange
  <2>2. P \in [DOMAIN inv.images -> ToSet(P)]
    BY DEF Plain, ToSet
  <2> QED
    BY <2>1, <2>2, Numbered
<1>4. \A i \in DOMAIN P : P[i].ref = inv.images[i] /\ P[i].assert = NoAssertion
  BY Reads DEF Plain
<1>5. /\ \A i \in DOMAIN P : \E d \in named : d.ref = P[i].ref /\ d.how = P[i].assert
      /\ \A d \in named : \E i \in DOMAIN P : d.ref = P[i].ref /\ d.how = P[i].assert
  <2>1. \A i \in DOMAIN inv.images : [ref |-> inv.images[i], how |-> NoAssertion] \in named
    OBVIOUS
  <2>2. \A d \in named : \E i \in DOMAIN inv.images : d = [ref |-> inv.images[i], how |-> NoAssertion]
    OBVIOUS
  <2> HIDE DEF named, P
  <2>3. \A i \in DOMAIN inv.images : [ref |-> inv.images[i], how |-> NoAssertion].ref = inv.images[i]
                                  /\ [ref |-> inv.images[i], how |-> NoAssertion].how = NoAssertion
    OBVIOUS
  <2>4. ASSUME NEW i \in DOMAIN P PROVE \E d \in named : d.ref = P[i].ref /\ d.how = P[i].assert
    BY <1>3, <1>4, <2>1, <2>3
  <2>5. ASSUME NEW d \in named PROVE \E i \in DOMAIN P : d.ref = P[i].ref /\ d.how = P[i].assert
    BY <1>3, <1>4, <2>2, <2>3
  <2> QED
    BY <2>4, <2>5
<1> HIDE DEF P, E, said, named
<1>6. IsList(E)
  BY <1>2 DEF SaysAll
<1>7. /\ DOMAIN C = 1..(Len(P) + Len(E)) /\ Len(C) = Len(P) + Len(E)
      /\ Len(P) \in Nat /\ Len(E) \in Nat /\ DOMAIN P = 1..Len(P) /\ DOMAIN E = 1..Len(E)
      /\ \A i \in 1..Len(P) : C[i] = P[i]
      /\ \A i \in 1..Len(E) : C[Len(P) + i] = E[i]
  BY <1>3, <1>6, Joined
<1> HIDE DEF C
<1>8. \A i \in DOMAIN C : (i \in DOMAIN P /\ C[i] = P[i]) \/ \E k \in DOMAIN E : i = Len(P) + k /\ C[i] = E[k]
  <2> SUFFICES ASSUME NEW i \in DOMAIN C, i \notin DOMAIN P PROVE \E k \in DOMAIN E : i = Len(P) + k /\ C[i] = E[k]
    BY <1>7
  <2>1. i - Len(P) \in DOMAIN E /\ i = Len(P) + (i - Len(P))
    BY <1>7
  <2> QED
    BY <1>7, <2>1
<1>9. \A d \in Asked : \E i \in DOMAIN C : C[i].ref = d.ref /\ C[i].assert = d.how
  <2>1. ASSUME NEW d \in named PROVE \E i \in DOMAIN C : C[i].ref = d.ref /\ C[i].assert = d.how
    <3>1. PICK i \in DOMAIN P : d.ref = P[i].ref /\ d.how = P[i].assert
      BY <1>5
    <3>2. i \in DOMAIN C /\ C[i] = P[i]
      BY <1>7
    <3> QED
      BY <3>1, <3>2
  <2>2. ASSUME NEW d \in said PROVE \E i \in DOMAIN C : C[i].ref = d.ref /\ C[i].assert = d.how
    <3>1. PICK n \in DOMAIN E : E[n].ref = d.ref
      BY <1>2 DEF SaysAll
    <3>2. d.how = E[n].assert
      BY <1>2, <3>1 DEF SaysAll
    <3>3. Len(P) + n \in DOMAIN C /\ C[Len(P) + n] = E[n]
      BY <1>7
    <3> QED
      BY <3>1, <3>2, <3>3
  <2> QED
    BY <1>1, <2>1, <2>2
<1>10. \A i \in DOMAIN C : \E d \in Asked : C[i].ref = d.ref /\ C[i].assert = d.how
  <2> SUFFICES ASSUME NEW i \in DOMAIN C PROVE \E d \in named \cup said : C[i].ref = d.ref /\ C[i].assert = d.how
    BY <1>1
  <2>1. CASE i \in DOMAIN P /\ C[i] = P[i]
    BY <1>5, <2>1
  <2>2. CASE \E k \in DOMAIN E : i = Len(P) + k /\ C[i] = E[k]
    BY <1>2, <2>2 DEF SaysAll
  <2> QED
    BY <1>8, <2>1, <2>2
<1>11. ASSUME NEW i \in DOMAIN C, NEW j \in DOMAIN C, C[i].ref = C[j].ref,
              C[i].assert # NoAssertion, C[j].assert # NoAssertion
       PROVE  C[i].assert = C[j].assert
  <2>1. PICK k \in DOMAIN E : C[i] = E[k]
    BY <1>4, <1>8, <1>11
  <2>2. PICK l \in DOMAIN E : C[j] = E[l]
    BY <1>4, <1>8, <1>11
  <2>3. PICK d \in said : d.ref = E[k].ref /\ d.how = E[k].assert
    BY <1>2 DEF SaysAll
  <2>4. d.how = E[l].assert
    BY <1>2, <1>11, <2>1, <2>2, <2>3 DEF SaysAll
  <2> QED
    BY <2>1, <2>2, <2>3, <2>4
<1>12. DOMAIN C = 1..Len(C) /\ Len(C) \in Nat
  BY <1>7
<1> QED
  BY <1>9, <1>10, <1>11, <1>12 DEF Carries, C, P, E

\* What the mentions of an image say of how it is started.
SaidOf(ref) == {d.how : d \in {d \in Asked : d.ref = ref}} \ {NoAssertion}

\* The entries the targets are made of: each image asked for, once, under what
\* its mentions say.
LEMMA EntriesAsAsked ==
  ASSUME inv \in Invocations, ~TwoManifests, inv.list # NoList => ReadImageList(inv.list).ok
  PROVE  /\ DOMAIN Entries = 1..Len(Entries) /\ Len(Entries) \in Nat
         /\ \A d \in Asked : \E n \in DOMAIN Entries : Entries[n].ref = d.ref
         /\ \A m, n \in DOMAIN Entries : Entries[m].ref = Entries[n].ref => m = n
         /\ \A n \in DOMAIN Entries :
              \/ SaidOf(Entries[n].ref) = {} /\ Entries[n].assert = NoAssertion
              \/ SaidOf(Entries[n].ref) # {} /\ \A how \in SaidOf(Entries[n].ref) : Entries[n].assert = how
<1> DEFINE C == Plain(inv.images) \o
                  (IF inv.list = NoList THEN <<>> ELSE ReadImageList(inv.list).entries)
           D == Entries
<1>1. Carries(C, Asked)
  BY Gathered
<1>2. D = DedupeEntries(C)
  BY DEF Entries
<1> HIDE DEF C, D
<1>3. DOMAIN C = 1..Len(C) /\ Len(C) \in Nat
  BY <1>1 DEF Carries
<1>4. OnePerImage(D, C)
  BY <1>2, <1>3, Deduplicated
<1>5. \A d \in Asked : \E n \in DOMAIN D : D[n].ref = d.ref
  BY <1>1, <1>4 DEF Carries, OnePerImage
<1>6. ASSUME NEW n \in DOMAIN D, NEW said, said = SaidOf(D[n].ref)
      PROVE  \/ said = {} /\ D[n].assert = NoAssertion
             \/ said # {} /\ \A how \in said : D[n].assert = how
  <2>1. PICK i \in DOMAIN C : C[i].ref = D[n].ref /\ C[i].assert = D[n].assert
    BY <1>4 DEF OnePerImage
  <2>2. PICK d \in Asked : C[i].ref = d.ref /\ C[i].assert = d.how
    BY <1>1 DEF Carries
  <2>3. D[n].assert # NoAssertion => D[n].assert \in said
    BY <1>6, <2>1, <2>2 DEF SaidOf
  <2>4. ASSUME NEW how \in said PROVE D[n].assert = how
    <3>1. PICK e \in Asked : e.ref = D[n].ref /\ e.how = how /\ how # NoAssertion
      BY <1>6 DEF SaidOf
    <3>2. PICK j \in DOMAIN C : C[j].ref = e.ref /\ C[j].assert = e.how
      BY <1>1 DEF Carries
    <3>3. D[n].assert # NoAssertion
      BY <1>4, <3>1, <3>2 DEF OnePerImage
    <3> QED
      BY <1>1, <2>1, <3>1, <3>2, <3>3 DEF Carries
  <2> QED
    BY <2>3, <2>4
<1> QED
  BY <1>4, <1>5, <1>6 DEF D, OnePerImage

\* The images of a bundle are a list.
LEMMA SelectedIsList ==
  ASSUME NEW s, IsList(s), NEW places, places \subseteq DOMAIN s
  PROVE  IsList(Select(s, places))
<1> DEFINE r == InOrder(Len(s), places)
           q == [k \in DOMAIN r |-> s[r[k]]]
<1>1. Kept(r, Len(s), places)
  BY ListRange, InOrderKept
<1>2. DOMAIN r = 1..Len(r) /\ Len(r) \in Nat
  BY <1>1 DEF Kept
<1> HIDE DEF r
<1>3. q \in [DOMAIN r -> ToSet(q)]
  BY DEF ToSet
<1>4. IsList(q)
  <2> HIDE DEF q
  <2> QED
    BY <1>2, <1>3, Numbered
<1> QED
  BY <1>4 DEF Select, r

LEMMA BundleImages ==
  ASSUME inv \in Invocations, inv.bundle # NoBundle
  PROVE  IsList(Images(inv.bundle))
<1> DEFINE index == inv.bundle.index
           named == Select(index, {i \in DOMAIN index : index[i].name # ""})
           A == Artifacts(inv.bundle)
<1>1. IsList(named)
  <2>1. IsList(index) /\ {i \in DOMAIN index : index[i].name # ""} \subseteq DOMAIN index
    BY InvocationAssumption
  <2> QED
    BY <2>1, SelectedIsList
<1>2. IsList(A)
  <2>1. A = [i \in DOMAIN named |-> [ref |-> Qualify(named[i]), storeRef |-> named[i].name,
                                     qualified |-> Qualified(named[i]), type |-> Classified(named[i])]]
    BY DEF Artifacts
  <2> HIDE DEF named, A
  <2>2. A \in [DOMAIN named -> ToSet(A)]
    BY <2>1 DEF ToSet
  <2> QED
    BY <1>1, <2>2, ListRange, Numbered
<1> HIDE DEF A
<1>3. {i \in DOMAIN A : A[i].type = "image"} \subseteq DOMAIN A
  OBVIOUS
<1> QED
  BY <1>2, <1>3, SelectedIsList DEF Images, A

-----------------------------------------------------------------------------
(* The run: the loop and the phases after it                               *)

Elements(s) == {s[i] : i \in DOMAIN s}

\* One result per scan that was started, in order.
Paired ==
  /\ results \in Seq(Elements(results)) /\ ran \in Seq(Elements(ran))
  /\ Len(ran) = Len(results)
  /\ phase \in {"start", "options"} => results = <<>>

\* No image is scanned under options that depend on another's: what was said of
\* the one before does not carry over (scanBatch's copy).
NothingCarried ==
  \A i \in DOMAIN ran : /\ ran[i].options = OptionsFor(i)
                        /\ ran[i].ref = targets[i].ref /\ ran[i].storeRef = targets[i].storeRef

\* The phases after the loop.
After == {"render", "single", "propose", "verdict"}

\* The directory of a packed bundle, phase by phase.
Unpacking ==
  /\ phase = "start" => tree = {}
  /\ inv.bundle # NoBundle /\ inv.bundle.packed =>
      /\ phase \in {"options", "scan", "scanned"} => tree = {Top} /\ bundleDir = LayoutRoot(inv.bundle)
      /\ phase \in After /\ Top \in inv.bundle.layouts => tree = {}
      /\ phase = "done" /\ Top \in inv.bundle.layouts /\ (inv.valid \/ inv.inventory) => tree = {}

\* The loop is left at its end, or early with a failure recorded.
LoopLeft ==
  /\ phase = "scanned" => BatchFailed
  /\ phase \in After => BatchFailed \/ At > Len(targets)
  /\ phase # "done" => exit = Running

\* A status that says the images are clean, or that the gate stopped them, is
\* given when the loop has been through all of them and none has a hole.
StatusCoversAll == exit \in {0, ExitGate} => At > Len(targets) /\ \A i \in DOMAIN results : Complete(i)

IInv == Paired /\ NothingCarried /\ Unpacking /\ LoopLeft /\ StatusCoversAll

-----------------------------------------------------------------------------
LEMMA EmptySequence == /\ <<>> \in Seq(Elements(<<>>))
                       /\ DOMAIN <<>> = {} /\ Len(<<>>) = 0
OBVIOUS

LEMMA InitIInv == Init => IInv
<1> SUFFICES ASSUME Init PROVE IInv
  OBVIOUS
<1>1. Paired /\ NothingCarried
  BY EmptySequence DEF Init, Paired, NothingCarried
<1>2. Unpacking
  BY DEF Init, Unpacking, After
<1>3. LoopLeft
  BY DEF Init, LoopLeft, After
<1>4. StatusCoversAll
  <2>1. exit = Running
    BY DEF Init
  <2>2. exit \notin {0, ExitGate}
    BY <2>1 DEF Running, ExitGate
  <2> QED
    BY <2>2 DEF StatusCoversAll
<1> QED
  BY <1>1, <1>2, <1>3, <1>4 DEF IInv

\* A sequence is one of its own elements.
LEMMA OwnElements ==
  ASSUME NEW S, NEW s \in Seq(S)
  PROVE  s \in Seq(Elements(s))
<1>1. Len(s) \in Nat /\ s \in [1..Len(s) -> S] /\ DOMAIN s = 1..Len(s)
  BY LenProperties
<1>2. \A i \in 1..Len(s) : s[i] \in Elements(s)
  BY <1>1 DEF Elements
<1>3. s \in [1..Len(s) -> Elements(s)]
  BY <1>1, <1>2
<1> QED
  BY <1>1, <1>3, SeqDef

\* A sequence of its own elements, one longer.
LEMMA Longer ==
  ASSUME NEW s, s \in Seq(Elements(s)), NEW x
  PROVE  /\ Append(s, x) \in Seq(Elements(Append(s, x)))
         /\ Len(Append(s, x)) = Len(s) + 1 /\ Len(s) \in Nat
         /\ DOMAIN Append(s, x) = 1..(Len(s) + 1) /\ DOMAIN s = 1..Len(s)
         /\ \A i \in DOMAIN s : Append(s, x)[i] = s[i]
         /\ Append(s, x)[Len(s) + 1] = x
<1>1. s \in Seq(Elements(s) \cup {x}) /\ x \in Elements(s) \cup {x}
  OBVIOUS
<1>2. /\ Append(s, x) \in Seq(Elements(s) \cup {x}) /\ Len(Append(s, x)) = Len(s) + 1
      /\ \A i \in 1..Len(s) : Append(s, x)[i] = s[i]
      /\ Append(s, x)[Len(s) + 1] = x
  BY <1>1, AppendProperties
<1>3. DOMAIN s = 1..Len(s) /\ Len(s) \in Nat
  BY LenProperties
<1>4. DOMAIN Append(s, x) = 1..(Len(s) + 1)
  BY <1>2, LenProperties
<1>5. Append(s, x) \in Seq(Elements(Append(s, x)))
  BY <1>2, OwnElements
<1> QED
  BY <1>2, <1>3, <1>4, <1>5

\* What an image is scanned under is settled when the images are named.
LEMMA OptionsSettled ==
  ASSUME inv' = inv, targets' = targets
  PROVE  \A i : OptionsFor(i)' = OptionsFor(i)
BY DEF OptionsFor

\* A step that starts no scan.
LEMMA QuietStep ==
  ASSUME IInv, inv' = inv, targets' = targets, UNCHANGED <<results, ran>>,
         phase \notin {"start", "options"}, phase' \notin {"start", "options"}
  PROVE  Paired' /\ NothingCarried'
BY DEF IInv, Paired, NothingCarried, OptionsFor

\* Up to the loop nothing has been scanned.
LEMMA ReadingStep ==
  ASSUME IInv, phase \in {"start", "options"}, UNCHANGED <<results, ran>>
  PROVE  Paired' /\ NothingCarried'
<1>1. results = <<>> /\ ran = <<>>
  BY DEF IInv, Paired
<1> QED
  BY <1>1 DEF IInv, Paired, NothingCarried, Elements

-----------------------------------------------------------------------------
(* The steps                                                               *)

\* Reading the command line leaves with 2, or goes on to the options.
LEMMA ReadingIInv ==
  ASSUME IInv, ListRefused \/ FlagIgnored \/ ImagesNamed \/ HaulRefused \/ HaulOpened
  PROVE  IInv'
<1> USE DEF IInv, ListRefused, FlagIgnored, ImagesNamed, HaulRefused, HaulOpened
<1>1. Paired' /\ NothingCarried'
  BY ReadingStep DEF Goto, Leave
<1>2. Unpacking'
  <2>1. CASE ListRefused \/ FlagIgnored \/ ImagesNamed
    BY <2>1 DEF Unpacking, Goto, Leave, After
  <2>2. CASE HaulRefused
    BY <2>2 DEF Unpacking, Leave, After, LeftOver, LayoutRoot
  <2>3. CASE HaulOpened
    BY <2>3 DEF Unpacking, Goto, After, Unpacked
  <2> QED
    BY <2>1, <2>2, <2>3
<1>3. LoopLeft'
  BY DEF LoopLeft, Goto, Leave, After
<1>4. StatusCoversAll'
  <2>1. exit' = Running \/ exit' = 2
    BY DEF LoopLeft, Goto, Leave
  <2>2. exit' \notin {0, ExitGate}
    BY <2>1 DEF Running, ExitGate
  <2> QED
    BY <2>2 DEF StatusCoversAll
<1> QED
  BY <1>1, <1>2, <1>3, <1>4

LEMMA OptionsIInv ==
  ASSUME IInv, OptionsRefused \/ OptionsAccepted
  PROVE  IInv'
<1> USE DEF IInv, OptionsRefused, OptionsAccepted
<1>1. Paired' /\ NothingCarried'
  BY ReadingStep DEF Goto, Leave
<1>2. Unpacking'
  BY DEF Unpacking, Goto, Leave, After
<1>3. LoopLeft'
  BY DEF LoopLeft, Goto, Leave, After
<1>4. StatusCoversAll'
  <2>1. exit' = Running \/ exit' = 2
    BY DEF LoopLeft, Goto, Leave
  <2>2. exit' \notin {0, ExitGate}
    BY <2>1 DEF Running, ExitGate
  <2> QED
    BY <2>2 DEF StatusCoversAll
<1> QED
  BY <1>1, <1>2, <1>3, <1>4

\* A scan adds one result and one account of how it was made.
LEMMA ScanPaired ==
  ASSUME IInv, phase = "scan", inv' = inv, targets' = targets, NEW r, NEW how,
         results' = Append(results, r), ran' = Append(ran, how), phase' \notin {"start", "options"},
         how.options = OptionsFor(At), how.ref = targets[At].ref, how.storeRef = targets[At].storeRef
  PROVE  Paired' /\ NothingCarried'
<1>1. Paired'
  BY Longer DEF IInv, Paired
<1>2. NothingCarried'
  <2>1. \A i : OptionsFor(i)' = OptionsFor(i)
    BY OptionsSettled
  <2>2. DOMAIN ran = 1..Len(ran) /\ Len(ran) \in Nat /\ At = Len(ran) + 1
    BY Longer DEF IInv, Paired, At
  <2>3. DOMAIN ran' = DOMAIN ran \cup {At} /\ \A i \in DOMAIN ran : ran'[i] = ran[i]
    BY <2>2, Longer DEF IInv, Paired
  <2>4. ran'[At] = how
    BY <2>2, Longer DEF IInv, Paired
  <2> QED
    BY <2>1, <2>3, <2>4 DEF IInv, NothingCarried
<1> QED
  BY <1>1, <1>2

LEMMA ScannedIInv ==
  ASSUME IInv, NEW o, Scanned(o)
  PROVE  IInv'
<1> USE DEF IInv, Scanned
<1>1. Paired' /\ NothingCarried'
  BY ScanPaired
<1>2. Unpacking'
  BY DEF Unpacking, After
<1>3. LoopLeft'
  BY DEF LoopLeft, After
<1>4. StatusCoversAll'
  <2>1. exit' \notin {0, ExitGate}
    BY DEF LoopLeft, Running, ExitGate
  <2> QED
    BY <2>1 DEF StatusCoversAll
<1> QED
  BY <1>1, <1>2, <1>3, <1>4

LEMMA ScanFailedIInv ==
  ASSUME IInv, ScanFailed
  PROVE  IInv'
<1> USE DEF IInv, ScanFailed
<1>0. phase' \in {"scan", "scanned", "done"} /\ exit' \in {exit, 1}
  BY DEF Goto, Leave
<1>1. Paired' /\ NothingCarried'
  BY <1>0, ScanPaired
<1>2. BatchFailed'
  <2>1. Len(results) + 1 \in DOMAIN results' /\ results'[Len(results) + 1].scanned = FALSE
    BY Longer DEF Paired
  <2> QED
    BY <2>1 DEF BatchFailed, Complete
<1>3. Unpacking'
  <2>1. inv.bundle # NoBundle => BatchMode
    BY DEF BatchMode
  <2> QED
    BY <2>1 DEF Unpacking, Goto, Leave, After
<1>4. LoopLeft'
  BY <1>0, <1>2 DEF LoopLeft, Goto, Leave, After
<1>5. StatusCoversAll'
  <2>1. exit' \notin {0, ExitGate}
    BY <1>0 DEF LoopLeft, Running, ExitGate
  <2> QED
    BY <2>1 DEF StatusCoversAll
<1> QED
  BY <1>1, <1>3, <1>4, <1>5

\* What the loop left behind, in a step that adds no result.
LEMMA LoopSettled ==
  ASSUME results' = results, targets' = targets
  PROVE  /\ BatchFailed' = BatchFailed /\ (At > Len(targets))' = (At > Len(targets))
         /\ \A i : Complete(i)' = Complete(i)
BY DEF BatchFailed, Complete, At

LEMMA AfterScanIInv == IInv /\ AfterScan => IInv'
<1> SUFFICES ASSUME IInv, AfterScan PROVE IInv'
  OBVIOUS
<1> USE DEF IInv, AfterScan, Goto
<1>1. Paired' /\ NothingCarried'
  BY QuietStep
<1>2. Unpacking'
  BY DEF Unpacking, After, LayoutRoot
<1>3. LoopLeft'
  BY LoopSettled DEF LoopLeft, After
<1>4. StatusCoversAll'
  <2>1. exit' \notin {0, ExitGate}
    BY DEF LoopLeft, Running, ExitGate
  <2> QED
    BY <2>1 DEF StatusCoversAll
<1> QED
  BY <1>1, <1>2, <1>3, <1>4

\* Writing the output ends with 1 or goes on.
LEMMA OutputIInv ==
  ASSUME IInv, Rendered \/ OutputFailed \/ Propose
  PROVE  IInv'
<1> USE DEF IInv, Rendered, OutputFailed, Propose
<1>0. /\ phase \in After /\ phase' \in After \cup {"done"}
      /\ phase' = "done" => exit' = 1
      /\ phase' # "done" => exit' = exit
  BY DEF After, Goto, Leave
<1>1. Paired' /\ NothingCarried'
  BY <1>0, QuietStep DEF After
<1>2. Unpacking'
  BY <1>0 DEF Unpacking, After
<1>3. LoopLeft'
  BY <1>0, LoopSettled DEF LoopLeft, After
<1>4. StatusCoversAll'
  <2>1. exit' \notin {0, ExitGate}
    BY <1>0 DEF LoopLeft, After, Running, ExitGate
  <2> QED
    BY <2>1 DEF StatusCoversAll
<1> QED
  BY <1>1, <1>2, <1>3, <1>4

LEMMA VerdictIInv == IInv /\ Verdict => IInv'
<1> SUFFICES ASSUME IInv, Verdict PROVE IInv'
  OBVIOUS
<1> USE DEF IInv, Verdict, Leave
<1>1. Paired' /\ NothingCarried'
  BY QuietStep
<1>2. Unpacking'
  BY DEF Unpacking, After
<1>3. LoopLeft'
  BY DEF LoopLeft, After
<1>4. StatusCoversAll'
  <2> SUFFICES ASSUME exit' \in {0, ExitGate} PROVE (At > Len(targets) /\ \A i \in DOMAIN results : Complete(i))'
    BY DEF StatusCoversAll
  <2>1. ~BatchFailed
    BY DEF ExitGate
  <2>2. At > Len(targets)
    BY <2>1 DEF LoopLeft, After
  <2>3. \A i \in DOMAIN results : Complete(i)
    BY <2>1 DEF BatchFailed
  <2> QED
    BY <2>2, <2>3, LoopSettled
<1> QED
  BY <1>1, <1>2, <1>3, <1>4

\* An interrupt, and the end, change nothing the invariant speaks of.
LEMMA IdleIInv ==
  ASSUME IInv, UNCHANGED <<inv, phase, targets, results, ran, tree, bundleDir, proposed, shown, exit>>
  PROVE  IInv'
<1> USE DEF IInv
<1>1. Paired' /\ NothingCarried'
  BY DEF Paired, NothingCarried, OptionsFor
<1>2. Unpacking'
  BY DEF Unpacking
<1>3. LoopLeft' /\ StatusCoversAll'
  BY LoopSettled DEF LoopLeft, StatusCoversAll
<1> QED
  BY <1>1, <1>2, <1>3

LEMMA NextIInv == IInv /\ [Next]_vars => IInv'
<1> SUFFICES ASSUME IInv, [Next]_vars PROVE IInv'
  OBVIOUS
<1>1. CASE ListRefused \/ FlagIgnored \/ ImagesNamed \/ HaulRefused \/ HaulOpened
  BY <1>1, ReadingIInv
<1>2. CASE OptionsRefused \/ OptionsAccepted
  BY <1>2, OptionsIInv
<1>3. CASE \E o \in Outcomes[BatchMode] : Scanned(o)
  BY <1>3, ScannedIInv
<1>4. CASE ScanFailed
  BY <1>4, ScanFailedIInv
<1>5. CASE AfterScan
  BY <1>5, AfterScanIInv
<1>6. CASE Rendered \/ OutputFailed \/ Propose
  BY <1>6, OutputIInv
<1>7. CASE Verdict
  BY <1>7, VerdictIInv
<1>8. CASE Interrupt \/ Done \/ UNCHANGED vars
  <2>1. UNCHANGED <<inv, phase, targets, results, ran, tree, bundleDir, proposed, shown, exit>>
    BY <1>8 DEF Interrupt, Done, vars
  <2> QED
    BY <2>1, IdleIInv
<1> QED
  BY <1>1, <1>2, <1>3, <1>4, <1>5, <1>6, <1>7, <1>8 DEF Next

\* The inductive invariant of every invocation.
THEOREM SpecIInv == Spec => []IInv
BY InitIInv, NextIInv, PTL DEF Spec

-----------------------------------------------------------------------------
(* What the run has to show for itself                                     *)

\* What the loop goes through is what the input was read into.
Targeted ==
  /\ inv \in Invocations
  /\ DOMAIN targets = 1..Len(targets) /\ Len(targets) \in Nat
  /\ phase \notin {"start", "done"} =>
       IF inv.bundle # NoBundle THEN targets = HaulTargets(inv.bundle)
       ELSE targets = Targets(Entries) /\ (inv.list # NoList => ReadImageList(inv.list).ok)

\* A result is what the scan of its target came to.
TrueToTarget ==
  \A i \in DOMAIN results :
    /\ i \in DOMAIN targets /\ results[i].ref = targets[i].ref /\ results[i].scanned \in BOOLEAN
    /\ IF results[i].scanned THEN WellFormed(results[i].result) ELSE results[i].result = NoResult

\* Only an interrupt leaves the loop early, and the table is drawn of what it left.
Drawn ==
  /\ phase = "scanned" => cut
  /\ phase \in After /\ ~cut => At > Len(targets)
  /\ phase = "single" => ~BatchMode
  /\ phase \in {"propose", "verdict"} /\ BatchMode => shown = BatchRows

\* The gate was asked about the results there are.
GateTold ==
  inv.gate.on /\ ~inv.inventory =>
    /\ exit = 0 => ~ (BatchGate.tripped > 0)
    /\ exit = ExitGate => BatchGate.tripped > 0

RInv == Targeted /\ TrueToTarget /\ Drawn /\ GateTold

LEMMA EntriesAreListed ==
  ASSUME inv \in Invocations, inv.list # NoList => ReadImageList(inv.list).ok
  PROVE  DOMAIN Entries = 1..Len(Entries) /\ Len(Entries) \in Nat
<1> DEFINE P == Plain(inv.images)
           E == IF inv.list = NoList THEN <<>> ELSE ReadImageList(inv.list).entries
           C == P \o E
<1>1. IsList(P)
  <2>1. DOMAIN inv.images = 1..Len(inv.images) /\ Len(inv.images) \in Nat
    BY InvocationAssumption, ListRange
  <2>2. P \in [DOMAIN inv.images -> ToSet(P)]
    BY DEF Plain, ToSet
  <2> QED
    BY <2>1, <2>2, Numbered
<1>2. IsList(E)
  <2>1. CASE inv.list = NoList
    BY <2>1 DEF IsList, ToSet
  <2>2. CASE inv.list # NoList
    <3> DEFINE lines == inv.list.lines
               docs == inv.list.docs
               from == inv.list.from
    <3>1. /\ IsList(lines) /\ IsList(docs)
          /\ \A d \in ToSet(docs) \cup UNION {ToSet(l.items) : l \in ToSet(docs)} :
                IsList(d.containers) /\ IsList(d.items) /\ IsList(d.names)
      BY <2>2, InvocationAssumption
    <3>2. /\ DOMAIN Containers(docs) = 1..Len(Containers(docs)) /\ Len(Containers(docs)) \in Nat
          /\ DOMAIN HaulerNames(docs) = 1..Len(HaulerNames(docs)) /\ Len(HaulerNames(docs)) \in Nat
      BY <3>1, DocumentsRead
    <3>3. \/ ReadImageList(inv.list) = K8sEntries(docs, from)
          \/ ReadImageList(inv.list) = HaulerEntries(docs)
          \/ ReadImageList(inv.list) = ParseImageList(lines, from)
      BY DEF ReadImageList
    <3>4. ReadImageList(inv.list).ok
      BY <2>2
    <3> HIDE DEF lines, docs, from
    <3>5. CASE ReadImageList(inv.list) = K8sEntries(docs, from)
      <4>1. K8sEntries(docs, from).ok
        BY <3>4, <3>5
      <4> QED
        BY <2>2, <3>2, <3>5, <4>1, ContainersRead DEF SaysAll
    <3>6. CASE ReadImageList(inv.list) = HaulerEntries(docs)
      BY <2>2, <3>2, <3>6, NamesRead DEF SaysAll
    <3>7. CASE ReadImageList(inv.list) = ParseImageList(lines, from)
      <4>1. ParseImageList(lines, from).ok
        BY <3>4, <3>7
      <4> QED
        BY <2>2, <3>1, <3>7, <4>1, LinesRead DEF SaysAll
    <3> QED
      BY <3>3, <3>5, <3>6, <3>7
  <2> QED
    BY <2>1, <2>2
<1> HIDE DEF P, E
<1>3. DOMAIN C = 1..(Len(P) + Len(E)) /\ Len(C) = Len(P) + Len(E) /\ Len(P) \in Nat /\ Len(E) \in Nat
  BY <1>1, <1>2, Joined
<1> HIDE DEF C
<1>4. DOMAIN C = 1..Len(C) /\ Len(C) \in Nat
  BY <1>3
<1>5. OnePerImage(DedupeEntries(C), C)
  BY <1>4, Deduplicated
<1>6. Entries = DedupeEntries(C)
  BY DEF Entries, C, P, E
<1> QED
  BY <1>5, <1>6 DEF OnePerImage

\* A list of as many targets as there are entries.
LEMMA TargetsListed ==
  ASSUME NEW r, DOMAIN r = 1..Len(r), Len(r) \in Nat, NEW s, s \in [DOMAIN r -> ToSet(s)]
  PROVE  DOMAIN s = 1..Len(s) /\ Len(s) \in Nat
BY Numbered

LEMMA InitRInv == Init => RInv
<1> SUFFICES ASSUME Init PROVE RInv
  OBVIOUS
<1>1. Targeted
  <2>1. inv \in Invocations /\ targets = <<>> /\ phase = "start"
    BY DEF Init
  <2>2. DOMAIN targets = 1..Len(targets) /\ Len(targets) \in Nat
    BY <2>1, EmptySequence
  <2> QED
    BY <2>1, <2>2 DEF Targeted
<1>2. TrueToTarget
  BY EmptySequence DEF Init, TrueToTarget
<1>3. Drawn
  BY DEF Init, Drawn, After
<1>4. GateTold
  <2>1. exit = Running
    BY DEF Init
  <2>2. exit \notin {0, ExitGate}
    BY <2>1 DEF Running, ExitGate
  <2> QED
    BY <2>2 DEF GateTold
<1> QED
  BY <1>1, <1>2, <1>3, <1>4 DEF RInv

LEMMA TargetedStep == IInv /\ Targeted /\ [Next]_vars => Targeted'
<1> SUFFICES ASSUME IInv, Targeted, [Next]_vars PROVE Targeted'
  OBVIOUS
<1>1. inv' = inv /\ Entries' = Entries
  <2>1. inv' = inv
    BY DEF Next, vars, ListRefused, FlagIgnored, ImagesNamed, HaulRefused, HaulOpened, OptionsRefused,
           OptionsAccepted, Interrupt, Scanned, ScanFailed, AfterScan, Rendered, OutputFailed, Propose,
           Verdict, Done
  <2> QED
    BY <2>1 DEF Entries
<1>2. CASE ImagesNamed
  <2>1. targets' = Targets(Entries) /\ inv.bundle = NoBundle /\ (inv.list # NoList => ReadImageList(inv.list).ok)
    BY <1>2 DEF ImagesNamed
  <2>2. DOMAIN Entries = 1..Len(Entries) /\ Len(Entries) \in Nat
    BY <2>1, EntriesAreListed DEF Targeted
  <2>3. targets' \in [DOMAIN Entries -> ToSet(targets')]
    <3> DEFINE T == Targets(Entries)
    <3>1. T \in [DOMAIN Entries -> ToSet(T)]
      BY DEF Targets, ToSet
    <3> QED
      BY <2>1, <3>1
  <2>4. DOMAIN targets' = 1..Len(targets') /\ Len(targets') \in Nat
    BY <2>2, <2>3, TargetsListed
  <2>5. Targets(Entries)' = Targets(Entries)
    BY <1>1 DEF Targets
  <2> QED
    BY <1>1, <2>1, <2>4, <2>5 DEF Targeted
<1>3. CASE HaulOpened
  <2>1. targets' = HaulTargets(inv.bundle) /\ inv.bundle # NoBundle
    BY <1>3 DEF HaulOpened
  <2> DEFINE I == Images(inv.bundle)
  <2>2. DOMAIN I = 1..Len(I) /\ Len(I) \in Nat
    BY <2>1, BundleImages, ListRange DEF Targeted
  <2>3. targets' \in [DOMAIN I -> ToSet(targets')]
    <3> DEFINE T == HaulTargets(inv.bundle)
    <3>1. T \in [DOMAIN I -> ToSet(T)]
      BY DEF HaulTargets, ToSet
    <3> QED
      BY <2>1, <3>1
  <2>4. DOMAIN targets' = 1..Len(targets') /\ Len(targets') \in Nat
    <3> HIDE DEF I
    <3> QED
      BY <2>2, <2>3, TargetsListed
  <2> QED
    BY <1>1, <2>1, <2>4 DEF Targeted
<1>4. CASE targets' = targets /\ (phase' \in {phase, "done"} \/ phase \notin {"start", "done"})
  <2>1. Targets(Entries)' = Targets(Entries)
    BY <1>1 DEF Targets
  <2> QED
    BY <1>1, <1>4, <2>1 DEF Targeted
<1>5. \/ ImagesNamed \/ HaulOpened
      \/ targets' = targets /\ (phase' \in {phase, "done"} \/ phase \notin {"start", "done"})
  BY DEF Next, vars, ListRefused, FlagIgnored, HaulRefused, OptionsRefused, OptionsAccepted, Interrupt,
         Scanned, ScanFailed, AfterScan, Rendered, OutputFailed, Propose, Verdict, Done, Goto, Leave
<1> QED
  BY <1>2, <1>3, <1>4, <1>5

\* One more result, of the target the loop was at.
LEMMA OneMoreRecorded ==
  ASSUME IInv, Targeted, TrueToTarget, targets' = targets, At <= Len(targets), NEW ok \in BOOLEAN, NEW o,
         IF ok THEN WellFormed(o) ELSE o = NoResult,
         results' = Append(results, [ref |-> targets[At].ref, scanned |-> ok, result |-> o])
  PROVE  TrueToTarget'
<1> DEFINE r == [ref |-> targets[At].ref, scanned |-> ok, result |-> o]
<1>1. r.ref = targets[At].ref /\ r.scanned = ok /\ r.result = o
  OBVIOUS
<1> HIDE DEF r
<1>2. /\ DOMAIN results' = 1..(Len(results) + 1) /\ DOMAIN results = 1..Len(results) /\ Len(results) \in Nat
      /\ \A i \in DOMAIN results : results'[i] = results[i]
      /\ results'[Len(results) + 1] = r
  BY Longer DEF IInv, Paired, r
<1>3. At \in DOMAIN targets /\ At = Len(results) + 1
  BY <1>2 DEF At, Targeted
<1>4. ASSUME NEW i \in DOMAIN results'
      PROVE  /\ i \in DOMAIN targets /\ results'[i].ref = targets[i].ref /\ results'[i].scanned \in BOOLEAN
             /\ IF results'[i].scanned THEN WellFormed(results'[i].result) ELSE results'[i].result = NoResult
  <2>1. CASE i \in DOMAIN results
    BY <1>2, <2>1 DEF TrueToTarget
  <2>2. CASE i = At
    BY <1>1, <1>2, <1>3, <2>2
  <2> QED
    BY <1>2, <1>3, <2>1, <2>2
<1> QED
  BY <1>4 DEF TrueToTarget

LEMMA RecordedStep == IInv /\ Targeted /\ TrueToTarget /\ [Next]_vars => TrueToTarget'
<1> SUFFICES ASSUME IInv, Targeted, TrueToTarget, [Next]_vars PROVE TrueToTarget'
  OBVIOUS
<1>1. CASE ImagesNamed \/ HaulOpened
  <2>1. results' = <<>>
    BY <1>1 DEF ImagesNamed, HaulOpened, IInv, Paired
  <2> QED
    BY <2>1, EmptySequence DEF TrueToTarget
<1>2. CASE \E o \in Outcomes[BatchMode] : Scanned(o)
  <2>1. PICK o \in Outcomes[BatchMode] : Scanned(o)
    BY <1>2
  <2>2. BatchMode \in BOOLEAN
    BY DEF BatchMode
  <2>3. WellFormed(o)
    BY <2>2, OutcomeAssumption
  <2>4. /\ targets' = targets /\ At <= Len(targets)
        /\ results' = Append(results, [ref |-> targets[At].ref, scanned |-> TRUE, result |-> o])
    BY <2>1 DEF Scanned
  <2> QED
    BY <2>3, <2>4, OneMoreRecorded
<1>3. CASE ScanFailed
  <2>1. /\ targets' = targets /\ At <= Len(targets)
        /\ results' = Append(results, [ref |-> targets[At].ref, scanned |-> FALSE, result |-> NoResult])
    BY <1>3 DEF ScanFailed
  <2> QED
    BY <2>1, OneMoreRecorded
<1>4. CASE results' = results /\ targets' = targets
  BY <1>4 DEF TrueToTarget
<1>5. \/ ImagesNamed \/ HaulOpened \/ (\E o \in Outcomes[BatchMode] : Scanned(o)) \/ ScanFailed
      \/ results' = results /\ targets' = targets
  BY DEF Next, vars, ListRefused, FlagIgnored, HaulRefused, OptionsRefused, OptionsAccepted, Interrupt,
         AfterScan, Rendered, OutputFailed, Propose, Verdict, Done
<1> QED
  BY <1>1, <1>2, <1>3, <1>4, <1>5

LEMMA DrawnStep == IInv /\ Drawn /\ [Next]_vars => Drawn'
<1> SUFFICES ASSUME IInv, Drawn, [Next]_vars PROVE Drawn'
  OBVIOUS
<1>1. ASSUME inv' = inv, targets' = targets, results' = results
      PROVE  BatchMode' = BatchMode /\ BatchRows' = BatchRows /\ (At > Len(targets))' = (At > Len(targets))
  BY <1>1 DEF BatchMode, BatchRows, Row, At
<1>2. CASE phase' \in {"start", "options", "scan", "done"}
  BY <1>2 DEF Drawn, After
<1>3. CASE ScanFailed
  BY <1>3 DEF ScanFailed, Drawn, After, Goto, Leave
<1>4. CASE AfterScan
  BY <1>1, <1>4 DEF AfterScan, Drawn, After, Goto
<1>5. CASE Rendered
  <2>1. /\ phase = "render" /\ phase' \in After /\ (phase' = "single" => ~BatchMode) /\ cut' = cut
        /\ BatchMode => shown' = BatchRows
        /\ inv' = inv /\ targets' = targets /\ results' = results
    BY <1>5 DEF Rendered, Goto, After
  <2> QED
    BY <1>1, <2>1 DEF Drawn, After
<1>6. CASE Propose
  <2>1. /\ phase \in {"propose", "single"} /\ phase' \in {"verdict", "done"} /\ cut' = cut /\ shown' = shown
        /\ inv' = inv /\ targets' = targets /\ results' = results
    BY <1>6 DEF Propose, Goto, Leave
  <2> QED
    BY <1>1, <2>1 DEF Drawn, After
<1>7. CASE /\ phase' = phase /\ (cut => cut') /\ shown' = shown
           /\ inv' = inv /\ targets' = targets /\ results' = results
  BY <1>1, <1>7 DEF Drawn
<1>8. \/ phase' \in {"start", "options", "scan", "done"} \/ ScanFailed \/ AfterScan \/ Rendered \/ Propose
      \/ /\ phase' = phase /\ (cut => cut') /\ shown' = shown
         /\ inv' = inv /\ targets' = targets /\ results' = results
  BY DEF Next, vars, ListRefused, FlagIgnored, ImagesNamed, HaulRefused, HaulOpened, OptionsRefused,
         OptionsAccepted, Interrupt, Scanned, OutputFailed, Verdict, Done, Goto, Leave
<1> QED
  BY <1>2, <1>3, <1>4, <1>5, <1>6, <1>7, <1>8

LEMMA GateToldStep == IInv /\ GateTold /\ [Next]_vars => GateTold'
<1> SUFFICES ASSUME IInv, GateTold, [Next]_vars PROVE GateTold'
  OBVIOUS
<1>0. ASSUME inv' = inv, results' = results PROVE BatchGate' = BatchGate
  BY <1>0 DEF BatchGate
<1>1. CASE Verdict
  <2>1. /\ inv' = inv /\ results' = results
        /\ inv.gate.on /\ ~inv.inventory =>
             exit' = IF BatchFailed THEN 1 ELSE IF BatchGate.tripped > 0 THEN ExitGate ELSE 0
    BY <1>1 DEF Verdict, Leave
  <2>2. ASSUME inv.gate.on, ~inv.inventory
        PROVE  (exit' = 0 => ~ (BatchGate.tripped > 0)) /\ (exit' = ExitGate => BatchGate.tripped > 0)
    BY <2>1, <2>2 DEF ExitGate
  <2>3. BatchGate' = BatchGate
    BY <1>0, <2>1
  <2> QED
    BY <2>1, <2>2, <2>3 DEF GateTold
<1>2. CASE exit' \notin {0, ExitGate}
  BY <1>2 DEF GateTold
<1>3. CASE exit' = exit /\ inv' = inv /\ results' = results
  BY <1>0, <1>3 DEF GateTold
<1>4. Verdict \/ exit' \notin {0, ExitGate} \/ (exit' = exit /\ inv' = inv /\ results' = results)
  <2>1. \/ Verdict \/ exit' \in {1, 2}
        \/ phase # "done" /\ exit' = exit
        \/ exit' = exit /\ inv' = inv /\ results' = results
    BY DEF Next, vars, ListRefused, FlagIgnored, ImagesNamed, HaulRefused, HaulOpened, OptionsRefused,
           OptionsAccepted, Interrupt, Scanned, ScanFailed, AfterScan, Rendered, OutputFailed, Propose,
           Done, Goto, Leave
  <2>2. phase # "done" => exit = Running
    BY DEF IInv, LoopLeft
  <2> QED
    BY <2>1, <2>2 DEF Running, ExitGate
<1> QED
  BY <1>1, <1>2, <1>3, <1>4

\* What the run has to show for itself is there at every step of every invocation.
THEOREM SpecRInv == Spec => [](IInv /\ RInv)
<1>1. Init => IInv /\ RInv
  BY InitIInv, InitRInv
<1>2. IInv /\ RInv /\ [Next]_vars => (IInv /\ RInv)'
  BY NextIInv, TargetedStep, RecordedStep, DrawnStep, GateToldStep DEF RInv
<1> QED
  BY <1>1, <1>2, PTL DEF Spec

-----------------------------------------------------------------------------
(* What follows                                                            *)

\* An unpacked bundle is there while an image is to be read from it.  When the
\* process ends, after whatever failure or interrupt, it is gone, if its layout
\* is at the top of the archive and the options were not refused after it was
\* opened; else the code leaves it behind (openHaul, Haul.Close, afterScan).
THEOREM BundleIsReleased == Spec => []BundleHeldThenReleased
<1>1. IInv => BundleHeldThenReleased
  BY DEF IInv, Unpacking, BundleHeldThenReleased
<1> QED
  BY <1>1, SpecIInv, PTL

\* A status of 0 or the gate's says that the loop went through every image and
\* that none of the results has a hole (runBatch's order of checks).
THEOREM StatusIsEarned == Spec => []StatusCoversAll
<1>1. IInv => StatusCoversAll
  BY DEF IInv
<1> QED
  BY <1>1, SpecIInv, PTL

\* Each image is scanned under the run's options and its own assertion alone
\* (scanBatch).
THEOREM OptionsAreItsOwn == Spec => []NothingCarried
<1>1. IInv => NothingCarried
  BY DEF IInv
<1> QED
  BY <1>1, SpecIInv, PTL

\* A scan is made of each image that was asked for, once, under what was said of
\* it and nothing else (parseImageList, k8s.Dedupe, dedupeEntries, scanBatch).
THEOREM AsksAreHonoured == Spec => []ScannedAsAsked
<1>1. IInv /\ RInv => ScannedAsAsked
  <2> SUFFICES ASSUME IInv, RInv, Finished, ~inv.inventory, ~TwoManifests
               PROVE  IF inv.bundle # NoBundle
                      THEN [i \in DOMAIN ran |-> ran[i].storeRef]
                             = [i \in DOMAIN Images(inv.bundle) |-> Images(inv.bundle)[i].storeRef]
                      ELSE /\ \A d \in Asked : \E i \in DOMAIN ran : ran[i].ref = d.ref
                           /\ \A i, j \in DOMAIN ran : ran[i].ref = ran[j].ref => i = j
                           /\ \A i \in DOMAIN ran :
                                IF SaidOf(ran[i].ref) = {} THEN ran[i].options = inv.options
                                ELSE \A how \in SaidOf(ran[i].ref) : ran[i].options = Apply(how, inv.options)
    BY DEF ScannedAsAsked, SaidOf
  <2>1. DOMAIN ran = DOMAIN targets
    <3>1. DOMAIN ran = 1..Len(ran) /\ Len(ran) = Len(results)
      BY Longer DEF IInv, Paired
    <3>2. DOMAIN targets = 1..Len(targets) /\ Len(results) = Len(targets)
      BY DEF RInv, Targeted, Finished
    <3> QED
      BY <3>1, <3>2
  <2>2. \A i \in DOMAIN ran : /\ ran[i].ref = targets[i].ref /\ ran[i].storeRef = targets[i].storeRef
                              /\ ran[i].options = Apply(targets[i].assert, inv.options)
    BY DEF IInv, NothingCarried, OptionsFor
  <2>3. phase = "render"
    BY DEF Finished
  <2>4. CASE inv.bundle # NoBundle
    <3>1. targets = HaulTargets(inv.bundle)
      BY <2>3, <2>4 DEF RInv, Targeted
    <3>2. /\ DOMAIN targets = DOMAIN Images(inv.bundle)
          /\ \A i \in DOMAIN targets : targets[i].storeRef = Images(inv.bundle)[i].storeRef
      BY <3>1 DEF HaulTargets
    <3> QED
      BY <2>1, <2>2, <2>4, <3>2
  <2>5. CASE inv.bundle = NoBundle
    <3>1. inv \in Invocations /\ targets = Targets(Entries) /\ (inv.list # NoList => ReadImageList(inv.list).ok)
      BY <2>3, <2>5 DEF RInv, Targeted
    <3>2. /\ DOMAIN targets = DOMAIN Entries
          /\ \A i \in DOMAIN targets : targets[i].ref = Entries[i].ref /\ targets[i].assert = Entries[i].assert
      BY <3>1 DEF Targets
    <3>3. /\ \A d \in Asked : \E n \in DOMAIN Entries : Entries[n].ref = d.ref
          /\ \A m, n \in DOMAIN Entries : Entries[m].ref = Entries[n].ref => m = n
          /\ \A n \in DOMAIN Entries :
               \/ SaidOf(Entries[n].ref) = {} /\ Entries[n].assert = NoAssertion
               \/ SaidOf(Entries[n].ref) # {} /\ \A how \in SaidOf(Entries[n].ref) : Entries[n].assert = how
      BY <3>1, EntriesAsAsked
    <3>4. ASSUME NEW i \in DOMAIN ran, NEW said, said = SaidOf(ran[i].ref)
          PROVE  IF said = {} THEN ran[i].options = inv.options
                 ELSE \A how \in said : ran[i].options = Apply(how, inv.options)
      <4>1. ran[i].ref = Entries[i].ref /\ ran[i].options = Apply(Entries[i].assert, inv.options) /\ i \in DOMAIN Entries
        BY <2>1, <2>2, <3>2
      <4>2. \/ said = {} /\ Entries[i].assert = NoAssertion
            \/ said # {} /\ \A how \in said : Entries[i].assert = how
        BY <3>3, <3>4, <4>1
      <4>3. CASE said = {} /\ Entries[i].assert = NoAssertion
        BY <4>1, <4>3 DEF Apply
      <4>4. CASE said # {} /\ \A how \in said : Entries[i].assert = how
        BY <4>1, <4>4
      <4> QED
        BY <4>2, <4>3, <4>4
    <3>5. \A d \in Asked : \E i \in DOMAIN ran : ran[i].ref = d.ref
      BY <2>1, <2>2, <3>2, <3>3
    <3>6. \A i, j \in DOMAIN ran : ran[i].ref = ran[j].ref => i = j
      BY <2>1, <2>2, <3>2, <3>3
    <3> QED
      BY <2>5, <3>4, <3>5, <3>6
  <2> QED
    BY <2>4, <2>5
<1> QED
  BY <1>1, SpecRInv, PTL

\* What the gate counts of one result.
LEMMA TrippedBy ==
  ASSUME NEW gate, gate.rank \in Nat, NEW res, WellFormed(res)
  PROVE  /\ Evaluate(gate, res)["tripped"] \in Nat
         /\ Evaluate(gate, res)["tripped"] = 0 <=>
              \A f \in res.findings : Classify(f) \in gate.classes => RankOf(f) > gate.rank
<1> DEFINE over == {f \in {f \in res.findings : Classify(f) \in gate.classes} : RankOf(f) <= gate.rank}
<1>1. Evaluate(gate, res)["tripped"] = Cardinality(over)
  BY DEF Evaluate
<1>2. IsFiniteSet(over)
  <2>1. over \subseteq res.findings /\ IsFiniteSet(res.findings)
    BY DEF WellFormed
  <2> HIDE DEF over
  <2> QED
    BY <2>1, FS_Subset
<1>3. over = {} <=> \A f \in res.findings : Classify(f) \in gate.classes => RankOf(f) > gate.rank
  <2>1. \A f \in res.findings : RankOf(f) \in Int
    BY Ranked
  <2> QED
    BY <2>1
<1>4. Cardinality(over) \in Nat /\ (Cardinality(over) = 0 <=> over = {})
  <2> HIDE DEF over
  <2> QED
    BY <1>2, FS_CardinalityType, FS_EmptySet
<1> HIDE DEF over
<1> QED
  BY <1>1, <1>3, <1>4

\* A status of 0 or the gate's is told of the whole fleet, and what it says of the
\* findings is so (evaluateBatch, runBatch).
THEOREM ExitsAreHonest == Spec => []ExitIsHonest
<1>1. IInv /\ RInv => ExitIsHonest
  <2> DEFINE rows == UNION {results[i].result.findings : i \in DOMAIN results}
             at == {i \in DOMAIN results : results[i].scanned}
             v == [i \in at |-> Evaluate(inv.gate, results[i].result)["tripped"]]
  <2> SUFFICES ASSUME IInv, RInv, exit \in {0, ExitGate}
               PROVE  /\ \A i \in DOMAIN targets : i \in DOMAIN results /\ Complete(i)
                      /\ inv.gate.on /\ ~inv.inventory =>
                           IF exit = 0
                           THEN \A f \in rows : BucketOf(f) = "AFFECTED" /\ "affected" \in inv.gate.classes => RankOf(f) > inv.gate.rank
                           ELSE \E f \in rows : Classify(f) \in inv.gate.classes /\ RankOf(f) <= inv.gate.rank
    BY DEF ExitIsHonest
  <2>1. At > Len(targets) /\ \A i \in DOMAIN results : Complete(i)
    BY DEF IInv, StatusCoversAll
  <2>2. DOMAIN results = 1..Len(results) /\ Len(results) \in Nat /\ DOMAIN targets = 1..Len(targets) /\ Len(targets) \in Nat
    BY Longer DEF IInv, Paired, RInv, Targeted
  <2>3. DOMAIN targets \subseteq DOMAIN results
    BY <2>1, <2>2 DEF At
  <2>4. at = DOMAIN results
    BY <2>1 DEF Complete
  <2>5. \A i \in DOMAIN results : WellFormed(results[i].result)
    BY <2>1 DEF Complete, RInv, TrueToTarget
  <2>6. inv.gate.rank \in Nat
    BY GateAssumption DEF RInv, Targeted
  <2>7. ASSUME NEW i \in DOMAIN results
        PROVE  v[i] \in Nat /\ (v[i] = 0 <=> \A f \in results[i].result.findings :
                                  Classify(f) \in inv.gate.classes => RankOf(f) > inv.gate.rank)
    <3>1. v[i] = Evaluate(inv.gate, results[i].result)["tripped"]
      BY <2>4
    <3> HIDE DEF v
    <3> QED
      BY <2>5, <2>6, <3>1, TrippedBy
  <2>8. BatchGate.tripped = SumOf(v)
    BY DEF BatchGate
  <2>9. SumOf(v) \in Nat /\ (SumOf(v) = 0 <=> \A i \in DOMAIN results : v[i] = 0)
    <3>1. DOMAIN v = DOMAIN results /\ IsFiniteSet(DOMAIN results)
      <4>1. DOMAIN v = at
        OBVIOUS
      <4> HIDE DEF v, at
      <4> QED
        BY <2>2, <2>4, <4>1, FS_Interval
    <3> HIDE DEF v
    <3> QED
      BY <2>7, <3>1, SumIsZero
  <2>10. ASSUME inv.gate.on, ~inv.inventory
         PROVE  IF exit = 0
                THEN \A f \in rows : BucketOf(f) = "AFFECTED" /\ "affected" \in inv.gate.classes => RankOf(f) > inv.gate.rank
                ELSE \E f \in rows : Classify(f) \in inv.gate.classes /\ RankOf(f) <= inv.gate.rank
    <3>1. exit = 0 => SumOf(v) = 0
      BY <2>8, <2>9, <2>10 DEF RInv, GateTold
    <3>2. exit # 0 => SumOf(v) # 0
      BY <2>8, <2>9, <2>10 DEF RInv, GateTold
    <3> HIDE DEF v, at
    <3>3. ASSUME NEW f, BucketOf(f) = "AFFECTED" PROVE Classify(f) = "affected"
      BY <3>3, Bucketed DEF Classify
    <3>4. CASE exit = 0
      BY <2>7, <2>9, <3>1, <3>3, <3>4
    <3>5. CASE exit # 0
      <4>1. PICK i \in DOMAIN results : v[i] # 0
        BY <2>9, <3>2, <3>5
      <4>2. PICK f \in results[i].result.findings : Classify(f) \in inv.gate.classes /\ ~ (RankOf(f) > inv.gate.rank)
        BY <2>7, <4>1
      <4>3. RankOf(f) \in Int
        BY <2>5, <4>2, Ranked
      <4> QED
        BY <2>6, <3>5, <4>2, <4>3
    <3> QED
      BY <3>4, <3>5
  <2> QED
    BY <2>1, <2>3, <2>10
<1> QED
  BY <1>1, SpecRInv, PTL

\* The formats of every report agree on what is open, planned for and suppressed,
\* and its text reads no cleaner than the scan.
THEOREM ReportsDoAgree == Spec => []ReportsAgree
<1>1. IInv /\ RInv => ReportsAgree
  <2> SUFFICES ASSUME RInv, NEW res \in ResultsAt("render")
               PROVE  /\ FormatsAgree(res) /\ PlanClears(res) /\ SummaryAgrees(res)
                      /\ GateAgrees(res) /\ TextLooksNoCleaner(res)
    BY DEF ReportsAgree
  <2>1. PICK i \in DOMAIN results : results[i].scanned /\ res = results[i].result
    BY DEF ResultsAt
  <2>2. WellFormed(res)
    BY <2>1 DEF RInv, TrueToTarget
  <2> QED
    BY <2>2, FormatsDoAgree, PlanDoesClear, SummaryDoesAgree, GateDoesAgree, TextIsNoCleaner
<1> QED
  BY <1>1, SpecRInv, PTL

\* When each image has a name of its own, the row of an image says what its scan did.
LEMMA RowOf ==
  ASSUME TrueToTarget, DOMAIN results \subseteq Nat, NEW i \in DOMAIN results,
         \A j \in DOMAIN results : results[j].ref = results[i].ref => j = i
  PROVE  LET r == Row(results[i].ref) IN
         /\ r.target = results[i].ref /\ r.scanned = results[i].scanned
         /\ r.scanned => r.incomplete = Failed(results[i].result)
         /\ r.counts = Counts(results[i].result.findings)
<1> DEFINE ref == results[i].ref
           at == {j \in DOMAIN results : results[j].ref = ref /\ results[j].scanned}
           good == [target |-> ref, scanned |-> TRUE, incomplete |-> Failed(results[i].result),
                    counts |-> Counts(results[i].result.findings)]
           bad == [target |-> ref, scanned |-> FALSE, incomplete |-> FALSE, counts |-> NoCounts]
<1>1. results[i].scanned \in BOOLEAN
  BY DEF TrueToTarget
<1>2. CASE results[i].scanned
  <2>1. at = {i}
    BY <1>2
  <2>2. Max(at) = i
    <3>1. at \subseteq Nat /\ at # {} /\ IsFiniteSet(at)
      BY <2>1, FS_Singleton
    <3> HIDE DEF at
    <3> QED
      BY <2>1, <3>1, GreatestNumber
  <2>3. ~ \E j \in DOMAIN results : results[j].ref = ref /\ ~results[j].scanned
    BY <1>2
  <2>4. Row(ref) = good
    <3>1. Row(ref) = [target |-> ref, scanned |-> TRUE, incomplete |-> Failed(results[Max(at)].result),
                      counts |-> Counts(results[Max(at)].result.findings)]
      <4> HIDE DEF ref
      <4> QED
        BY <2>3 DEF Row
    <3> HIDE DEF at
    <3> QED
      BY <2>2, <3>1
  <2>5. good.target = ref /\ good.scanned = TRUE /\ good.incomplete = Failed(results[i].result)
        /\ good.counts = Counts(results[i].result.findings)
    OBVIOUS
  <2> HIDE DEF good, at
  <2> QED
    BY <1>2, <2>4, <2>5
<1>3. CASE ~results[i].scanned
  <2>1. Row(ref) = bad
    BY <1>3 DEF Row
  <2>2. results[i].result.findings = {}
    BY <1>3 DEF TrueToTarget, NoResult
  <2>3. bad.target = ref /\ bad.scanned = FALSE /\ bad.counts = NoCounts
    OBVIOUS
  <2> HIDE DEF bad, at
  <2> QED
    BY <1>1, <1>3, <2>1, <2>2, <2>3 DEF NoCounts
<1> QED
  BY <1>1, <1>2, <1>3

\* As many names as places: no two places have the same name.
LEMMA NamesDistinct ==
  ASSUME NEW n \in Nat, NEW name, DOMAIN name = 1..n, Cardinality({name[i] : i \in 1..n}) = n
  PROVE  \A i, j \in 1..n : name[i] = name[j] => i = j
<1> DEFINE f == [i \in 1..n |-> name[i]]
           T == {name[i] : i \in 1..n}
<1>1. f \in Surjection(1..n, T)
  BY DEF Surjection
<1>2. IsFiniteSet(1..n) /\ Cardinality(1..n) = n
  BY FS_Interval
<1>3. f \in Injection(1..n, T)
  <2> HIDE DEF f
  <2>1. Cardinality(T) = Cardinality(1..n)
    BY <1>2
  <2> HIDE DEF T
  <2> QED
    BY <1>1, <1>2, <2>1, FS_Surjection
<1> QED
  BY <1>3 DEF Injection, IsInjective

\* Every image asked for has its row, and the total of the roll-up is the number
\* of findings (batchRows, writeBatchTable).
THEOREM TablesAccount == Spec => []TableAccounts
<1>1. IInv /\ RInv => TableAccounts
  <2> DEFINE rows == {Row(results[i].ref) : i \in DOMAIN results}
  <2> SUFFICES ASSUME IInv, RInv, phase = "verdict", BatchMode, ~cut,
                      Cardinality({targets[i].ref : i \in DOMAIN targets}) = Len(targets)
               PROVE  /\ \A i \in DOMAIN targets : \E r \in shown :
                           r.target = targets[i].ref /\ r.scanned = results[i].scanned
                           /\ (r.scanned => r.incomplete = Failed(results[i].result))
                      /\ {r.target : r \in {r \in shown : ~r.scanned}} = NotScanned
                      /\ \A b \in DOMAIN NoCounts :
                           SumOf([r \in shown |-> r.counts[b]]) =
                           SumOf([i \in DOMAIN results |-> Counts(results[i].result.findings)[b]])
    BY DEF TableAccounts
  <2>1. /\ TrueToTarget
        /\ DOMAIN targets = 1..Len(targets) /\ Len(targets) \in Nat
        /\ DOMAIN results = 1..Len(results) /\ Len(results) \in Nat
    BY Longer DEF IInv, Paired, RInv, Targeted
  <2>2. DOMAIN results = DOMAIN targets
    <3>1. At > Len(targets)
      BY DEF RInv, Drawn, After
    <3>2. \A i \in 1..Len(results) : i \in 1..Len(targets)
      BY <2>1 DEF TrueToTarget
    <3>3. Len(results) <= Len(targets)
      <4>1. Len(results) = 0 \/ Len(results) \in 1..Len(results)
        BY ONLY <2>1
      <4> QED
        BY ONLY <2>1, <3>2, <4>1
    <3>4. Len(results) = Len(targets)
      <4>1. Len(results) + 1 > Len(targets)
        BY <3>1 DEF At
      <4>2. Len(results) \in Nat /\ Len(targets) \in Nat
        BY <2>1
      <4> QED
        BY ONLY <3>3, <4>1, <4>2
    <3> QED
      BY ONLY <2>1, <3>4
  <2>3. \A i \in DOMAIN results : results[i].ref = targets[i].ref
    BY <2>1 DEF TrueToTarget
  <2>4. \A i, j \in DOMAIN results : results[i].ref = results[j].ref => i = j
    <3> DEFINE name == [i \in 1..Len(targets) |-> targets[i].ref]
    <3>1. /\ DOMAIN name = 1..Len(targets) /\ \A i \in 1..Len(targets) : name[i] = targets[i].ref
          /\ {name[i] : i \in 1..Len(targets)} = {targets[i].ref : i \in DOMAIN targets}
      BY <2>1
    <3> HIDE DEF name
    <3>2. Cardinality({name[i] : i \in 1..Len(targets)}) = Len(targets)
      BY <3>1
    <3>3. \A i, j \in 1..Len(targets) : name[i] = name[j] => i = j
      BY <2>1, <3>1, <3>2, NamesDistinct
    <3> QED
      BY <2>1, <2>2, <2>3, <3>1, <3>3
  <2>5. ASSUME NEW i \in DOMAIN results
        PROVE  /\ Row(results[i].ref).target = results[i].ref /\ Row(results[i].ref).scanned = results[i].scanned
               /\ Row(results[i].ref).scanned => Row(results[i].ref).incomplete = Failed(results[i].result)
               /\ Row(results[i].ref).counts = Counts(results[i].result.findings)
    <3>1. DOMAIN results \subseteq Nat
      BY ONLY <2>1
    <3> QED
      BY <2>1, <2>4, <3>1, RowOf
  <2>6. shown = rows
    <3>1. shown = BatchRows
      BY DEF RInv, Drawn
    <3>2. {i \in DOMAIN targets : \E j \in DOMAIN results : results[j].ref = targets[i].ref} = DOMAIN results
      BY <2>2, <2>3
    <3>3. BatchRows = {Row(targets[i].ref) : i \in DOMAIN results}
      BY <3>2 DEF BatchRows
    <3> QED
      BY <2>3, <3>1, <3>3
  <2>7. \A i \in DOMAIN targets : \E r \in rows :
           r.target = targets[i].ref /\ r.scanned = results[i].scanned
           /\ (r.scanned => r.incomplete = Failed(results[i].result))
    BY <2>2, <2>3, <2>5
  <2>8. {r.target : r \in {r \in rows : ~r.scanned}} = NotScanned
    <3> DEFINE some == {r.target : r \in {r \in rows : ~r.scanned}}
    <3>1. ASSUME NEW t \in some PROVE t \in NotScanned
      <4>1. PICK i \in DOMAIN results : t = Row(results[i].ref).target /\ ~Row(results[i].ref).scanned
        OBVIOUS
      <4> QED
        BY <2>5, <4>1 DEF NotScanned
    <3>2. ASSUME NEW t \in NotScanned PROVE t \in some
      <4>1. PICK i \in DOMAIN results : t = results[i].ref /\ ~results[i].scanned
        BY DEF NotScanned
      <4>2. Row(results[i].ref) \in rows /\ ~Row(results[i].ref).scanned /\ Row(results[i].ref).target = t
        BY <2>5, <4>1
      <4> HIDE DEF rows
      <4> QED
        BY <4>2
    <3> QED
      BY <3>1, <3>2
  <2>9. ASSUME NEW b \in DOMAIN NoCounts
        PROVE  SumOf([r \in rows |-> r.counts[b]]) =
               SumOf([i \in DOMAIN results |-> Counts(results[i].result.findings)[b]])
    <3> DEFINE u == [r \in rows |-> r.counts[b]]
               v == [i \in DOMAIN results |-> Counts(results[i].result.findings)[b]]
               m == [i \in DOMAIN results |-> Row(results[i].ref)]
    <3>1. IsFiniteSet(DOMAIN results)
      BY ONLY <2>1, FS_Interval
    <3>2. ASSUME NEW i \in DOMAIN results PROVE Counts(results[i].result.findings)[b] \in Nat
      <4> DEFINE F == results[i].result.findings
      <4>1. IsFiniteSet(F)
        <5>1. IF results[i].scanned THEN WellFormed(results[i].result) ELSE results[i].result = NoResult
          BY <2>1 DEF TrueToTarget
        <5>2. NoResult.findings = {}
          BY DEF NoResult
        <5> QED
          BY <5>1, <5>2, FS_EmptySet DEF WellFormed
      <4> HIDE DEF F
      <4>2. IsFiniteSet({f \in F : BucketOf(f) = b})
        BY <4>1, FS_Subset
      <4>3. Cardinality({f \in F : BucketOf(f) = b}) \in Nat
        BY <4>2, FS_CardinalityType
      <4>4. b \in {Buckets[k] : k \in 1..4}
        BY DEF NoCounts, Counts
      <4>5. Counts(F)[b] = Cardinality({f \in F : BucketOf(f) = b})
        BY <4>4 DEF Counts
      <4> QED
        BY <4>3, <4>5 DEF F
    <3>3. DOMAIN v = DOMAIN results /\ \A i \in DOMAIN v : v[i] \in Nat
      BY <3>2
    <3>4. DOMAIN u = rows /\ DOMAIN m = DOMAIN results /\ rows = {m[i] : i \in DOMAIN results} /\ m \in [DOMAIN results -> rows]
      OBVIOUS
    <3>5. \A i, j \in DOMAIN results : m[i] = m[j] => i = j
      <4>1. \A i \in DOMAIN results : m[i].target = results[i].ref
        BY <2>5
      <4> HIDE DEF m
      <4> QED
        BY <2>4, <4>1
    <3>6. \A i \in DOMAIN results : u[m[i]] = v[i]
      <4>1. \A i \in DOMAIN results : m[i] \in rows /\ m[i].counts = Counts(results[i].result.findings)
        BY <2>5
      <4> HIDE DEF m, rows
      <4> QED
        BY <4>1
    <3> HIDE DEF u, v, m, rows
    <3>7. SumOf(u) = SumOf(v)
      BY <3>1, <3>3, <3>4, <3>5, <3>6, SumRenamed
    <3> QED
      BY <3>7 DEF u, v
  <2> HIDE DEF rows
  <2> QED
    BY <2>6, <2>7, <2>8, <2>9
<1> QED
  BY <1>1, SpecRInv, PTL
=============================================================================
