------------------------------ MODULE VexProofs ------------------------------
(***************************************************************************)
(* What a run writes into a VEX hub takes nothing out of it, and the index *)
(* names no document that is not there: for every hub, scan and setting    *)
(* that HubAssumption allows, and a run stopped at, or in the middle of,   *)
(* any write.                                                              *)
(*                                                                         *)
(* The argument goes from the inside out: a claim added to an OpenVEX      *)
(* document or an advisory leaves what it says (MergedKeeps, ClaimAdded),  *)
(* so a merge extends the document it was given (AdvisoryMerged,           *)
(* StatementsMerged); a plan is made of such merges at places of their     *)
(* own, then an index of which every new entry is on disk or earlier in    *)
(* the plan (PlanIsPlanned); and what is left of a plan after a write is   *)
(* such a plan again, for the hub as the write left it (PlanGoesOn).       *)
(*                                                                         *)
(* And what a run proposes a reader finds.  A merge leaves a document that *)
(* has each claim (StatementsHaveThem, AdvisoryHasThem), so it says what   *)
(* speaks to it (StatementSpeaks, AdvisorySpeaks), and of the statements   *)
(* that speak one is preferred (OneIsBest), so the reader is answered      *)
(* (Heard, Answers); the plan leaves that document where the index points  *)
(* (ProductLeft, FoundThere); and RInv keeps what a reader relies on,      *)
(* which is that the index points each product at one place, statements    *)
(* are dated, advisories of the run's products define what they list, and  *)
(* what answered the scan is still there to be read.                       *)
(***************************************************************************)
EXTENDS VexProposals, SequenceTheorems, FiniteSetTheorems, WellFoundedInduction, NaturalsInduction, TLAPS

-----------------------------------------------------------------------------
(* Numbers, and the loops.                                                 *)

\* A property of 0 that every number passes on to the next holds of them all.
LEMMA CountUp ==
  ASSUME NEW G, 0 \in G, \A n \in Nat : n \in G => n + 1 \in G
  PROVE  \A n \in Nat : n \in G
<1> DEFINE R == {ss \in Nat \X Nat : ss[1] < ss[2]}
           T == {n \in Nat : n \notin G}
<1>1. SUFFICES ASSUME T # {} PROVE FALSE
  OBVIOUS
<1>2. IsWellFoundedOn(R, Nat)
  BY NatLessThanWellFounded DEF OpToRel
<1> HIDE DEF R
<1>3. PICK x \in T : \A y \in T : <<y, x>> \notin R
  BY <1>1, <1>2, WFMin
<1> USE DEF R
<1>4. x \in Nat /\ x # 0
  OBVIOUS
<1>5. x - 1 \in Nat /\ x - 1 < x /\ (x - 1) + 1 = x
  BY <1>4
<1>6. x - 1 \notin T
  BY <1>3, <1>4, <1>5
<1> QED
  BY <1>4, <1>5, <1>6

\* The bound on a chain of relationships is a number.
LEMMA DepthIs == MaxRelationshipDepth \in Nat
BY DEF MaxRelationshipDepth

\* What a recursive function is at each number, for the three loops: over the
\* hops of a chain (Resolve), the claims of an OpenVEX document
\* (mergeClaims) and those of an advisory (addClaims).
HopsAlong(g, doc, pid) ==
  /\ DOMAIN g = 0..MaxRelationshipDepth
  /\ g[0] = pid
  /\ \A n \in 1..MaxRelationshipDepth : g[n] = Hop(doc, g[n - 1])

\* A chain is followed hop by hop.
LEMMA HopByHop ==
  ASSUME NEW doc, NEW pid
  PROVE  \E g : HopsAlong(g, doc, pid) /\ ContainerAfter(doc, pid) = g[MaxRelationshipDepth]
<1> DEFINE body(g, m) == [n \in 0..m |-> IF n = 0 THEN pid ELSE Hop(doc, g[n - 1])]
           Solves(g, m) == g = body(g, m)
           G == {m \in Nat : \E g : Solves(g, m)}
<1>1. 0 \in G
  <2>1. Solves([n \in 0..0 |-> pid], 0)
    OBVIOUS
  <2> QED
    BY <2>1
<1>2. ASSUME NEW m \in Nat, m \in G PROVE m + 1 \in G
  <2>1. PICK g : Solves(g, m)
    BY <1>2
  <2> DEFINE h == [n \in 0..(m + 1) |-> IF n = 0 THEN pid ELSE Hop(doc, g[n - 1])]
  <2>2. /\ \A n \in 0..m : n \in 0..(m + 1)
        /\ \A n \in 0..(m + 1) : n # 0 => n - 1 \in 0..m
    OBVIOUS
  <2>3. \A n \in 0..m : h[n] = g[n]
    <3>1. \A n \in 0..m : g[n] = IF n = 0 THEN pid ELSE Hop(doc, g[n - 1])
      BY <2>1
    <3> QED
      BY <2>2, <3>1
  <2>4. \A n \in 0..(m + 1) : n # 0 => h[n - 1] = g[n - 1]
    BY <2>2, <2>3
  <2>5. Solves(h, m + 1)
    <3>1. \A n \in 0..(m + 1) : h[n] = IF n = 0 THEN pid ELSE Hop(doc, h[n - 1])
      BY <2>4
    <3> QED
      BY <3>1
  <2> HIDE DEF Solves, h
  <2> QED
    BY <2>5
<1> HIDE DEF G
<1>3. MaxRelationshipDepth \in G
  BY <1>1, <1>2, CountUp, DepthIs
<1> USE DEF G
<1> DEFINE f == CHOOSE g : g = body(g, MaxRelationshipDepth)
<1>4. f = body(f, MaxRelationshipDepth)
  <2> HIDE DEF body
  <2> QED
    BY <1>3
<1>5. ContainerAfter(doc, pid) = f[MaxRelationshipDepth]
  BY DEF ContainerAfter
<1> HIDE DEF f
<1>6. /\ DOMAIN f = 0..MaxRelationshipDepth /\ 0 \in 0..MaxRelationshipDepth /\ f[0] = pid
      /\ \A n \in 1..MaxRelationshipDepth : f[n] = Hop(doc, f[n - 1])
  <2>1. /\ 0 \in 0..MaxRelationshipDepth /\ \A n \in 1..MaxRelationshipDepth : n \in 0..MaxRelationshipDepth /\ n # 0
    BY DepthIs
  <2>2. /\ DOMAIN f = 0..MaxRelationshipDepth
        /\ \A n \in 0..MaxRelationshipDepth : f[n] = IF n = 0 THEN pid ELSE Hop(doc, f[n - 1])
    BY <1>4
  <2> HIDE DEF body
  <2> QED
    BY <2>1, <2>2
<1>7. HopsAlong(f, doc, pid)
  BY <1>6 DEF HopsAlong
<1> QED
  BY <1>5, <1>7

MergesThem(g, S, claims) ==
  /\ DOMAIN g = 0..Len(claims)
  /\ g[0] = S
  /\ \A n \in 1..Len(claims) : g[n] = AddStatement(g[n - 1], claims[n])

\* An OpenVEX document is given its claims one by one.
LEMMA MergedClaimByClaim ==
  ASSUME NEW S, NEW claims, Len(claims) \in Nat
  PROVE  \E g : MergesThem(g, S, claims) /\ MergeClaims(S, claims) = g[Len(claims)]
<1> DEFINE body(g, m) == [n \in 0..m |-> IF n = 0 THEN S ELSE AddStatement(g[n - 1], claims[n])]
           Solves(g, m) == g = body(g, m)
           G == {m \in Nat : \E g : Solves(g, m)}
<1>1. 0 \in G
  <2>1. Solves([n \in 0..0 |-> S], 0)
    OBVIOUS
  <2> QED
    BY <2>1
<1>2. ASSUME NEW m \in Nat, m \in G PROVE m + 1 \in G
  <2>1. PICK g : Solves(g, m)
    BY <1>2
  <2> DEFINE h == [n \in 0..(m + 1) |-> IF n = 0 THEN S ELSE AddStatement(g[n - 1], claims[n])]
  <2>2. /\ \A n \in 0..m : n \in 0..(m + 1)
        /\ \A n \in 0..(m + 1) : n # 0 => n - 1 \in 0..m
    OBVIOUS
  <2>3. \A n \in 0..m : h[n] = g[n]
    <3>1. \A n \in 0..m : g[n] = IF n = 0 THEN S ELSE AddStatement(g[n - 1], claims[n])
      BY <2>1
    <3> QED
      BY <2>2, <3>1
  <2>4. \A n \in 0..(m + 1) : n # 0 => h[n - 1] = g[n - 1]
    BY <2>2, <2>3
  <2>5. Solves(h, m + 1)
    <3>1. \A n \in 0..(m + 1) : h[n] = IF n = 0 THEN S ELSE AddStatement(h[n - 1], claims[n])
      BY <2>4
    <3> QED
      BY <3>1
  <2> HIDE DEF Solves, h
  <2> QED
    BY <2>5
<1> HIDE DEF G
<1>3. Len(claims) \in G
  BY <1>1, <1>2, CountUp
<1> USE DEF G
<1> DEFINE f == CHOOSE g : g = body(g, Len(claims))
<1>4. f = body(f, Len(claims))
  <2> HIDE DEF body
  <2> QED
    BY <1>3
<1>5. MergeClaims(S, claims) = f[Len(claims)]
  BY DEF MergeClaims
<1> HIDE DEF f
<1>6. /\ DOMAIN f = 0..Len(claims) /\ 0 \in 0..Len(claims) /\ f[0] = S
      /\ \A n \in 1..Len(claims) : f[n] = AddStatement(f[n - 1], claims[n])
  <2>1. /\ 0 \in 0..Len(claims) /\ \A n \in 1..Len(claims) : n \in 0..Len(claims) /\ n # 0
    OBVIOUS
  <2>2. /\ DOMAIN f = 0..Len(claims)
        /\ \A n \in 0..Len(claims) : f[n] = IF n = 0 THEN S ELSE AddStatement(f[n - 1], claims[n])
    BY <1>4
  <2> HIDE DEF body
  <2> QED
    BY <2>1, <2>2
<1>7. MergesThem(f, S, claims)
  BY <1>6 DEF MergesThem
<1> QED
  BY <1>5, <1>7

AddsThem(g, doc, claims) ==
  /\ DOMAIN g = 0..Len(claims)
  /\ g[0] = doc
  /\ \A n \in 1..Len(claims) : g[n] = AddClaim(g[n - 1], claims[n])

\* And so is an advisory.
LEMMA AddedClaimByClaim ==
  ASSUME NEW doc, NEW claims, Len(claims) \in Nat
  PROVE  \E g : AddsThem(g, doc, claims) /\ AddClaims(doc, claims) = g[Len(claims)]
<1> DEFINE body(g, m) == [n \in 0..m |-> IF n = 0 THEN doc ELSE AddClaim(g[n - 1], claims[n])]
           Solves(g, m) == g = body(g, m)
           G == {m \in Nat : \E g : Solves(g, m)}
<1>1. 0 \in G
  <2>1. Solves([n \in 0..0 |-> doc], 0)
    OBVIOUS
  <2> QED
    BY <2>1
<1>2. ASSUME NEW m \in Nat, m \in G PROVE m + 1 \in G
  <2>1. PICK g : Solves(g, m)
    BY <1>2
  <2> DEFINE h == [n \in 0..(m + 1) |-> IF n = 0 THEN doc ELSE AddClaim(g[n - 1], claims[n])]
  <2>2. /\ \A n \in 0..m : n \in 0..(m + 1)
        /\ \A n \in 0..(m + 1) : n # 0 => n - 1 \in 0..m
    OBVIOUS
  <2>3. \A n \in 0..m : h[n] = g[n]
    <3>1. \A n \in 0..m : g[n] = IF n = 0 THEN doc ELSE AddClaim(g[n - 1], claims[n])
      BY <2>1
    <3> QED
      BY <2>2, <3>1
  <2>4. \A n \in 0..(m + 1) : n # 0 => h[n - 1] = g[n - 1]
    BY <2>2, <2>3
  <2>5. Solves(h, m + 1)
    <3>1. \A n \in 0..(m + 1) : h[n] = IF n = 0 THEN doc ELSE AddClaim(h[n - 1], claims[n])
      BY <2>4
    <3> QED
      BY <3>1
  <2> HIDE DEF Solves, h
  <2> QED
    BY <2>5
<1> HIDE DEF G
<1>3. Len(claims) \in G
  BY <1>1, <1>2, CountUp
<1> USE DEF G
<1> DEFINE f == CHOOSE g : g = body(g, Len(claims))
<1>4. f = body(f, Len(claims))
  <2> HIDE DEF body
  <2> QED
    BY <1>3
<1>5. AddClaims(doc, claims) = f[Len(claims)]
  BY DEF AddClaims
<1> HIDE DEF f
<1>6. /\ DOMAIN f = 0..Len(claims) /\ 0 \in 0..Len(claims) /\ f[0] = doc
      /\ \A n \in 1..Len(claims) : f[n] = AddClaim(f[n - 1], claims[n])
  <2>1. /\ 0 \in 0..Len(claims) /\ \A n \in 1..Len(claims) : n \in 0..Len(claims) /\ n # 0
    OBVIOUS
  <2>2. /\ DOMAIN f = 0..Len(claims)
        /\ \A n \in 0..Len(claims) : f[n] = IF n = 0 THEN doc ELSE AddClaim(f[n - 1], claims[n])
    BY <1>4
  <2> HIDE DEF body
  <2> QED
    BY <2>1, <2>2
<1>7. AddsThem(f, doc, claims)
  BY <1>6 DEF AddsThem
<1> QED
  BY <1>5, <1>7

\* Any set of numbers with one in it has a least.
LEMMA LeastNumber ==
  ASSUME NEW P, P \subseteq Nat, P # {}
  PROVE  Min(P) \in P /\ \A y \in P : Min(P) <= y
<1> DEFINE R == {ss \in Nat \X Nat : ss[1] < ss[2]}
<1>1. IsWellFoundedOn(R, Nat)
  BY NatLessThanWellFounded DEF OpToRel
<1> HIDE DEF R
<1>2. PICK x \in P : \A y \in P : <<y, x>> \notin R
  BY <1>1, WFMin
<1> USE DEF R
<1>3. ASSUME NEW y \in P PROVE x <= y
  <2>1. x \in Nat /\ y \in Nat
    OBVIOUS
  <2>2. <<y, x>> \in R <=> y < x
    BY <2>1
  <2> HIDE DEF R
  <2> QED
    BY <1>2, <2>1, <2>2
<1> QED
  BY <1>3 DEF Min

-----------------------------------------------------------------------------
(* The loops that keep some of a list.                                     *)

TakesThem(g, n, places) ==
  /\ g[0] = <<>>
  /\ \A i \in 1..n : g[i] = IF i \in places THEN Append(g[i - 1], i) ELSE g[i - 1]

\* A list is gone through place by place.
LEMMA PlaceByPlace ==
  ASSUME NEW n \in Nat, NEW places
  PROVE  \E g : TakesThem(g, n, places) /\ InOrder(n, places) = g[n]
<1> DEFINE body(g, m) == [i \in 0..m |-> IF i = 0 THEN <<>> ELSE IF i \in places THEN Append(g[i - 1], i) ELSE g[i - 1]]
           Solves(g, m) == g = body(g, m)
           G == {m \in Nat : \E g : Solves(g, m)}
<1>1. 0 \in G
  <2>1. Solves([i \in 0..0 |-> <<>>], 0)
    OBVIOUS
  <2> QED
    BY <2>1
<1>2. ASSUME NEW m \in Nat, m \in G PROVE m + 1 \in G
  <2>1. PICK g : Solves(g, m)
    BY <1>2
  <2> DEFINE h == [i \in 0..(m + 1) |-> IF i = 0 THEN <<>> ELSE IF i \in places THEN Append(g[i - 1], i) ELSE g[i - 1]]
  <2>2. /\ \A i \in 0..m : i \in 0..(m + 1)
        /\ \A i \in 0..(m + 1) : i # 0 => i - 1 \in 0..m
    OBVIOUS
  <2>3. \A i \in 0..m : h[i] = g[i]
    <3>1. \A i \in 0..m : g[i] = IF i = 0 THEN <<>> ELSE IF i \in places THEN Append(g[i - 1], i) ELSE g[i - 1]
      BY <2>1
    <3> QED
      BY <2>2, <3>1
  <2>4. \A i \in 0..(m + 1) : i # 0 => h[i - 1] = g[i - 1]
    BY <2>2, <2>3
  <2>5. Solves(h, m + 1)
    <3>1. \A i \in 0..(m + 1) : h[i] = IF i = 0 THEN <<>> ELSE IF i \in places THEN Append(h[i - 1], i) ELSE h[i - 1]
      BY <2>4
    <3> QED
      BY <3>1
  <2> HIDE DEF Solves, h
  <2> QED
    BY <2>5
<1> HIDE DEF G
<1>3. n \in G
  BY <1>1, <1>2, CountUp
<1> USE DEF G
<1> DEFINE f == CHOOSE g : g = body(g, n)
<1>4. f = body(f, n)
  <2> HIDE DEF body
  <2> QED
    BY <1>3
<1>5. InOrder(n, places) = f[n]
  BY DEF InOrder
<1> HIDE DEF f
<1>6. /\ DOMAIN f = 0..n /\ 0 \in 0..n /\ f[0] = <<>>
      /\ \A i \in 1..n : f[i] = IF i \in places THEN Append(f[i - 1], i) ELSE f[i - 1]
  <2>1. /\ 0 \in 0..n /\ \A i \in 1..n : i \in 0..n /\ i # 0
    OBVIOUS
  <2>2. /\ DOMAIN f = 0..n
        /\ \A i \in 0..n : f[i] = IF i = 0 THEN <<>> ELSE IF i \in places THEN Append(f[i - 1], i) ELSE f[i - 1]
    BY <1>4
  <2> HIDE DEF body
  <2> QED
    BY <2>1, <2>2
<1>7. TakesThem(f, n, places)
  BY <1>6 DEF TakesThem
<1> QED
  BY <1>5, <1>7

\* A list of the places up to n that are in a set, each once and in order.
Lists(r, n, places) ==
  /\ r \in Seq(1..n) /\ ToSet(r) = places \cap 1..n
  /\ \A j, k \in DOMAIN r : r[j] = r[k] => j = k

\* The next place is listed if it is in the set.
LEMMA OneMorePlace ==
  ASSUME NEW m \in Nat, NEW places, NEW r, Lists(r, m, places)
  PROVE  Lists(IF m + 1 \in places THEN Append(r, m + 1) ELSE r, m + 1, places)
<1>1. /\ r \in Seq(1..(m + 1)) /\ DOMAIN r = 1..Len(r) /\ Len(r) \in Nat /\ \A k \in DOMAIN r : r[k] \in 1..m
      /\ m + 1 \notin 1..m /\ 1..(m + 1) = 1..m \cup {m + 1}
  BY DEF Lists
<1>2. CASE m + 1 \in places
  <2> DEFINE q == Append(r, m + 1)
  <2>1. /\ q \in Seq(1..(m + 1)) /\ DOMAIN q = DOMAIN r \cup {Len(r) + 1} /\ q[Len(r) + 1] = m + 1
        /\ \A k \in DOMAIN r : q[k] = r[k]
    BY <1>1, AppendProperties
  <2> HIDE DEF q
  <2>2. ToSet(q) = ToSet(r) \cup {m + 1}
    BY <2>1 DEF ToSet
  <2>3. \A j, k \in DOMAIN q : q[j] = q[k] => j = k
    BY <1>1, <2>1 DEF Lists
  <2>4. ToSet(q) = places \cap 1..(m + 1)
    BY <1>1, <1>2, <2>2 DEF Lists
  <2>5. Lists(q, m + 1, places)
    BY <2>1, <2>3, <2>4 DEF Lists
  <2> QED
    BY <1>2, <2>5 DEF q
<1>3. CASE m + 1 \notin places
  <2>1. ToSet(r) = places \cap 1..(m + 1)
    BY <1>1, <1>3 DEF Lists
  <2> QED
    BY <1>1, <1>3, <2>1 DEF Lists
<1> QED
  BY <1>2, <1>3

\* The loop that goes over them makes that list.
LEMMA InOrderLists ==
  ASSUME NEW n \in Nat, NEW places
  PROVE  Lists(InOrder(n, places), n, places)
<1>0. PICK g : TakesThem(g, n, places) /\ InOrder(n, places) = g[n]
  BY PlaceByPlace
<1>1. /\ g[0] = <<>>
      /\ \A i \in 1..n : g[i] = IF i \in places THEN Append(g[i - 1], i) ELSE g[i - 1]
      /\ InOrder(n, places) = g[n]
  BY <1>0 DEF TakesThem
<1> DEFINE G == {m \in Nat : m <= n => Lists(g[m], m, places)}
<1>2. 0 \in G
  <2>1. Lists(<<>>, 0, places)
    BY DEF Lists, ToSet
  <2> QED
    BY <1>1, <2>1
<1>3. ASSUME NEW m \in Nat, m \in G PROVE m + 1 \in G
  <2> SUFFICES ASSUME m + 1 <= n PROVE Lists(g[m + 1], m + 1, places)
    OBVIOUS
  <2>1. Lists(g[m], m, places)
    BY <1>3
  <2>2. m + 1 \in 1..n /\ (m + 1) - 1 = m
    OBVIOUS
  <2>3. g[m + 1] = IF m + 1 \in places THEN Append(g[m], m + 1) ELSE g[m]
    BY <1>1, <2>2
  <2> QED
    BY <2>1, <2>3, OneMorePlace
<1> HIDE DEF G
<1>4. n \in G
  BY <1>2, <1>3, CountUp
<1> QED
  BY <1>1, <1>4 DEF G

\* What is selected from a list is a list of just the elements at the places.
LEMMA Selected ==
  ASSUME NEW S, NEW s \in Seq(S), NEW places
  PROVE  /\ Select(s, places) \in Seq(S)
         /\ ToSet(Select(s, places)) = {s[i] : i \in places \cap DOMAIN s}
         /\ (\A i, j \in DOMAIN s : s[i] = s[j] => i = j) =>
              \A i, j \in DOMAIN Select(s, places) : Select(s, places)[i] = Select(s, places)[j] => i = j
<1> DEFINE n == Len(s)
           r == InOrder(n, places)
           t == Select(s, places)
<1>1. n \in Nat /\ DOMAIN s = 1..n /\ \A i \in 1..n : s[i] \in S
  BY LenProperties
<1>2. r \in Seq(1..n) /\ ToSet(r) = places \cap 1..n /\ \A j, k \in DOMAIN r : r[j] = r[k] => j = k
  BY <1>1, InOrderLists DEF Lists
<1>3. DOMAIN r = 1..Len(r) /\ Len(r) \in Nat /\ \A k \in 1..Len(r) : r[k] \in 1..n
  BY <1>2, LenProperties, ElementOfSeq
<1>4. t = [k \in DOMAIN r |-> s[r[k]]]
  BY DEF Select
<1> HIDE DEF n, r, t
<1>5. t \in Seq(S)
  <2>1. t \in [1..Len(r) -> S]
    BY <1>1, <1>3, <1>4
  <2> QED
    BY <1>3, <2>1
<1>6. ToSet(t) = {s[r[k]] : k \in DOMAIN r}
  BY <1>4 DEF ToSet
<1>7. {s[r[k]] : k \in DOMAIN r} = {s[i] : i \in ToSet(r)}
  BY DEF ToSet
<1>8. (\A i, j \in DOMAIN s : s[i] = s[j] => i = j) => \A i, j \in DOMAIN t : t[i] = t[j] => i = j
  BY <1>1, <1>2, <1>3, <1>4
<1> QED
  BY <1>1, <1>2, <1>5, <1>6, <1>7, <1>8 DEF t

\* A list laid behind another.
LEMMA BothParts ==
  ASSUME NEW S, NEW s \in Seq(S), NEW t \in Seq(S)
  PROVE  s \o t \in Seq(S) /\ ToSet(s \o t) = ToSet(s) \cup ToSet(t)
<1>1. /\ s \o t \in Seq(S) /\ DOMAIN (s \o t) = 1..(Len(s) + Len(t)) /\ Len(s) \in Nat /\ Len(t) \in Nat
      /\ \A i \in 1..(Len(s) + Len(t)) : (s \o t)[i] = IF i <= Len(s) THEN s[i] ELSE t[i - Len(s)]
      /\ DOMAIN s = 1..Len(s) /\ DOMAIN t = 1..Len(t)
  BY ConcatProperties, LenProperties
<1> DEFINE q == s \o t
<1> HIDE DEF q
<1>2. \A i \in DOMAIN s : i \in DOMAIN q /\ q[i] = s[i]
  BY <1>1 DEF q
<1>3. \A i \in DOMAIN t : Len(s) + i \in DOMAIN q /\ q[Len(s) + i] = t[i]
  BY <1>1 DEF q
<1>4. \A i \in DOMAIN q : (i \in DOMAIN s /\ q[i] = s[i]) \/ (i - Len(s) \in DOMAIN t /\ q[i] = t[i - Len(s)])
  BY <1>1 DEF q
<1>5. ToSet(q) = ToSet(s) \cup ToSet(t)
  BY <1>2, <1>3, <1>4 DEF ToSet
<1> QED
  BY <1>1, <1>5 DEF q

\* Lists laid end to end are a list of all their elements.
LEMMA Flattened ==
  ASSUME NEW S, NEW seqs \in Seq(Seq(S))
  PROVE  FlattenSeq(seqs) \in Seq(S) /\ ToSet(FlattenSeq(seqs)) = UNION {ToSet(seqs[i]) : i \in DOMAIN seqs}
<1> DEFINE n == Len(seqs)
           D(m) == 1..m
           step(g, i) == IF i = 1 THEN seqs[i] ELSE g[i - 1] \o seqs[i]
           Solves(g, m) == g = [i \in D(m) |-> step(g, i)]
           G == {m \in Nat : \E g : Solves(g, m)}
           all(m) == UNION {ToSet(seqs[i]) : i \in 1..m}
<1>1. n \in Nat /\ DOMAIN seqs = 1..n /\ \A i \in 1..n : seqs[i] \in Seq(S)
  OBVIOUS
<1>2. 0 \in G
  <2> DEFINE g == [i \in D(0) |-> <<>>]
  <2>1. Solves(g, 0)
    OBVIOUS
  <2> QED
    BY <2>1
<1>3. ASSUME NEW m \in Nat, m \in G PROVE m + 1 \in G
  <2>1. PICK g : Solves(g, m)
    BY <1>3
  <2> DEFINE h == [i \in D(m + 1) |-> IF i = m + 1 THEN step(g, m + 1) ELSE g[i]]
  <2>2. D(m + 1) = D(m) \cup {m + 1} /\ m + 1 \notin D(m) /\ \A i \in D(m + 1) : i # 1 => i - 1 \in D(m)
    OBVIOUS
  <2>3. \A i \in D(m) : g[i] = step(g, i)
    <3> HIDE DEF step
    <3> QED
      BY <2>1
  <2> HIDE DEF D
  <2>4. \A i \in D(m) : h[i] = g[i]
    BY <2>2
  <2>5. \A i \in D(m + 1) : step(h, i) = step(g, i)
    BY <2>2, <2>4
  <2>6. h[m + 1] = step(g, m + 1)
    BY <2>2
  <2> HIDE DEF step
  <2>7. \A i \in D(m + 1) : h[i] = step(h, i)
    BY <2>2, <2>3, <2>4, <2>5, <2>6
  <2>8. Solves(h, m + 1)
    BY <2>7
  <2> HIDE DEF Solves, h
  <2> QED
    BY <2>8
<1> HIDE DEF G
<1>4. n \in G
  BY <1>1, <1>2, <1>3, CountUp
<1> USE DEF G
<1>5. PICK g : Solves(g, n)
  BY <1>4
<1> DEFINE flatten == CHOOSE f : Solves(f, n)
<1>6. Solves(flatten, n)
  <2> HIDE DEF Solves
  <2> QED
    BY <1>5
<1> HIDE DEF flatten
<1> DEFINE H == {m \in Nat : m \in D(n) => flatten[m] \in Seq(S) /\ ToSet(flatten[m]) = all(m)}
<1>7. 0 \in H
  OBVIOUS
<1>8. ASSUME NEW m \in Nat, m \in H PROVE m + 1 \in H
  <2> SUFFICES ASSUME m + 1 \in D(n) PROVE flatten[m + 1] \in Seq(S) /\ ToSet(flatten[m + 1]) = all(m + 1)
    OBVIOUS
  <2>1. flatten[m + 1] = step(flatten, m + 1)
    <3> HIDE DEF step
    <3> QED
      BY <1>6
  <2>2. m + 1 # 1 => m \in D(n) /\ (m + 1) - 1 = m
    BY <1>1
  <2>3. CASE m = 0
    <3>1. flatten[m + 1] = seqs[1] /\ 1..(m + 1) = {1} /\ 1 \in 1..n
      BY <2>1, <2>3
    <3> QED
      BY <1>1, <3>1
  <2>4. CASE m # 0
    <3>0. m + 1 # 1
      BY <2>4
    <3>1. flatten[m + 1] = flatten[m] \o seqs[m + 1]
      BY <2>1, <2>2, <3>0
    <3>4. flatten[m] \in Seq(S) /\ ToSet(flatten[m]) = all(m)
      BY <1>8, <2>2, <3>0
    <3>2. seqs[m + 1] \in Seq(S)
      BY <1>1
    <3>3. all(m + 1) = all(m) \cup ToSet(seqs[m + 1])
      <4>1. 1..(m + 1) = 1..m \cup {m + 1}
        OBVIOUS
      <4> QED
        BY <4>1
    <3>5. /\ flatten[m] \o seqs[m + 1] \in Seq(S)
          /\ ToSet(flatten[m] \o seqs[m + 1]) = ToSet(flatten[m]) \cup ToSet(seqs[m + 1])
      <4> HIDE DEF all, D, n
      <4> QED
        BY <3>2, <3>4, BothParts
    <3> HIDE DEF all
    <3> QED
      BY <3>1, <3>3, <3>4, <3>5
  <2> QED
    BY <2>3, <2>4
<1> HIDE DEF H
<1>9. n \in H
  BY <1>1, <1>7, <1>8, CountUp
<1> USE DEF H
<1>10. CASE n = 0
  <2>1. FlattenSeq(seqs) = seqs /\ seqs = <<>>
    BY <1>10 DEF FlattenSeq
  <2> QED
    BY <1>1, <1>10, <2>1 DEF ToSet
<1>11. CASE n # 0
  <2>1. FlattenSeq(seqs) = flatten[n]
    BY <1>11 DEF FlattenSeq, flatten
  <2>2. n \in D(n)
    BY <1>1, <1>11
  <2> QED
    BY <1>1, <1>9, <1>11, <2>1, <2>2
<1> QED
  BY <1>10, <1>11

\* A set of claims, put in some order.
LEMMA PutInOrder ==
  ASSUME NEW S, IsFiniteSet(S)
  PROVE  SetToSeq(S) \in Seq(S) /\ ToSet(SetToSeq(S)) = S
<1> DEFINE n == Cardinality(S)
<1>1. n \in Nat /\ ExistsBijection(1..n, S)
  BY FS_CardinalityType
<1>2. PICK f \in Bijection(1..n, S) : TRUE
  BY <1>1 DEF ExistsBijection
<1>3. f \in [1..n -> S] /\ IsInjective(f)
  BY <1>2 DEF Bijection, Injection, Surjection, IsInjective
<1>4. SetToSeq(S) \in [1..n -> S] /\ IsInjective(SetToSeq(S))
  BY <1>3 DEF SetToSeq
<1> DEFINE g == SetToSeq(S)
<1> HIDE DEF g
<1> DEFINE R == {g[x] : x \in 1..n}
<1>5. g \in Injection(1..n, R) /\ g \in Surjection(1..n, R) /\ R \subseteq S
  BY <1>4 DEF Injection, Surjection, IsInjective, g
<1>7. IsFiniteSet(1..n) /\ Cardinality(1..n) = n
  BY <1>1, FS_Interval
<1> HIDE DEF R
<1>8. Cardinality(R) = n
  BY <1>5, <1>7, FS_Surjection
<1>9. R = S
  BY <1>5, <1>8, FS_Subset
<1>6. \A y \in S : \E x \in 1..n : g[x] = y
  BY <1>9 DEF R
<1> QED
  BY <1>1, <1>4, <1>6 DEF g, ToSet

-----------------------------------------------------------------------------
(* Lists.                                                                  *)

\* A sequence of any elements is a list, of those it has.
LEMMA ListIs ==
  ASSUME NEW S, NEW s \in Seq(S)
  PROVE  IsList(s) /\ Len(s) \in Nat /\ DOMAIN s = 1..Len(s) /\ ToSet(s) \subseteq S
<1>1. Len(s) \in Nat /\ DOMAIN s = 1..Len(s) /\ \A i \in 1..Len(s) : s[i] \in S
  BY LenProperties
<1>2. s = [i \in 1..Len(s) |-> s[i]]
  BY LenProperties
<1>3. \A i \in 1..Len(s) : s[i] \in ToSet(s)
  BY <1>1 DEF ToSet
<1>4. ToSet(s) \subseteq S
  BY <1>1 DEF ToSet
<1> DEFINE T == ToSet(s)
           n == Len(s)
<1> HIDE DEF T, n
<1>5. n \in Nat /\ s = [i \in 1..n |-> s[i]] /\ \A i \in 1..n : s[i] \in T
  BY <1>1, <1>2, <1>3 DEF T, n
<1>6. s \in Seq(T)
  BY <1>5
<1> QED
  BY <1>1, <1>4, <1>6 DEF IsList, T

\* A list is a sequence of its elements.
LEMMA ListHas ==
  ASSUME NEW s, IsList(s)
  PROVE  Len(s) \in Nat /\ DOMAIN s = 1..Len(s) /\ \A i \in 1..Len(s) : s[i] \in ToSet(s)
<1>1. s \in Seq(ToSet(s))
  BY DEF IsList
<1> HIDE DEF IsList
<1> DEFINE T == ToSet(s)
<1>2. s \in Seq(T)
  BY <1>1
<1> HIDE DEF T
<1>3. Len(s) \in Nat /\ DOMAIN s = 1..Len(s) /\ \A i \in 1..Len(s) : s[i] \in T
  BY <1>2, LenProperties
<1> QED
  BY <1>3 DEF T

\* What a list is once an element is appended.
LEMMA ListGrows ==
  ASSUME NEW s, IsList(s), NEW e
  PROVE  /\ IsList(Append(s, e)) /\ Len(Append(s, e)) = Len(s) + 1
         /\ DOMAIN Append(s, e) = DOMAIN s \cup {Len(s) + 1} /\ Len(s) + 1 \notin DOMAIN s
         /\ \A i \in DOMAIN s : Append(s, e)[i] = s[i]
         /\ Append(s, e)[Len(s) + 1] = e
         /\ ToSet(Append(s, e)) = ToSet(s) \cup {e}
<1> DEFINE T == ToSet(s) \cup {e}
           q == Append(s, e)
<1>1. s \in [1..Len(s) -> T] /\ Len(s) \in Nat /\ DOMAIN s = 1..Len(s)
  <2>1. s \in Seq(ToSet(s)) /\ DOMAIN s = 1..Len(s) /\ \A i \in 1..Len(s) : s[i] \in ToSet(s)
    BY ListHas DEF IsList
  <2> HIDE DEF T
  <2>2. ToSet(s) \subseteq T
    BY DEF T
  <2> QED
    BY <2>1, <2>2
<1>2. s \in Seq(T) /\ e \in T
  BY <1>1
<1> HIDE DEF T
<1>3. /\ q \in Seq(T) /\ Len(q) = Len(s) + 1 /\ q[Len(s) + 1] = e
      /\ \A i \in 1..Len(s) : q[i] = s[i]
  BY <1>2, AppendProperties
<1> HIDE DEF q
<1>4. IsList(q) /\ DOMAIN q = 1..(Len(s) + 1)
  BY <1>3, ListIs
<1>5. 1..(Len(s) + 1) = 1..Len(s) \cup {Len(s) + 1} /\ Len(s) + 1 \notin 1..Len(s)
  BY <1>1
<1>6. ToSet(q) = ToSet(s) \cup {e}
  BY <1>1, <1>3, <1>4, <1>5 DEF ToSet
<1> QED
  BY <1>1, <1>3, <1>4, <1>5, <1>6 DEF q

\* The empty list.
LEMMA NoList == IsList(<<>>) /\ Len(<<>>) = 0 /\ ToSet(<<>>) = {} /\ DOMAIN <<>> = {}
BY DEF IsList, ToSet

-----------------------------------------------------------------------------
(* The claims that an OpenVEX document is given.                           *)

\* As long or longer: what was there is in its place.
Longer(s, t) == /\ IsList(t) /\ Len(s) <= Len(t) /\ \A i \in DOMAIN s : i \in DOMAIN t /\ t[i] = s[i]

\* A claim is appended, unless a statement covers it (mergeClaims).
LEMMA StatementAdded ==
  ASSUME NEW s, IsList(s), NEW c
  PROVE  /\ Longer(s, AddStatement(s, c)) /\ Len(AddStatement(s, c)) # 0
         /\ \E i \in DOMAIN AddStatement(s, c) : AddStatement(s, c)[i] = ClaimStatement(c) \/ StatementCovers(AddStatement(s, c)[i], c)
<1>1. Len(s) \in Nat /\ DOMAIN s = 1..Len(s)
  BY ListHas
<1>2. CASE \E i \in DOMAIN s : StatementCovers(s[i], c)
  <2>1. AddStatement(s, c) = s
    BY <1>2 DEF AddStatement
  <2>3. Len(s) # 0
    <3>1. PICK i \in DOMAIN s : TRUE
      BY <1>2
    <3> QED
      BY <1>1, <3>1
  <2> QED
    BY <1>1, <1>2, <2>1, <2>3 DEF Longer
<1>3. CASE ~ \E i \in DOMAIN s : StatementCovers(s[i], c)
  <2> DEFINE q == Append(s, ClaimStatement(c))
  <2>1. AddStatement(s, c) = q
    BY <1>3 DEF AddStatement
  <2>2. /\ IsList(q) /\ Len(q) = Len(s) + 1 /\ DOMAIN q = DOMAIN s \cup {Len(s) + 1}
        /\ \A i \in DOMAIN s : q[i] = s[i]
        /\ q[Len(s) + 1] = ClaimStatement(c)
    BY ListGrows
  <2> HIDE DEF q
  <2> QED
    BY <1>1, <2>1, <2>2 DEF Longer
<1> QED
  BY <1>2, <1>3

\* Longer by one and then by another is longer by both.
LEMMA Lengthening ==
  ASSUME NEW s, NEW t, NEW u, IsList(s), Longer(s, t), Longer(t, u)
  PROVE  Longer(s, u)
<1>1. Len(s) \in Nat /\ Len(t) \in Nat /\ Len(u) \in Nat
  BY ListHas DEF Longer
<1> QED
  BY <1>1 DEF Longer

\* Nothing is taken out, and claims leave a statement.
LEMMA MergedKeeps ==
  ASSUME NEW S, IsList(S), NEW claims, Len(claims) \in Nat
  PROVE  /\ Longer(S, MergeClaims(S, claims))
         /\ Len(claims) # 0 => Len(MergeClaims(S, claims)) # 0
<1>0. PICK g : MergesThem(g, S, claims) /\ MergeClaims(S, claims) = g[Len(claims)]
  BY MergedClaimByClaim
<1>1. /\ g[0] = S
      /\ \A n \in 1..Len(claims) : g[n] = AddStatement(g[n - 1], claims[n])
      /\ MergeClaims(S, claims) = g[Len(claims)]
  BY <1>0 DEF MergesThem
<1> DEFINE G == {n \in Nat : n <= Len(claims) => Longer(S, g[n]) /\ (n # 0 => Len(g[n]) # 0)}
<1>2. 0 \in G
  BY <1>1, ListHas DEF Longer
<1>3. ASSUME NEW n \in Nat, n \in G PROVE n + 1 \in G
  <2> SUFFICES ASSUME n + 1 <= Len(claims)
               PROVE  Longer(S, g[n + 1]) /\ Len(g[n + 1]) # 0
    OBVIOUS
  <2>1. n + 1 \in 1..Len(claims) /\ (n + 1) - 1 = n
    OBVIOUS
  <2>2. Longer(S, g[n]) /\ IsList(g[n])
    BY <1>3 DEF Longer
  <2>3. g[n + 1] = AddStatement(g[n], claims[n + 1])
    BY <1>1, <2>1
  <2>4. Longer(g[n], g[n + 1]) /\ Len(g[n + 1]) # 0
    BY <2>2, <2>3, StatementAdded
  <2> QED
    BY <2>2, <2>4, Lengthening
<1> HIDE DEF G
<1>4. Len(claims) \in G
  BY <1>2, <1>3, CountUp
<1> QED
  BY <1>1, <1>4 DEF G

-----------------------------------------------------------------------------
(* What an advisory says.                                                  *)

\* A tree that is added to: what a purl is known by stays, and a new relation is
\* called something that was no purl.
Grown(d, e) ==
  /\ DOMAIN d.tree \subseteq DOMAIN e.tree /\ \A pid \in DOMAIN d.tree : e.tree[pid] = d.tree[pid]
  /\ d.relations \subseteq e.relations
  /\ \A r \in e.relations \ d.relations : Relation(d, r.id) = {} /\ Purl(d, r.id) = {}

\* What an advisory that only grew tells of a product id it defined.
LEMMA NamesStay ==
  ASSUME NEW d, NEW e, Grown(d, e)
  PROVE  \A q : /\ Relation(d, q) # {} => Relation(e, q) = Relation(d, q)
                /\ Purl(d, q) # {} => Relation(e, q) = Relation(d, q)
                /\ q \in DOMAIN d.tree => q \in DOMAIN e.tree /\ Purl(e, q) = Purl(d, q)
                /\ Purl(d, q) # {} => Purl(e, q) = Purl(d, q)
<1> TAKE q
<1>1. ASSUME Relation(e, q) # Relation(d, q)
      PROVE  Relation(d, q) = {} /\ Purl(d, q) = {}
  <2>1. PICK r \in e.relations \ d.relations : r.id = q
    BY <1>1 DEF Relation, Grown
  <2> QED
    BY <2>1 DEF Grown
<1>2. q \in DOMAIN d.tree => q \in DOMAIN e.tree /\ Purl(e, q) = Purl(d, q)
  BY DEF Grown, Purl
<1>3. Purl(d, q) # {} => q \in DOMAIN d.tree
  BY DEF Purl
<1> QED
  BY <1>1, <1>2, <1>3

\* A chain that came to a purl comes to it still.
LEMMA ContainerStays ==
  ASSUME NEW d, NEW e, Grown(d, e), NEW pid, Purl(d, ContainerAfter(d, pid)) # {}
  PROVE  ContainerAfter(e, pid) = ContainerAfter(d, pid)
<1> DEFINE N == MaxRelationshipDepth
<1>1. PICK g : HopsAlong(g, d, pid) /\ ContainerAfter(d, pid) = g[N]
  BY HopByHop
<1>2. PICK h : HopsAlong(h, e, pid) /\ ContainerAfter(e, pid) = h[N]
  BY HopByHop
<1>3. N \in Nat
  BY DepthIs
<1> HIDE DEF N
<1>4. /\ g[0] = pid /\ \A n \in 1..N : g[n] = Hop(d, g[n - 1])
      /\ h[0] = pid /\ \A n \in 1..N : h[n] = Hop(e, h[n - 1])
  BY <1>1, <1>2 DEF HopsAlong, N

\* Where a chain can go no further it stays.
<1>5. ASSUME NEW n \in 0..N, Relation(d, g[n]) = {}
      PROVE  g[N] = g[n]
  <2> DEFINE G == {m \in Nat : n + m <= N => g[n + m] = g[n]}
  <2>1. 0 \in G
    OBVIOUS
  <2>2. ASSUME NEW m \in Nat, m \in G PROVE m + 1 \in G
    <3> SUFFICES ASSUME n + (m + 1) <= N PROVE g[n + (m + 1)] = g[n]
      OBVIOUS
    <3>1. n + (m + 1) \in 1..N /\ (n + (m + 1)) - 1 = n + m /\ n + m <= N
      BY <1>3
    <3>2. g[n + (m + 1)] = Hop(d, g[n + m])
      BY <1>4, <3>1
    <3>3. g[n + m] = g[n]
      BY <2>2, <3>1
    <3> QED
      BY <1>5, <3>2, <3>3 DEF Hop
  <2> HIDE DEF G
  <2>3. N - n \in G
    BY <1>3, <2>1, <2>2, CountUp
  <2>4. n + (N - n) = N
    BY <1>3
  <2> QED
    BY <1>3, <2>3, <2>4 DEF G
<1>6. Purl(d, g[N]) # {}
  BY <1>1
<1> DEFINE G == {n \in Nat : n <= N => h[n] = g[n]}
<1>7. 0 \in G
  BY <1>4
<1>8. ASSUME NEW n \in Nat, n \in G PROVE n + 1 \in G
  <2> SUFFICES ASSUME n + 1 <= N PROVE h[n + 1] = g[n + 1]
    OBVIOUS
  <2>1. n + 1 \in 1..N /\ (n + 1) - 1 = n /\ n \in 0..N
    BY <1>3
  <2>2. h[n + 1] = Hop(e, g[n]) /\ g[n + 1] = Hop(d, g[n])
    BY <1>4, <1>8, <2>1
  <2>3. Relation(e, g[n]) = Relation(d, g[n])
    <3>1. CASE Relation(d, g[n]) # {}
      BY <3>1, NamesStay
    <3>2. CASE Relation(d, g[n]) = {}
      <4>1. Purl(d, g[n]) # {}
        BY <1>5, <1>6, <2>1, <3>2
      <4> QED
        BY <4>1, NamesStay
    <3> QED
      BY <3>1, <3>2
  <2> QED
    BY <2>2, <2>3 DEF Hop, TheRelation
<1> HIDE DEF G
<1>9. N \in G
  BY <1>3, <1>7, <1>8, CountUp
<1> QED
  BY <1>1, <1>2, <1>3, <1>9 DEF G

\* What stood for an artifact, or for a component in one, stands for it still.
LEMMA ResolvedStays ==
  ASSUME NEW d, NEW e, Grown(d, e), NEW pid, Resolved(d, pid) # {}
  PROVE  Resolved(e, pid) = Resolved(d, pid)
<1>1. CASE Relation(d, pid) = {}
  <2>1. Purl(d, pid) # {}
    BY <1>1 DEF Resolved
  <2>2. Relation(e, pid) = {} /\ Purl(e, pid) = Purl(d, pid)
    BY <1>1, <2>1, NamesStay
  <2> QED
    BY <1>1, <2>2 DEF Resolved
<1>2. CASE Relation(d, pid) # {}
  <2> DEFINE r == TheRelation(d, pid)
             bottom == ContainerAfter(d, r.container)
  <2>1. Relation(e, pid) = Relation(d, pid) /\ TheRelation(e, pid) = r
    BY <1>2, NamesStay DEF TheRelation
  <2>2. r.component \in DOMAIN d.tree /\ Relation(d, bottom) = {} /\ Purl(d, bottom) # {}
    BY <1>2 DEF Resolved
  <2>3. ContainerAfter(e, r.container) = bottom
    BY <2>2, ContainerStays
  <2> HIDE DEF r, bottom
  <2>4. Relation(e, bottom) = {} /\ Purl(e, bottom) = Purl(d, bottom)
    BY <2>2, NamesStay
  <2>5. r.component \in DOMAIN e.tree /\ Purl(e, r.component) = Purl(d, r.component)
    BY <2>2, NamesStay
  <2>6. Resolved(d, pid) = {[id |-> p, subs |-> Purl(d, r.component)] : p \in Purl(d, bottom)}
    BY <1>2, <2>2 DEF Resolved, r, bottom
  <2>7. Resolved(e, pid) = {[id |-> p, subs |-> Purl(e, r.component)] : p \in Purl(e, bottom)}
    <3>1. Resolved(e, pid) =
            IF r.component \notin DOMAIN e.tree \/ Relation(e, bottom) # {} THEN {}
            ELSE {[id |-> p, subs |-> Purl(e, r.component)] : p \in Purl(e, bottom)}
      BY <1>2, <2>1, <2>3 DEF Resolved
    <3> QED
      BY <2>4, <2>5, <3>1
  <2> QED
    BY <2>4, <2>5, <2>6, <2>7
<1> QED
  BY <1>1, <1>2

Statuses == {"not_affected", "affected", "fixed", "under_investigation"}
Voice(s) == {[ids |-> s.ids, product |-> p, status |-> s.status, why |-> s.why] : p \in s.products}
Voices(S) == UNION {Voice(s) : s \in ToSet(S)}

\* What the listing of a product id under a status says.
Spoken(d, v, k, pid) ==
  {[ids |-> v.names, product |-> p, status |-> k, why |-> FlagFor(v, pid)] : p \in Resolved(d, pid)}
Listings(d, v, k) == UNION {Spoken(d, v, k, v.lists[k][i]) : i \in DOMAIN v.lists[k]}

\* Of a status each product id is in the statement with its reason, with what it
\* stands for.
LEMMA StatementsSay ==
  ASSUME NEW d, NEW v, NEW k, IsList(v.lists[k])
  PROVE  IsList(StatementsOf(d, v, k)) /\ Voices(StatementsOf(d, v, k)) = Listings(d, v, k)
<1> DEFINE pids == v.lists[k]
           reason(i) == FlagFor(v, pids[i])
           resolved == {i \in DOMAIN pids : Resolved(d, pids[i]) # {}}
           first == {i \in resolved : ~ \E j \in resolved : j < i /\ reason(j) = reason(i)}
           firsts == InOrder(Len(pids), first)
           alike(i) == UNION {Resolved(d, pids[j]) : j \in {j \in resolved : reason(j) = reason(i)}}
           stmt(i) == [ids |-> v.names, status |-> k, why |-> reason(i),
                       ts |-> IF v.ts = 0 THEN d.ts ELSE v.ts, products |-> alike(i)]
           T == StatementsOf(d, v, k)
<1>1. Len(pids) \in Nat /\ DOMAIN pids = 1..Len(pids)
  BY ListHas
<1>2. T = [n \in DOMAIN firsts |-> stmt(firsts[n])]
  BY DEF StatementsOf
<1>3. /\ firsts \in Seq(1..Len(pids)) /\ ToSet(firsts) = first
  <2>1. first \cap 1..Len(pids) = first
    BY <1>1
  <2> HIDE DEF first, pids
  <2> QED
    BY <1>1, <2>1, InOrderLists DEF Lists
<1>4. DOMAIN firsts = 1..Len(firsts) /\ Len(firsts) \in Nat
  BY <1>3, LenProperties
<1> HIDE DEF T, stmt, firsts
<1>5. ToSet(T) = {stmt(i) : i \in first}
  <2>1. ToSet(T) = {stmt(firsts[n]) : n \in DOMAIN firsts}
    BY <1>2 DEF ToSet
  <2>2. {stmt(firsts[n]) : n \in DOMAIN firsts} = {stmt(i) : i \in ToSet(firsts)}
    BY DEF ToSet
  <2> QED
    BY <1>3, <2>1, <2>2
<1>6. IsList(T)
  <2>1. T \in [1..Len(firsts) -> {stmt(firsts[n]) : n \in 1..Len(firsts)}]
    BY <1>2, <1>4
  <2>2. T \in Seq({stmt(firsts[n]) : n \in 1..Len(firsts)})
    BY <1>4, <2>1
  <2> QED
    BY <2>2, ListIs
<1>7. \A i \in resolved : \E j \in first : reason(j) = reason(i)
  <2> SUFFICES ASSUME NEW i \in resolved PROVE \E j \in first : reason(j) = reason(i)
    OBVIOUS
  <2> DEFINE same == {j \in resolved : reason(j) = reason(i)}
  <2>1. same \subseteq Nat /\ i \in same
    BY <1>1
  <2> HIDE DEF same
  <2>2. Min(same) \in same /\ \A y \in same : Min(same) <= y
    BY <2>1, LeastNumber
  <2> DEFINE m == Min(same)
  <2> HIDE DEF m
  <2>3. m \in resolved /\ reason(m) = reason(i)
    BY <2>2 DEF same, m
  <2>4. ~ \E j \in resolved : j < m /\ reason(j) = reason(m)
    <3> SUFFICES ASSUME NEW j \in resolved, j < m, reason(j) = reason(m) PROVE FALSE
      OBVIOUS
    <3>1. j \in same
      BY <2>3 DEF same
    <3>2. m <= j /\ j \in Nat /\ m \in Nat
      BY <2>1, <2>2, <3>1 DEF m
    <3> QED
      BY <3>2
  <2> QED
    BY <2>3, <2>4
<1> DEFINE say(i, p) == [ids |-> v.names, product |-> p, status |-> k, why |-> reason(i)]
<1>8. \A i \in first : Voice(stmt(i)) = {say(i, p) : p \in alike(i)}
  BY DEF Voice, stmt
<1>9. \A i \in DOMAIN pids : Spoken(d, v, k, pids[i]) = {say(i, p) : p \in Resolved(d, pids[i])}
  BY DEF Spoken
<1>10. Voices(T) \subseteq Listings(d, v, k)
  <2> SUFFICES ASSUME NEW x \in Voices(T) PROVE x \in Listings(d, v, k)
    OBVIOUS
  <2>1. PICK i \in first : x \in Voice(stmt(i))
    BY <1>5 DEF Voices
  <2>2. PICK p \in alike(i) : x = say(i, p)
    BY <1>8, <2>1
  <2>3. PICK j \in resolved : reason(j) = reason(i) /\ p \in Resolved(d, pids[j])
    BY <2>2
  <2>4. x = say(j, p)
    BY <2>2, <2>3
  <2>5. j \in DOMAIN pids /\ x \in Spoken(d, v, k, pids[j])
    BY <1>9, <2>3, <2>4
  <2> QED
    BY <2>5 DEF Listings
<1>11. Listings(d, v, k) \subseteq Voices(T)
  <2> SUFFICES ASSUME NEW x \in Listings(d, v, k) PROVE x \in Voices(T)
    OBVIOUS
  <2>1. PICK i \in DOMAIN pids : x \in Spoken(d, v, k, pids[i])
    BY DEF Listings
  <2>2. PICK p \in Resolved(d, pids[i]) : x = say(i, p)
    BY <1>9, <2>1
  <2>3. i \in resolved
    BY <2>2
  <2>4. PICK j \in first : reason(j) = reason(i)
    BY <1>7, <2>3
  <2>5. p \in alike(j) /\ x = say(j, p)
    BY <2>2, <2>3, <2>4
  <2>6. x \in Voice(stmt(j))
    BY <1>8, <2>5
  <2> QED
    BY <1>5, <2>6 DEF Voices
<1> QED
  BY <1>6, <1>10, <1>11 DEF T

\* An advisory says what its listings say, of the vulnerabilities with a name.
LEMMA AdvisorySays ==
  ASSUME NEW d, IsAdvisory(d)
  PROVE  Said(d) = UNION {UNION {Listings(d, d.vulns[i], k) : k \in Statuses} : i \in {i \in DOMAIN d.vulns : d.vulns[i].names # {}}}
<1> DEFINE part(i) == FlattenSeq([n \in DOMAIN StatusOrder |-> StatementsOf(d, d.vulns[i], StatusOrder[n])])
           parts == [i \in DOMAIN d.vulns |-> IF d.vulns[i].names = {} THEN <<>> ELSE part(i)]
           named == {i \in DOMAIN d.vulns : d.vulns[i].names # {}}
           says(i) == UNION {Listings(d, d.vulns[i], k) : k \in Statuses}
<1>1. /\ d.kind = "csaf" /\ Len(d.vulns) \in Nat /\ DOMAIN d.vulns = 1..Len(d.vulns)
      /\ \A i \in DOMAIN d.vulns : \A k \in Statuses : IsList(d.vulns[i].lists[k])
  <2>1. d.kind = "csaf"
    BY DEF IsAdvisory
  <2>2. IsList(d.vulns) /\ \A i \in DOMAIN d.vulns : IsVuln(d.vulns[i])
    BY DEF IsAdvisory
  <2>3. \A i \in DOMAIN d.vulns : \A k \in Statuses : IsList(d.vulns[i].lists[k])
    <3> SUFFICES ASSUME NEW v, IsVuln(v), NEW k \in Statuses PROVE IsList(v.lists[k])
      BY <2>2
    <3>1. DOMAIN v.lists = Statuses
      BY DEF IsVuln, Statuses
    <3> QED
      BY <3>1 DEF IsVuln
  <2> QED
    BY <2>1, <2>2, <2>3, ListHas
<1>2. ASSUME NEW i \in DOMAIN d.vulns
      PROVE  IsList(part(i)) /\ Voices(part(i)) = says(i)
  <2> DEFINE v == d.vulns[i]
             ss == [n \in DOMAIN StatusOrder |-> StatementsOf(d, v, StatusOrder[n])]
             S == UNION {ToSet(StatementsOf(d, v, k)) : k \in Statuses}
  <2>1. DOMAIN StatusOrder = 1..4 /\ {StatusOrder[n] : n \in 1..4} = Statuses
    BY DEF StatusOrder, Statuses
  <2>2. \A k \in Statuses : IsList(StatementsOf(d, v, k)) /\ Voices(StatementsOf(d, v, k)) = Listings(d, v, k)
    BY <1>1, StatementsSay
  <2>3. \A k \in Statuses : StatementsOf(d, v, k) \in Seq(S)
    <3> SUFFICES ASSUME NEW k \in Statuses PROVE StatementsOf(d, v, k) \in Seq(S)
      OBVIOUS
    <3> DEFINE t == StatementsOf(d, v, k)
    <3>1. Len(t) \in Nat /\ DOMAIN t = 1..Len(t) /\ \A n \in 1..Len(t) : t[n] \in ToSet(t)
      BY <2>2, ListHas
    <3>2. t \in Seq(ToSet(t)) /\ ToSet(t) \subseteq S
      BY <2>2 DEF IsList
    <3> HIDE DEF t, S
    <3>3. \A n \in 1..Len(t) : t[n] \in S
      BY <3>1, <3>2
    <3>4. t \in [1..Len(t) -> S]
      BY <3>1, <3>2, <3>3
    <3>5. t \in Seq(S)
      BY <3>1, <3>4
    <3> QED
      BY <3>5 DEF t
  <2> HIDE DEF S, v
  <2>4. ss \in Seq(Seq(S)) /\ DOMAIN ss = 1..4 /\ \A n \in 1..4 : ss[n] = StatementsOf(d, v, StatusOrder[n])
    <3>1. ss \in [1..4 -> Seq(S)]
      BY <2>1, <2>3
    <3> QED
      BY <2>1, <3>1
  <2> HIDE DEF ss
  <2>5. FlattenSeq(ss) \in Seq(S) /\ ToSet(FlattenSeq(ss)) = UNION {ToSet(ss[n]) : n \in 1..4}
    BY <2>4, Flattened
  <2>6. part(i) = FlattenSeq(ss)
    BY DEF ss, v
  <2>7. Voices(FlattenSeq(ss)) = UNION {Voices(ss[n]) : n \in 1..4}
    BY <2>5 DEF Voices
  <2>8. UNION {Voices(ss[n]) : n \in 1..4} = UNION {Listings(d, v, k) : k \in Statuses}
    <3>1. \A n \in 1..4 : Voices(ss[n]) = Listings(d, v, StatusOrder[n])
      BY <2>1, <2>2, <2>4
    <3> QED
      BY <2>1, <3>1
  <2>9. IsList(part(i))
    BY <2>5, <2>6, ListIs
  <2> QED
    BY <2>6, <2>7, <2>8, <2>9 DEF v
<1> HIDE DEF part
<1> DEFINE S == UNION {ToSet(parts[i]) : i \in DOMAIN d.vulns}
<1>3. /\ DOMAIN parts = 1..Len(d.vulns)
      /\ \A i \in DOMAIN d.vulns : IsList(parts[i]) /\ Voices(parts[i]) = IF i \in named THEN says(i) ELSE {}
  <2>1. DOMAIN parts = 1..Len(d.vulns) /\ \A i \in DOMAIN d.vulns : parts[i] = IF i \in named THEN part(i) ELSE <<>>
    BY <1>1
  <2>2. Voices(<<>>) = {}
    BY NoList DEF Voices
  <2> HIDE DEF parts, says, named
  <2>3. ASSUME NEW i \in DOMAIN d.vulns
        PROVE  IsList(parts[i]) /\ Voices(parts[i]) = IF i \in named THEN says(i) ELSE {}
    <3>1. CASE i \in named
      BY <1>2, <2>1, <3>1
    <3>2. CASE i \notin named
      BY <2>1, <2>2, <3>2, NoList
    <3> QED
      BY <3>1, <3>2
  <2> QED
    BY <2>1, <2>3
<1> HIDE DEF parts
<1>4. parts \in Seq(Seq(S))
  <2>1. ASSUME NEW i \in 1..Len(d.vulns) PROVE parts[i] \in Seq(S)
    <3> DEFINE t == parts[i]
    <3>1. Len(t) \in Nat /\ DOMAIN t = 1..Len(t) /\ (\A n \in 1..Len(t) : t[n] \in ToSet(t)) /\ t \in Seq(ToSet(t))
      BY <1>1, <1>3, ListHas DEF IsList
    <3>2. ToSet(t) \subseteq S
      BY <1>1
    <3> HIDE DEF t, S
    <3>3. t \in [1..Len(t) -> S]
      BY <3>1, <3>2
    <3> QED
      BY <3>1, <3>3 DEF t
  <2> HIDE DEF S
  <2>2. parts = [i \in 1..Len(d.vulns) |-> parts[i]]
    BY <1>3 DEF parts
  <2>3. parts \in [1..Len(d.vulns) -> Seq(S)]
    BY <2>1, <2>2
  <2> QED
    BY <1>1, <2>3
<1>5. ToSet(FlattenSeq(parts)) = UNION {ToSet(parts[i]) : i \in DOMAIN d.vulns}
  <2> HIDE DEF S
  <2> QED
    BY <1>1, <1>3, <1>4, Flattened
<1>6. Voices(FlattenSeq(parts)) = UNION {Voices(parts[i]) : i \in DOMAIN d.vulns}
  BY <1>5 DEF Voices
<1>7. UNION {Voices(parts[i]) : i \in DOMAIN d.vulns} = UNION {says(i) : i \in named}
  <2> HIDE DEF says
  <2> QED
    BY <1>3
<1>8. ReadStatements(d) = FlattenSeq(parts)
  BY <1>1 DEF ReadStatements, parts, part
<1>9. Said(d) = Voices(ReadStatements(d))
  BY <1>1 DEF Said, Voices, Voice
<1> QED
  BY <1>6, <1>7, <1>8, <1>9

-----------------------------------------------------------------------------
(* The claims that an advisory is given.                                   *)

\* The four status lists.
LEMMA StatusesAre == ToSet(StatusOrder) = Statuses
BY DEF StatusOrder, Statuses, ToSet

\* The flags are about every other product id what they were.
SameBut(q, flags, new) ==
  /\ IsList(new) /\ \A i \in DOMAIN new : IsFlag(new[i])
  /\ \A pid : pid # q => {i \in DOMAIN new : AppliesTo(new[i], pid)} = {i \in DOMAIN flags : AppliesTo(flags[i], pid)}
  /\ \A i \in DOMAIN flags : new[i].label = flags[i].label

\* A flag more, or a product id more under one: the reason of every other product
\* id is the same.
LEMMA FlagAdded ==
  ASSUME NEW flags, IsList(flags), \A i \in DOMAIN flags : IsFlag(flags[i]), NEW label, NEW q
  PROVE  SameBut(q, flags, AddFlag(flags, label, q))
<1> DEFINE new == AddFlag(flags, label, q)
           same == {i \in DOMAIN flags : flags[i].label = label}
           m == Min(same)
<1>1. Len(flags) \in Nat /\ DOMAIN flags = 1..Len(flags) /\ \A i \in DOMAIN flags : flags[i] = [label |-> flags[i].label, pids |-> flags[i].pids]
  BY ListHas DEF IsFlag
<1>2. CASE label = "" \/ (same # {} /\ flags[m].pids = {})
  <2>1. new = flags
    BY <1>2 DEF AddFlag
  <2> QED
    BY <2>1 DEF SameBut
<1>3. CASE label # "" /\ same = {}
  <2> DEFINE f == [label |-> label, pids |-> {q}]
  <2>1. new = Append(flags, f)
    BY <1>3 DEF AddFlag
  <2>2. IsFlag(f) /\ \A pid : pid # q => ~AppliesTo(f, pid)
    BY DEF IsFlag, AppliesTo
  <2> HIDE DEF new, f
  <2>3. /\ IsList(new) /\ DOMAIN new = DOMAIN flags \cup {Len(flags) + 1} /\ Len(flags) + 1 \notin DOMAIN flags
        /\ \A i \in DOMAIN flags : new[i] = flags[i]
        /\ new[Len(flags) + 1] = f
    BY <2>1, ListGrows
  <2>4. ASSUME NEW pid, pid # q
        PROVE  {i \in DOMAIN new : AppliesTo(new[i], pid)} = {i \in DOMAIN flags : AppliesTo(flags[i], pid)}
    BY <2>2, <2>3, <2>4
  <2> QED
    BY <2>2, <2>3, <2>4 DEF new, SameBut
<1>4. CASE label # "" /\ same # {} /\ flags[m].pids # {}
  <2>1. m \in DOMAIN flags
    <3>1. same \subseteq Nat
      BY <1>1
    <3> HIDE DEF same
    <3>2. m \in same
      BY <1>4, <3>1, LeastNumber
    <3> QED
      BY <3>2 DEF same
  <2>2. new = [flags EXCEPT ![m].pids = @ \cup {q}]
    BY <1>4 DEF AddFlag
  <2> HIDE DEF new, m, same
  <2>3. /\ DOMAIN new = DOMAIN flags
        /\ \A i \in DOMAIN flags : i # m => new[i] = flags[i]
        /\ new[m] = [label |-> flags[m].label, pids |-> flags[m].pids \cup {q}]
    <3>1. new[m] = [flags[m] EXCEPT !.pids = @ \cup {q}]
      BY <2>1, <2>2
    <3>2. flags[m] = [label |-> flags[m].label, pids |-> flags[m].pids]
      BY <1>1, <2>1
    <3>3. DOMAIN new = DOMAIN flags /\ \A i \in DOMAIN flags : i # m => new[i] = flags[i]
      BY <2>1, <2>2
    <3> QED
      BY <3>1, <3>2, <3>3
  <2>4. new[m].label = flags[m].label /\ new[m].pids = flags[m].pids \cup {q}
    BY <2>3
  <2>5. IsList(new)
    <3>1. new = [i \in 1..Len(flags) |-> new[i]]
      BY <1>1, <2>2
    <3>2. new \in [1..Len(flags) -> {new[i] : i \in 1..Len(flags)}]
      BY <3>1
    <3>3. new \in Seq({new[i] : i \in 1..Len(flags)})
      BY <1>1, <3>2
    <3> QED
      BY <3>3, ListIs
  <2>6. \A i \in DOMAIN new : IsFlag(new[i])
    BY <1>1, <2>3, <2>4 DEF IsFlag
  <2>7. \A i \in DOMAIN flags : new[i].label = flags[i].label
    BY <2>3, <2>4
  <2>8. \A pid : pid # q => \A i \in DOMAIN flags : AppliesTo(new[i], pid) <=> AppliesTo(flags[i], pid)
    BY <1>4, <2>3, <2>4 DEF AppliesTo, m, same
  <2> QED
    BY <2>3, <2>5, <2>6, <2>7, <2>8 DEF new, SameBut
<1> QED
  BY <1>2, <1>3, <1>4

\* A vulnerability that a claim is listed in keeps what it lists.
LEMMA Listing ==
  ASSUME NEW v, IsVuln(v), NEW c
  PROVE  LET w == ListedIn(v, c) IN
         /\ IsVuln(w) /\ w.names = v.names
         /\ \A k \in Statuses : /\ Longer(v.lists[k], w.lists[k])
                                /\ ToSet(w.lists[k]) = ToSet(v.lists[k]) \cup (IF k = "not_affected" THEN {PairId(c)} ELSE {})
         /\ \A pid : pid # PairId(c) => FlagFor(w, pid) = FlagFor(v, pid)
<1> DEFINE w == ListedIn(v, c)
           q == PairId(c)
           na == "not_affected"
           flags == AddFlag(v.flags, c.why, q)
           lists == [v.lists EXCEPT ![na] = Append(@, q)]
<1>1. /\ v = [names |-> v.names, ts |-> v.ts, lists |-> v.lists, flags |-> v.flags]
      /\ v.lists = [k \in Statuses |-> v.lists[k]] /\ \A k \in Statuses : IsList(v.lists[k])
      /\ IsList(v.flags) /\ \A i \in DOMAIN v.flags : IsFlag(v.flags[i])
  <2>1. v.lists = [k \in Statuses |-> v.lists[k]] /\ \A k \in DOMAIN v.lists : IsList(v.lists[k])
    BY DEF IsVuln, Statuses
  <2>2. DOMAIN v.lists = Statuses
    BY <2>1
  <2> QED
    BY <2>1, <2>2 DEF IsVuln
<1>2. w = [names |-> v.names, ts |-> v.ts, lists |-> lists, flags |-> flags]
  <2>1. w = [v EXCEPT !.lists = lists, !.flags = flags]
    BY <1>1 DEF ListedIn
  <2> HIDE DEF w, lists, flags
  <2> QED
    BY <1>1, <2>1
<1> HIDE DEF w, q, flags
<1>3. na \in Statuses /\ DOMAIN lists = Statuses /\ lists = [k \in Statuses |-> lists[k]]
      /\ (\A k \in Statuses : k # na => lists[k] = v.lists[k]) /\ lists[na] = Append(v.lists[na], q)
  <2>1. na \in Statuses
    BY DEF Statuses
  <2> QED
    BY <1>1, <2>1
<1> HIDE DEF lists
<1>4. ASSUME NEW k \in Statuses
      PROVE  Longer(v.lists[k], lists[k]) /\ ToSet(lists[k]) = ToSet(v.lists[k]) \cup (IF k = na THEN {q} ELSE {})
  <2>1. IsList(v.lists[k]) /\ Len(v.lists[k]) \in Nat
    BY <1>1, ListHas
  <2>2. CASE k = na
    <3> DEFINE s == v.lists[na]
               t == Append(s, q)
    <3>1. IsList(s) /\ Len(s) \in Nat
      BY <2>1, <2>2
    <3> HIDE DEF s
    <3>2. /\ IsList(t) /\ Len(t) = Len(s) + 1 /\ DOMAIN t = DOMAIN s \cup {Len(s) + 1}
          /\ \A i \in DOMAIN s : t[i] = s[i]
          /\ ToSet(t) = ToSet(s) \cup {q}
      BY <3>1, ListGrows
    <3> HIDE DEF t
    <3>3. Longer(s, t)
      BY <3>1, <3>2 DEF Longer
    <3>4. lists[na] = t
      BY <1>3 DEF s, t
    <3> QED
      BY <2>2, <3>2, <3>3, <3>4 DEF s
  <2>3. CASE k # na
    BY <1>3, <2>1, <2>3 DEF Longer
  <2> QED
    BY <2>2, <2>3
<1>5. /\ IsList(flags) /\ \A i \in DOMAIN flags : IsFlag(flags[i])
      /\ \A pid : pid # q => {i \in DOMAIN flags : AppliesTo(flags[i], pid)} = {i \in DOMAIN v.flags : AppliesTo(v.flags[i], pid)}
      /\ \A i \in DOMAIN v.flags : flags[i].label = v.flags[i].label
  <2>1. SameBut(q, v.flags, flags)
    BY <1>1, FlagAdded DEF flags
  <2> QED
    BY <2>1 DEF SameBut
<1>6. IsVuln(w)
  <2>1. w.names = v.names /\ w.ts = v.ts /\ w.lists = lists /\ w.flags = flags
    BY <1>2
  <2>2. \A k \in Statuses : IsList(lists[k])
    BY <1>4 DEF Longer
  <2> QED
    BY <1>2, <1>3, <1>5, <2>1, <2>2 DEF IsVuln, Statuses
<1>7. ASSUME NEW pid, pid # q PROVE FlagFor(w, pid) = FlagFor(v, pid)
  <2> DEFINE a == {i \in DOMAIN v.flags : AppliesTo(v.flags[i], pid)}
  <2>1. w.flags = flags /\ {i \in DOMAIN flags : AppliesTo(flags[i], pid)} = a
    BY <1>2, <1>5, <1>7
  <2>2. a # {} => Min(a) \in a
    <3>1. a \subseteq Nat
      BY <1>1, ListHas
    <3> HIDE DEF a
    <3> QED
      BY <3>1, LeastNumber
  <2>3. FlagFor(w, pid) = IF a = {} THEN "" ELSE flags[Min(a)].label
    BY <2>1 DEF FlagFor
  <2>4. FlagFor(v, pid) = IF a = {} THEN "" ELSE v.flags[Min(a)].label
    BY DEF FlagFor
  <2>5. a # {} => flags[Min(a)].label = v.flags[Min(a)].label
    BY <1>5, <2>2
  <2> HIDE DEF a
  <2>6. CASE a = {}
    BY <2>3, <2>4, <2>6, Zenon
  <2>7. CASE a # {}
    <3>1. FlagFor(w, pid) = flags[Min(a)].label
      BY <2>3, <2>7, Zenon
    <3>2. FlagFor(v, pid) = v.flags[Min(a)].label
      BY <2>4, <2>7, Zenon
    <3> QED
      BY <2>5, <2>7, <3>1, <3>2, Zenon
  <2> QED
    BY <2>6, <2>7
<1>8. w.names = v.names /\ w.lists = lists
  BY <1>2
<1> QED
  BY <1>4, <1>6, <1>7, <1>8 DEF w, q

\* The vulnerability made for a claim is one.
LEMMA NewOneIsVuln == \A c : IsVuln(NewVuln(c)) /\ NewVuln(c).names = c.ids
<1> TAKE c
<1> DEFINE v == NewVuln(c)
<1>1. v = [names |-> c.ids, ts |-> c.ts, lists |-> [k \in Statuses |-> <<>>], flags |-> <<>>]
  BY StatusesAre DEF NewVuln
<1> HIDE DEF v
<1>2. v.names = c.ids /\ v.ts = c.ts /\ v.lists = [k \in Statuses |-> <<>>] /\ v.flags = <<>>
  BY <1>1
<1>3. IsVuln(v)
  BY <1>1, <1>2, NoList DEF IsVuln, Statuses
<1> QED
  BY <1>2, <1>3 DEF v

\* A vulnerability that lists what it listed, for the same reasons.
Keeps(v, w) ==
  /\ w.names = v.names
  /\ \A k \in Statuses : /\ Longer(v.lists[k], w.lists[k])
                         /\ \A n \in DOMAIN v.lists[k] : FlagFor(w, v.lists[k][n]) = FlagFor(v, v.lists[k][n])

\* An advisory that was only added to says what it said.
LEMMA SaysMore ==
  ASSUME NEW d, NEW e, IsAdvisory(d), IsAdvisory(e), Grown(d, e),
         \A i \in DOMAIN d.vulns : i \in DOMAIN e.vulns /\ Keeps(d.vulns[i], e.vulns[i])
  PROVE  Said(d) \subseteq Said(e)
<1> SUFFICES ASSUME NEW x \in Said(d) PROVE x \in Said(e)
  OBVIOUS
<1>1. PICK i \in DOMAIN d.vulns : d.vulns[i].names # {} /\ \E k \in Statuses : x \in Listings(d, d.vulns[i], k)
  BY AdvisorySays
<1>2. PICK k \in Statuses : x \in Listings(d, d.vulns[i], k)
  BY <1>1
<1> DEFINE v == d.vulns[i]
           w == e.vulns[i]
<1>3. i \in DOMAIN e.vulns /\ Keeps(v, w)
  OBVIOUS
<1> HIDE DEF v, w
<1>4. PICK n \in DOMAIN v.lists[k] : x \in Spoken(d, v, k, v.lists[k][n])
  BY <1>2 DEF Listings, v
<1>5. n \in DOMAIN w.lists[k] /\ w.lists[k][n] = v.lists[k][n]
  BY <1>3, <1>4 DEF Keeps, Longer
<1> DEFINE pid == v.lists[k][n]
<1>6. FlagFor(w, pid) = FlagFor(v, pid) /\ w.names = v.names
  BY <1>3, <1>4 DEF Keeps
<1> HIDE DEF pid
<1>7. PICK p \in Resolved(d, pid) : x = [ids |-> v.names, product |-> p, status |-> k, why |-> FlagFor(v, pid)]
  BY <1>4 DEF Spoken, pid
<1>8. p \in Resolved(e, pid)
  BY <1>7, ResolvedStays
<1>9. x \in Spoken(e, w, k, pid)
  BY <1>6, <1>7, <1>8 DEF Spoken
<1>10. x \in Listings(e, w, k)
  BY <1>5, <1>9 DEF Listings, pid
<1>11. w.names # {}
  BY <1>1, <1>6 DEF v
<1> QED
  BY <1>3, <1>10, <1>11, AdvisorySays DEF w

\* The entry that a claim is listed in.
Entry(d, c) == IF FindVuln(d, c) = 0 THEN Len(d.vulns) + 1 ELSE FindVuln(d, c)
Entries0(d, c) == IF FindVuln(d, c) = 0 THEN Append(d.vulns, NewVuln(c)) ELSE d.vulns
Answered(d, c) ==
  FindVuln(d, c) # 0 /\ (VulnCovers(d.vulns[FindVuln(d, c)], PairId(c)) \/ VulnCovers(d.vulns[FindVuln(d, c)], ArtifactId(c)))

\* findVuln: the first that shares an id, or none does.
LEMMA FoundIs ==
  ASSUME NEW d, IsAdvisory(d), NEW c
  PROVE  /\ FindVuln(d, c) # 0 => /\ FindVuln(d, c) \in DOMAIN d.vulns /\ d.vulns[FindVuln(d, c)].names \cap c.ids # {}
                                  /\ \A i \in DOMAIN d.vulns : d.vulns[i].names \cap c.ids # {} => FindVuln(d, c) <= i
         /\ FindVuln(d, c) = 0 => \A i \in DOMAIN d.vulns : d.vulns[i].names \cap c.ids = {}
         /\ FindVuln(d, c) \in Nat
<1> DEFINE known == {i \in DOMAIN d.vulns : d.vulns[i].names \cap c.ids # {}}
<1>1. DOMAIN d.vulns = 1..Len(d.vulns) /\ Len(d.vulns) \in Nat
  BY ListHas DEF IsAdvisory
<1>2. known \subseteq Nat /\ 0 \notin known
  BY <1>1
<1>3. FindVuln(d, c) = IF known = {} THEN 0 ELSE Min(known)
  BY DEF FindVuln
<1>4. CASE known = {}
  BY <1>3, <1>4
<1>5. CASE known # {}
  <2>1. Min(known) \in known /\ \A y \in known : Min(known) <= y
    <3> HIDE DEF known
    <3> QED
      BY <1>2, <1>5, LeastNumber
  <2>2. FindVuln(d, c) = Min(known)
    BY <1>3, <1>5
  <2> DEFINE m == Min(known)
  <2> HIDE DEF m
  <2>3. m \in known /\ m \in Nat /\ m # 0 /\ \A y \in known : m <= y
    BY <1>2, <2>1 DEF m
  <2>4. FindVuln(d, c) = m
    BY <2>2 DEF m
  <2> QED
    BY <2>3, <2>4
<1> QED
  BY <1>4, <1>5

\* The vulnerabilities a claim is entered among: those there were, and one made
\* for it if there was none.
LEMMA Entered ==
  ASSUME NEW d, IsAdvisory(d), NEW c
  PROVE  LET V == Entries0(d, c) IN
         /\ IsList(V) /\ \A i \in DOMAIN V : IsVuln(V[i])
         /\ Entry(d, c) \in DOMAIN V
         /\ \A i \in DOMAIN d.vulns : i \in DOMAIN V /\ V[i] = d.vulns[i]
         /\ V[Entry(d, c)].names \cap c.ids # {} \/ c.ids = {}
         /\ \A i \in DOMAIN V : i \in DOMAIN d.vulns \/ (i = Entry(d, c) /\ FindVuln(d, c) = 0)
<1>1. IsList(d.vulns) /\ \A i \in DOMAIN d.vulns : IsVuln(d.vulns[i])
  BY DEF IsAdvisory
<1>2. CASE FindVuln(d, c) = 0
  <2> DEFINE V == Append(d.vulns, NewVuln(c))
             n == Len(d.vulns) + 1
  <2>1. /\ IsList(V) /\ DOMAIN V = DOMAIN d.vulns \cup {n}
        /\ \A i \in DOMAIN d.vulns : V[i] = d.vulns[i]
        /\ V[n] = NewVuln(c)
    BY <1>1, ListGrows
  <2>2. Entries0(d, c) = V /\ Entry(d, c) = n
    BY <1>2 DEF Entries0, Entry
  <2> HIDE DEF V, n
  <2>3. IsVuln(V[n]) /\ V[n].names = c.ids
    BY <2>1, NewOneIsVuln
  <2>4. \A i \in DOMAIN V : IsVuln(V[i])
    BY <1>1, <2>1, <2>3
  <2> QED
    BY <1>2, <2>1, <2>2, <2>3, <2>4
<1>3. CASE FindVuln(d, c) # 0
  BY <1>1, <1>3, FoundIs DEF Entries0, Entry
<1> QED
  BY <1>2, <1>3

\* A product id is defined, unless it was: the others stay.
OneMore(s, pid, purl, t) ==
  /\ DOMAIN t = DOMAIN s \cup {pid}
  /\ \A k \in DOMAIN s : t[k] = s[k]
  /\ pid \notin DOMAIN s => t[pid] = purl

\* That is what defining one does.
LEMMA OneDefined == \A s, pid, purl : OneMore(s, pid, purl, Defining(s, pid, purl))
BY DEF Defining, OneMore

\* The tree once a claim is added: its three ids are defined, unless they were.
TreeAfter(tree, c) == Defining(Defining(Defining(tree, ArtifactId(c), c.product), ComponentId(c), c.sub), PairId(c), NoPurl)

TreeGrown(tree, c, t) ==
  /\ DOMAIN t = DOMAIN tree \cup {ArtifactId(c), ComponentId(c), PairId(c)}
  /\ \A k \in DOMAIN tree : t[k] = tree[k]
  /\ ArtifactId(c) \notin DOMAIN tree => t[ArtifactId(c)] = c.product
  /\ ComponentId(c) \notin DOMAIN tree => t[ComponentId(c)] = c.sub
  /\ PairId(c) \notin DOMAIN tree => t[PairId(c)] = NoPurl

\* The tree is given three ids.
LEMMA TreeGrows ==
  ASSUME NEW tree, NEW c
  PROVE  TreeGrown(tree, c, TreeAfter(tree, c))
<1> DEFINE t == TreeAfter(tree, c)
           a == ArtifactId(c)
           b == ComponentId(c)
           q == PairId(c)
           p == c.product
           u == c.sub
           t1 == Defining(tree, a, p)
           t2 == Defining(t1, b, u)
<1>1. a # b /\ a # q /\ b # q
  BY DEF ArtifactId, ComponentId, PairId
<1>2. t = Defining(t2, q, NoPurl)
  BY DEF TreeAfter
<1> HIDE DEF a, b, q, p, u, t2, t
<1>3. DOMAIN t = DOMAIN t2 \cup {q} /\ (\A k \in DOMAIN t2 : t[k] = t2[k]) /\ (q \notin DOMAIN t2 => t[q] = NoPurl)
  <2>1. OneMore(t2, q, NoPurl, t)
    BY <1>2, OneDefined
  <2> QED
    BY <2>1 DEF OneMore
<1>4. t2 = Defining(t1, b, u)
  BY DEF t2
<1> HIDE DEF t1
<1>5. DOMAIN t2 = DOMAIN t1 \cup {b} /\ (\A k \in DOMAIN t1 : t2[k] = t1[k]) /\ (b \notin DOMAIN t1 => t2[b] = u)
  BY <1>4, OneDefined DEF OneMore
<1>6. t1 = Defining(tree, a, p)
  BY DEF t1
<1>7. DOMAIN t1 = DOMAIN tree \cup {a} /\ (\A k \in DOMAIN tree : t1[k] = tree[k]) /\ (a \notin DOMAIN tree => t1[a] = p)
  BY <1>6, OneDefined DEF OneMore
<1>8. /\ DOMAIN t = DOMAIN tree \cup {a, b, q}
      /\ \A k \in DOMAIN tree : t[k] = tree[k]
      /\ a \notin DOMAIN tree => t[a] = p
      /\ b \notin DOMAIN tree => t[b] = u
      /\ q \notin DOMAIN tree => t[q] = NoPurl
  BY <1>1, <1>3, <1>5, <1>7
<1> QED
  BY <1>8 DEF a, b, q, p, u, t, TreeGrown

\* The relation of a claim is new, or there already.
LEMMA RelationAdded ==
  ASSUME NEW d, WritersIds(d), NEW c, NEW R, R = Relating(d.relations, c)
  PROVE  /\ d.relations \subseteq R
         /\ \A r \in R \ d.relations : r.id = PairId(c) /\ r.component = ComponentId(c) /\ r.container = ArtifactId(c)
         /\ \A r \in R \ d.relations : Relation(d, r.id) = {} /\ Purl(d, r.id) = {}
<1>1. CASE \E r \in d.relations : r.id = PairId(c)
  BY <1>1 DEF Relating
<1>2. CASE ~ \E r \in d.relations : r.id = PairId(c)
  <2> DEFINE q == PairId(c)
             new == [id |-> q, component |-> ComponentId(c), container |-> ArtifactId(c)]
  <2>1. R = d.relations \cup {new}
    BY <1>2 DEF Relating
  <2>2. new.id = q /\ new.component = ComponentId(c) /\ new.container = ArtifactId(c)
    OBVIOUS
  <2>3. Relation(d, q) = {}
    BY <1>2 DEF Relation
  <2>4. Purl(d, q) = {}
    <3>1. q[1] = "pair"
      BY DEF PairId
    <3>2. q \in DOMAIN d.tree => d.tree[q] = NoPurl
      BY <3>1 DEF WritersIds
    <3> QED
      BY <3>2 DEF Purl
  <2> HIDE DEF q, new
  <2>5. \A r \in R \ d.relations : r = new
    BY <2>1
  <2>6. \A r \in R \ d.relations : r.id = q /\ r.component = ComponentId(c) /\ r.container = ArtifactId(c)
    BY <2>2, <2>5
  <2>7. \A r \in R \ d.relations : Relation(d, r.id) = {} /\ Purl(d, r.id) = {}
    BY <2>3, <2>4, <2>6
  <2> QED
    BY <2>1, <2>6, <2>7 DEF q
<1> QED
  BY <1>1, <1>2

\* The ids of an advisory are its writer's still.
LEMMA IdsStay ==
  ASSUME NEW d, WritersIds(d), NEW c, NEW e,
         e.tree = TreeAfter(d.tree, c), e.relations = Relating(d.relations, c)
  PROVE  WritersIds(e)
<1> DEFINE a == ArtifactId(c)
           b == ComponentId(c)
           q == PairId(c)
<1>1. /\ DOMAIN e.tree = DOMAIN d.tree \cup {a, b, q}
      /\ \A k \in DOMAIN d.tree : e.tree[k] = d.tree[k]
      /\ a \notin DOMAIN d.tree => e.tree[a] = c.product
      /\ b \notin DOMAIN d.tree => e.tree[b] = c.sub
      /\ q \notin DOMAIN d.tree => e.tree[q] = NoPurl
  <2>1. TreeGrown(d.tree, c, e.tree)
    BY TreeGrows
  <2> QED
    BY <2>1 DEF TreeGrown
<1>2. a[1] = "artifact" /\ a[2] = c.product /\ b[1] = "component" /\ b[2] = c.sub /\ q[1] = "pair" /\ q[2] = c.sub /\ q[3] = c.product
  BY DEF ArtifactId, ComponentId, PairId
<1>3. a = <<"artifact", q[3]>> /\ b = <<"component", q[2]>>
  BY DEF ArtifactId, ComponentId, PairId
<1>4. \A r \in e.relations \ d.relations : r.id = q /\ r.component = b /\ r.container = a
  BY RelationAdded
<1> HIDE DEF a, b, q
<1>5. ASSUME NEW pid \in DOMAIN e.tree
      PROVE  /\ pid[1] = "pair" => e.tree[pid] = NoPurl
             /\ pid[1] \in {"artifact", "component"} => e.tree[pid] = pid[2]
  <2>1. CASE pid \in DOMAIN d.tree
    BY <1>1, <2>1 DEF WritersIds
  <2>2. CASE pid \notin DOMAIN d.tree
    BY <1>1, <1>2, <2>2
  <2> QED
    BY <2>1, <2>2
<1>6. ASSUME NEW r \in e.relations
      PROVE  /\ r.id[1] \notin {"artifact", "component"}
             /\ r.id[1] = "pair" => r.component = <<"component", r.id[2]>> /\ r.container = <<"artifact", r.id[3]>>
  <2>1. CASE r \in d.relations
    BY <2>1 DEF WritersIds
  <2>2. CASE r \notin d.relations
    <3>1. r.id = q /\ r.component = b /\ r.container = a
      BY <1>4, <2>2
    <3> QED
      BY <1>2, <1>3, <3>1
  <2> QED
    BY <2>1, <2>2
<1> QED
  BY <1>5, <1>6 DEF WritersIds

\* An advisory that says all that another does.
Kept(d, e) ==
  /\ IsAdvisory(e) /\ WritersIds(e)
  /\ e.id = d.id /\ e.version = d.version
  /\ Said(d) \subseteq Said(e)

\* What a claim does to an advisory that has no answer to it: it is listed in
\* its entry, and the tree and the relations define its product ids.
EntersClaim(d, c, e) ==
  /\ IsAdvisory(e) /\ WritersIds(e) /\ Grown(d, e) /\ Len(e.vulns) # 0
  /\ e.id = d.id /\ e.version = d.version /\ e.ts = d.ts
  /\ e.tree = TreeAfter(d.tree, c) /\ e.relations = Relating(d.relations, c)
  /\ Entry(d, c) \in DOMAIN e.vulns
  /\ c.ids # {} => e.vulns[Entry(d, c)].names \cap c.ids # {}
  /\ PairId(c) \in ToSet(e.vulns[Entry(d, c)].lists["not_affected"])
  /\ \A i \in DOMAIN d.vulns :
       /\ i \in DOMAIN e.vulns /\ Keeps(d.vulns[i], e.vulns[i])
       /\ e.vulns[i].ts = d.vulns[i].ts
       /\ \A k \in Statuses : ToSet(e.vulns[i].lists[k]) \subseteq ToSet(d.vulns[i].lists[k]) \cup {PairId(c)}
  /\ \A i \in DOMAIN e.vulns \ DOMAIN d.vulns :
       /\ e.vulns[i].ts = c.ts
       /\ \A k \in Statuses : ToSet(e.vulns[i].lists[k]) \subseteq {PairId(c)}

\* A claim is listed in the entry of its vulnerability (addClaim).
LEMMA ClaimEntered ==
  ASSUME NEW d, IsAdvisory(d), WritersIds(d), NEW c, ~Answered(d, c)
  PROVE  EntersClaim(d, c, AddClaim(d, c))
<1> DEFINE e == AddClaim(d, c)
           V == Entries0(d, c)
           at == Entry(d, c)
           W == [V EXCEPT ![at] = ListedIn(@, c)]
           T == TreeAfter(d.tree, c)
           R == Relating(d.relations, c)
<1>0. /\ d = [kind |-> "csaf", id |-> d.id, version |-> d.version, ts |-> d.ts, tree |-> d.tree,
              relations |-> d.relations, vulns |-> d.vulns]
      /\ Len(d.vulns) \in Nat /\ DOMAIN d.vulns = 1..Len(d.vulns)
  BY ListHas DEF IsAdvisory
<1>1. e = [kind |-> "csaf", id |-> d.id, version |-> d.version, ts |-> d.ts, tree |-> T, relations |-> R, vulns |-> W]
  <2>1. e = [d EXCEPT !.tree = T, !.relations = R, !.vulns = W]
    <3>1. e = IF Answered(d, c) THEN d ELSE [d EXCEPT !.tree = T, !.relations = R, !.vulns = W]
      BY Zenon DEF AddClaim, Answered, TreeAfter, Entry, Entries0
    <3> QED
      BY <3>1, Zenon
  <2>2. d = [kind |-> "csaf", id |-> d.id, version |-> d.version, ts |-> d.ts, tree |-> d.tree,
             relations |-> d.relations, vulns |-> d.vulns]
    BY <1>0
  <2> HIDE DEF e, T, R, W
  <2>3. DOMAIN e = {"kind", "id", "version", "ts", "tree", "relations", "vulns"}
    BY <2>1, <2>2
  <2>4. e.kind = "csaf" /\ e.id = d.id /\ e.version = d.version /\ e.ts = d.ts /\ e.tree = T /\ e.relations = R /\ e.vulns = W
    BY <2>1, <2>2
  <2>5. e = [x \in DOMAIN e |-> e[x]]
    BY <2>1
  <2> QED
    BY <2>3, <2>4, <2>5
<1> HIDE DEF e
<1>2. e.id = d.id /\ e.version = d.version /\ e.tree = T /\ e.relations = R /\ e.vulns = W /\ e.kind = "csaf" /\ e.ts = d.ts
  BY <1>1
<1>3. WritersIds(e)
  BY <1>2, IdsStay
<1>4. Grown(d, e)
  <2>1. DOMAIN d.tree \subseteq DOMAIN T /\ \A pid \in DOMAIN d.tree : T[pid] = d.tree[pid]
    <3>1. TreeGrown(d.tree, c, T)
      BY TreeGrows
    <3> HIDE DEF T
    <3> QED
      BY <3>1 DEF TreeGrown
  <2>2. d.relations \subseteq R /\ \A r \in R \ d.relations : Relation(d, r.id) = {} /\ Purl(d, r.id) = {}
    BY RelationAdded
  <2> HIDE DEF T, R
  <2> QED
    BY <1>2, <2>1, <2>2 DEF Grown
<1>5. /\ IsList(V) /\ (\A i \in DOMAIN V : IsVuln(V[i])) /\ at \in DOMAIN V
      /\ \A i \in DOMAIN d.vulns : i \in DOMAIN V /\ V[i] = d.vulns[i]
  BY Entered
<1>6. at \in DOMAIN d.vulns => at = FindVuln(d, c) /\ FindVuln(d, c) # 0
  <2>1. FindVuln(d, c) = 0 => at = Len(d.vulns) + 1
    BY DEF Entry
  <2>2. FindVuln(d, c) # 0 => at = FindVuln(d, c)
    BY DEF Entry
  <2> QED
    BY <1>0, <2>1, <2>2
<1>13. /\ V[at].names \cap c.ids # {} \/ c.ids = {}
       /\ \A i \in DOMAIN V : i \in DOMAIN d.vulns \/ (i = at /\ FindVuln(d, c) = 0)
  BY Entered
<1>14. FindVuln(d, c) = 0 => V[at] = NewVuln(c)
  <2> SUFFICES ASSUME FindVuln(d, c) = 0 PROVE V[at] = NewVuln(c)
    OBVIOUS
  <2>1. V = Append(d.vulns, NewVuln(c)) /\ at = Len(d.vulns) + 1
    BY DEF Entries0, Entry
  <2>2. IsList(d.vulns)
    BY DEF IsAdvisory
  <2> HIDE DEF V, at
  <2> QED
    BY <2>1, <2>2, ListGrows
<1> HIDE DEF V, at
<1>7. /\ DOMAIN W = DOMAIN V /\ W[at] = ListedIn(V[at], c)
      /\ \A i \in DOMAIN V : i # at => W[i] = V[i]
  BY <1>5
<1>8. IsList(W) /\ Len(W) # 0
  <2>1. Len(V) \in Nat /\ DOMAIN V = 1..Len(V)
    BY <1>5, ListHas
  <2>2. W = [i \in 1..Len(V) |-> W[i]]
    BY <2>1
  <2> HIDE DEF W
  <2>3. W \in [1..Len(V) -> {W[i] : i \in 1..Len(V)}]
    BY <2>2
  <2>4. W \in Seq({W[i] : i \in 1..Len(V)})
    BY <2>1, <2>3
  <2>5. IsList(W) /\ Len(W) \in Nat /\ DOMAIN W = 1..Len(W)
    BY <2>4, ListIs
  <2>6. at \in DOMAIN W
    BY <1>5, <1>7
  <2> QED
    BY <2>5, <2>6
<1> HIDE DEF W
<1> DEFINE w == ListedIn(V[at], c)
<1>9. /\ IsVuln(w) /\ w.names = V[at].names
      /\ \A k \in Statuses : /\ Longer(V[at].lists[k], w.lists[k])
                             /\ ToSet(w.lists[k]) = ToSet(V[at].lists[k]) \cup (IF k = "not_affected" THEN {PairId(c)} ELSE {})
      /\ \A pid : pid # PairId(c) => FlagFor(w, pid) = FlagFor(V[at], pid)
  <2>1. IsVuln(V[at])
    BY <1>5
  <2> QED
    BY <2>1, Listing
<1> HIDE DEF w
<1>10. \A i \in DOMAIN W : IsVuln(W[i])
  BY <1>5, <1>7, <1>9 DEF w
<1>11. IsAdvisory(e)
  <2> HIDE DEF T, R
  <2>1. e = [kind |-> "csaf", id |-> e.id, version |-> e.version, ts |-> e.ts, tree |-> e.tree,
             relations |-> e.relations, vulns |-> e.vulns]
    BY <1>1, <1>2
  <2> QED
    BY <1>2, <1>8, <1>10, <2>1 DEF IsAdvisory
<1>12. ASSUME NEW i \in DOMAIN d.vulns PROVE i \in DOMAIN e.vulns /\ Keeps(d.vulns[i], e.vulns[i])
  <2>1. i \in DOMAIN e.vulns /\ V[i] = d.vulns[i] /\ IsVuln(V[i])
    BY <1>2, <1>5, <1>7
  <2> DEFINE v == V[i]
  <2>2. DOMAIN v.lists = Statuses /\ \A k \in Statuses : IsList(v.lists[k])
    BY <2>1 DEF IsVuln, Statuses
  <2>3. CASE i # at
    <3>1. e.vulns[i] = v
      BY <1>2, <1>5, <1>7, <2>3
    <3> HIDE DEF v
    <3>2. \A k \in Statuses : Longer(v.lists[k], v.lists[k])
      <4> SUFFICES ASSUME NEW s, IsList(s) PROVE Longer(s, s)
        BY <2>2
      <4> QED
        BY ListHas DEF Longer
    <3>3. Keeps(v, v)
      BY <3>2 DEF Keeps
    <3> QED
      BY <2>1, <3>1, <3>3 DEF v
  <2>4. CASE i = at
    <3>1. e.vulns[i] = w /\ v = V[at]
      BY <1>2, <1>7, <2>4 DEF w
    <3>2. ~VulnCovers(v, PairId(c))
      BY <1>6, <2>1, <2>4 DEF Answered
    <3> HIDE DEF v
    <3>3. ASSUME NEW k \in Statuses, NEW n \in DOMAIN v.lists[k]
          PROVE  FlagFor(w, v.lists[k][n]) = FlagFor(v, v.lists[k][n])
      <4>1. v.lists[k][n] \in ToSet(v.lists[k])
        BY <2>2 DEF ToSet
      <4>2. v.lists[k][n] # PairId(c)
        BY <2>2, <3>2, <4>1 DEF VulnCovers
      <4> QED
        BY <1>9, <3>1, <4>2
    <3>4. Keeps(v, w)
      BY <1>9, <3>1, <3>3 DEF Keeps
    <3> QED
      BY <2>1, <3>1, <3>4 DEF v
  <2> QED
    BY <2>3, <2>4
<1>15. w.ts = V[at].ts
  <2> DEFINE v == V[at]
  <2>1. v = [names |-> v.names, ts |-> v.ts, lists |-> v.lists, flags |-> v.flags]
    BY <1>5 DEF IsVuln
  <2>2. w = ListedIn(v, c)
    BY DEF w
  <2> HIDE DEF v, w
  <2>3. w.ts = v.ts
    BY <2>1, <2>2 DEF ListedIn
  <2> QED
    BY <2>3 DEF v
<1>16. /\ at \in DOMAIN e.vulns /\ (c.ids # {} => e.vulns[at].names \cap c.ids # {})
       /\ PairId(c) \in ToSet(e.vulns[at].lists["not_affected"])
  <2>1. e.vulns[at] = w /\ at \in DOMAIN e.vulns
    BY <1>2, <1>5, <1>7 DEF w
  <2>2. PairId(c) \in ToSet(w.lists["not_affected"])
    BY <1>9 DEF Statuses
  <2> QED
    BY <1>9, <1>13, <2>1, <2>2
<1>17. ASSUME NEW i \in DOMAIN d.vulns
       PROVE  /\ e.vulns[i].ts = d.vulns[i].ts
              /\ \A k \in Statuses : ToSet(e.vulns[i].lists[k]) \subseteq ToSet(d.vulns[i].lists[k]) \cup {PairId(c)}
  <2>1. i \in DOMAIN V /\ V[i] = d.vulns[i]
    BY <1>5
  <2>2. CASE i = at
    <3>1. e.vulns[i] = w /\ d.vulns[i] = V[at]
      BY <1>2, <1>7, <2>1, <2>2 DEF w
    <3> QED
      BY <1>9, <1>15, <3>1
  <2>3. CASE i # at
    <3>1. e.vulns[i] = d.vulns[i]
      BY <1>2, <1>7, <2>1, <2>3
    <3> QED
      BY <3>1
  <2> QED
    BY <2>2, <2>3
<1>18. ASSUME NEW i \in DOMAIN e.vulns \ DOMAIN d.vulns
       PROVE  /\ e.vulns[i].ts = c.ts
              /\ \A k \in Statuses : ToSet(e.vulns[i].lists[k]) \subseteq {PairId(c)}
  <2>1. i = at /\ FindVuln(d, c) = 0
    BY <1>2, <1>7, <1>13
  <2>2. V[at] = NewVuln(c) /\ e.vulns[i] = w
    BY <1>2, <1>5, <1>7, <1>14, <2>1 DEF w
  <2> DEFINE v == NewVuln(c)
  <2>3. v = [names |-> c.ids, ts |-> c.ts, lists |-> [k \in Statuses |-> <<>>], flags |-> <<>>]
    BY StatusesAre DEF NewVuln
  <2>4. V[at] = v
    BY <2>2
  <2> HIDE DEF v
  <2>5. v.ts = c.ts /\ \A k \in Statuses : v.lists[k] = <<>>
    BY <2>3
  <2>6. \A k \in Statuses : ToSet(V[at].lists[k]) = {}
    BY <2>4, <2>5, NoList
  <2> QED
    BY <1>9, <1>15, <2>2, <2>4, <2>5, <2>6
<1>19. IsAdvisory(e) /\ WritersIds(e) /\ Grown(d, e) /\ Len(e.vulns) # 0
  BY <1>2, <1>3, <1>4, <1>8, <1>11
<1> HIDE DEF T, R, w
<1>20. EntersClaim(d, c, e)
  BY <1>2, <1>12, <1>16, <1>17, <1>18, <1>19 DEF EntersClaim, at, T, R
<1> QED
  BY <1>20 DEF e

\* A claim takes nothing out of an advisory, and leaves a vulnerability in it.
LEMMA ClaimAdded ==
  ASSUME NEW d, IsAdvisory(d), WritersIds(d), NEW c
  PROVE  Kept(d, AddClaim(d, c)) /\ Len(AddClaim(d, c).vulns) # 0
<1> DEFINE e == AddClaim(d, c)
<1>1. CASE Answered(d, c)
  <2>1. e = d
    BY <1>1 DEF AddClaim, Answered
  <2>2. FindVuln(d, c) \in DOMAIN d.vulns
    BY <1>1, FoundIs DEF Answered
  <2>3. Len(d.vulns) # 0
    BY <2>2, ListHas DEF IsAdvisory
  <2> QED
    BY <2>1, <2>3 DEF Kept
<1>2. CASE ~Answered(d, c)
  <2>1. EntersClaim(d, c, e)
    BY <1>2, ClaimEntered
  <2> HIDE DEF e
  <2>2. Said(d) \subseteq Said(e)
    BY <2>1, SaysMore DEF EntersClaim
  <2> QED
    BY <2>1, <2>2 DEF EntersClaim, Kept, e
<1> QED
  BY <1>1, <1>2

-----------------------------------------------------------------------------
(* The merges.                                                             *)

\* What was kept by one change and by the next was kept.
LEMMA KeptOn ==
  /\ \A d : IsAdvisory(d) /\ WritersIds(d) => Kept(d, d)
  /\ \A d, e, f : Kept(d, e) /\ Kept(e, f) => Kept(d, f)
BY DEF Kept

\* Claims take nothing out of an advisory.
LEMMA AddedKeeps ==
  ASSUME NEW d, IsAdvisory(d), WritersIds(d), NEW claims, Len(claims) \in Nat
  PROVE  /\ Kept(d, AddClaims(d, claims))
         /\ Len(claims) # 0 => Len(AddClaims(d, claims).vulns) # 0
<1>0. PICK g : AddsThem(g, d, claims) /\ AddClaims(d, claims) = g[Len(claims)]
  BY AddedClaimByClaim
<1>1. /\ g[0] = d
      /\ \A n \in 1..Len(claims) : g[n] = AddClaim(g[n - 1], claims[n])
      /\ AddClaims(d, claims) = g[Len(claims)]
  BY <1>0 DEF AddsThem
<1> DEFINE G == {n \in Nat : n <= Len(claims) => Kept(d, g[n]) /\ (n # 0 => Len(g[n].vulns) # 0)}
<1>2. 0 \in G
  BY <1>1, KeptOn
<1>3. ASSUME NEW n \in Nat, n \in G PROVE n + 1 \in G
  <2> SUFFICES ASSUME n + 1 <= Len(claims)
               PROVE  Kept(d, g[n + 1]) /\ Len(g[n + 1].vulns) # 0
    OBVIOUS
  <2>1. n + 1 \in 1..Len(claims) /\ (n + 1) - 1 = n
    OBVIOUS
  <2>2. Kept(d, g[n]) /\ IsAdvisory(g[n]) /\ WritersIds(g[n])
    BY <1>3 DEF Kept
  <2>3. g[n + 1] = AddClaim(g[n], claims[n + 1])
    BY <1>1, <2>1
  <2>4. Kept(g[n], g[n + 1]) /\ Len(g[n + 1].vulns) # 0
    BY <2>2, <2>3, ClaimAdded
  <2> QED
    BY <2>2, <2>4, KeptOn
<1> HIDE DEF G
<1>4. Len(claims) \in G
  BY <1>2, <1>3, CountUp
<1> QED
  BY <1>1, <1>4 DEF G

\* An advisory begun for a product is one of ours.
LEMMA NewOneIsAdvisory ==
  ASSUME NEW id, NEW ts
  PROVE  LET d == NewAdvisory(id, ts) IN
         IsAdvisory(d) /\ WritersIds(d) /\ d.id = id /\ Len(d.vulns) = 0
<1> DEFINE d == NewAdvisory(id, ts)
<1>1. d = [kind |-> "csaf", id |-> id, version |-> 1, ts |-> ts, tree |-> <<>>, relations |-> {}, vulns |-> <<>>]
  BY DEF NewAdvisory
<1> HIDE DEF d
<1>2. d.id = id /\ d.version = 1 /\ d.ts = ts /\ d.tree = <<>> /\ d.relations = {} /\ d.vulns = <<>>
  BY <1>1
<1>3. IsAdvisory(d)
  BY <1>1, <1>2, NoList DEF IsAdvisory
<1>4. WritersIds(d)
  BY <1>2, NoList DEF WritersIds
<1> QED
  BY <1>2, <1>3, <1>4, NoList DEF d

\* A new version says what the last did.
LEMMA RevisedKeeps ==
  ASSUME NEW d, IsAdvisory(d), WritersIds(d), NEW ts
  PROVE  LET e == Revised(d, ts) IN
         IsAdvisory(e) /\ WritersIds(e) /\ e.id = d.id /\ Said(d) \subseteq Said(e)
<1> DEFINE e == Revised(d, ts)
<1>1. /\ d = [kind |-> "csaf", id |-> d.id, version |-> d.version, ts |-> d.ts, tree |-> d.tree,
              relations |-> d.relations, vulns |-> d.vulns]
      /\ IsList(d.vulns) /\ \A i \in DOMAIN d.vulns : IsVuln(d.vulns[i])
  BY DEF IsAdvisory
<1>2. e = [d EXCEPT !.version = @ + 1, !.ts = ts]
  BY DEF Revised
<1> HIDE DEF e
<1>3. DOMAIN e = {"kind", "id", "version", "ts", "tree", "relations", "vulns"} /\ e = [x \in DOMAIN e |-> e[x]]
  BY <1>1, <1>2
<1>4. e.kind = "csaf" /\ e.id = d.id /\ e.tree = d.tree /\ e.relations = d.relations /\ e.vulns = d.vulns
  BY <1>1, <1>2
<1>5. e = [kind |-> "csaf", id |-> e.id, version |-> e.version, ts |-> e.ts, tree |-> e.tree,
           relations |-> e.relations, vulns |-> e.vulns]
  BY <1>3, <1>4
<1>6. IsAdvisory(e)
  BY <1>1, <1>4, <1>5 DEF IsAdvisory
<1>7. WritersIds(e)
  BY <1>4 DEF WritersIds
<1>8. Grown(d, e)
  BY <1>4 DEF Grown
<1>9. ASSUME NEW i \in DOMAIN d.vulns PROVE i \in DOMAIN e.vulns /\ Keeps(d.vulns[i], e.vulns[i])
  <2>1. i \in DOMAIN e.vulns /\ e.vulns[i] = d.vulns[i]
    BY <1>4
  <2> DEFINE v == d.vulns[i]
  <2>2. IsVuln(v)
    BY <1>1
  <2> HIDE DEF v
  <2>3. \A k \in Statuses : IsList(v.lists[k])
    BY <2>2 DEF IsVuln, Statuses
  <2>4. \A k \in Statuses : Longer(v.lists[k], v.lists[k])
    <3> SUFFICES ASSUME NEW s, IsList(s) PROVE Longer(s, s)
      BY <2>3
    <3> QED
      BY ListHas DEF Longer
  <2>5. Keeps(v, v)
    BY <2>4 DEF Keeps
  <2> QED
    BY <2>1, <2>5 DEF v
<1>10. Said(d) \subseteq Said(e)
  BY <1>6, <1>8, <1>9, SaysMore
<1> QED
  BY <1>4, <1>6, <1>7, <1>10 DEF e

\* What a document extended by a write of ours is.
Ours(d) == d.kind = "csaf" => d.id \in ToSet(Products) /\ WritersIds(d)
Extends(d, e) ==
  /\ IsDocument(e) /\ ~Lost(e) /\ Ours(e)
  /\ Said(d) \subseteq Said(e)
  /\ d # Unreadable /\ ~Foreign(d)
  /\ d # NoDoc => e.kind = d.kind
Theirs(d) == d.kind = "csaf" /\ d.id \in ToSet(Products) => WritersIds(d)

\* A merge writes a document that extends the one it was given; and it writes
\* one, if there was none.
Merges(d, m) ==
  /\ m.outcome = "wrote" => Extends(d, m.doc)
  /\ m.outcome # "wrote" => d # NoDoc

\* A document that is there, one that is not, and one that cannot be read.
LEMMA KindsAre ==
  /\ NoDoc.kind = "none" /\ Unreadable.kind = "unreadable" /\ Said(NoDoc) = {}
  /\ \A d : d.kind \in {"openvex", "csaf"} => ~Lost(d) /\ d # NoDoc /\ d # Unreadable
BY DEF NoDoc, Unreadable, Said, Lost

\* MergeCSAF extends the advisory it was given, or begins one.
LEMMA AdvisoryMerged ==
  ASSUME NEW d, IsDocument(d), Theirs(d), NEW id \in ToSet(Products), NEW claims, Len(claims) \in Nat, Len(claims) # 0, NEW ts
  PROVE  Merges(d, MergeCSAF(d, id, claims, ts))
<1> DEFINE own == d.kind = "csaf" /\ d.id = id
           before == IF own THEN d ELSE NewAdvisory(id, ts)
           after == AddClaims(before, claims)
           m == MergeCSAF(d, id, claims, ts)
<1>1. m = IF d = Unreadable THEN Refusal("unreadable")
          ELSE IF d # NoDoc /\ ~own THEN Refusal("declined")
          ELSE IF after = before THEN Refusal("nothing")
          ELSE IF ~own THEN Wrote(after)
          ELSE IF d.version = 0 THEN Refusal("declined")
          ELSE Wrote(Revised(after, ts))
  BY Zenon DEF MergeCSAF
<1>2. own => IsAdvisory(d) /\ WritersIds(d)
  BY KindsAre DEF IsDocument, Theirs
<1>3. IsAdvisory(before) /\ WritersIds(before) /\ before.id = id /\ (~own => Len(before.vulns) = 0)
  <2>1. CASE own
    BY <1>2, <2>1
  <2>2. CASE ~own
    <3>1. before = NewAdvisory(id, ts)
      BY <2>2
    <3> QED
      BY <2>2, <3>1, NewOneIsAdvisory
  <2> QED
    BY <2>1, <2>2
<1> HIDE DEF before
<1>4. Kept(before, after) /\ Len(after.vulns) # 0
  BY <1>3, AddedKeeps
<1> HIDE DEF after, m
<1>5. IsAdvisory(after) /\ WritersIds(after) /\ after.id = id /\ Said(before) \subseteq Said(after) /\ after.kind = "csaf"
  BY <1>3, <1>4 DEF Kept, IsAdvisory
<1>6. \A r : Refusal(r).outcome = r
  BY DEF Refusal
<1>7. \A x : Wrote(x).outcome = "wrote" /\ Wrote(x).doc = x
  BY DEF Wrote
<1>8. CASE d = Unreadable
  <2>1. m.outcome = "unreadable"
    BY <1>1, <1>6, <1>8, Zenon
  <2> QED
    BY <1>8, <2>1, KindsAre DEF Merges, m
<1>9. CASE d # Unreadable /\ d # NoDoc /\ ~own
  <2>1. m.outcome = "declined"
    BY <1>1, <1>6, <1>9, Zenon
  <2> QED
    BY <1>9, <2>1 DEF Merges, m
<1>10. CASE d = NoDoc
  <2>1. ~own /\ d # Unreadable
    BY <1>10, KindsAre
  <2>2. after # before
    BY <1>3, <1>4, <2>1
  <2>3. m = Wrote(after)
    BY <1>1, <1>10, <2>1, <2>2, Zenon
  <2>4. m.outcome = "wrote" /\ m.doc = after
    BY <1>7, <2>3
  <2>5. Extends(d, after)
    BY <1>5, <1>10, <2>1, KindsAre DEF Extends, IsDocument, Ours, Foreign
  <2> QED
    BY <2>4, <2>5 DEF Merges, m
<1>11. CASE own
  <2>1. before = d /\ d # NoDoc /\ d # Unreadable /\ d.kind = "csaf" /\ d.id = id
    BY <1>11, KindsAre DEF before
  <2>2. m.outcome \in {"nothing", "declined"} \/ m = Wrote(Revised(after, ts))
    <3>1. CASE after = before
      BY <1>1, <1>6, <1>11, <2>1, <3>1
    <3>2. CASE after # before /\ d.version = 0
      BY <1>1, <1>6, <1>11, <2>1, <3>2
    <3>3. CASE after # before /\ d.version # 0
      BY <1>1, <1>11, <2>1, <3>3
    <3> QED
      BY <3>1, <3>2, <3>3
  <2> DEFINE e == Revised(after, ts)
  <2>3. IsAdvisory(e) /\ WritersIds(e) /\ e.id = id /\ Said(after) \subseteq Said(e)
    BY <1>5, RevisedKeeps
  <2> HIDE DEF e
  <2>4. e.kind = "csaf" /\ Said(d) \subseteq Said(e)
    BY <1>5, <2>1, <2>3 DEF IsAdvisory
  <2>5. Extends(d, e)
    BY <2>1, <2>3, <2>4, KindsAre DEF Extends, IsDocument, Ours, Foreign
  <2>6. CASE m.outcome \in {"nothing", "declined"}
    BY <2>1, <2>6 DEF Merges, m
  <2>7. CASE m = Wrote(Revised(after, ts))
    <3>1. m.outcome = "wrote" /\ m.doc = e
      BY <1>7, <2>7 DEF e
    <3> QED
      BY <2>5, <3>1 DEF Merges, m
  <2> QED
    BY <2>2, <2>6, <2>7
<1> QED
  BY <1>8, <1>9, <1>10, <1>11

\* The statements of an OpenVEX document that are read: those that name a
\* vulnerability and a product.
Read(d) == {i \in DOMAIN d.statements : d.statements[i].ids # {} /\ d.statements[i].products # {}}
AllRead(d) == {AsRead(d.statements[i], d.ts) : i \in Read(d)}

\* What is read of an OpenVEX document: each of them, as it is read.
LEMMA StatementsRead ==
  ASSUME NEW d, d.kind = "openvex", IsList(d.statements)
  PROVE  IsList(ReadStatements(d)) /\ ToSet(ReadStatements(d)) = AllRead(d)
<1> DEFINE S == d.statements
           T == [i \in DOMAIN S |-> AsRead(S[i], d.ts)]
           R == ToSet(T)
           P == Read(d)
<1>1. ReadStatements(d) = Select(T, P)
  BY DEF ReadStatements, Read
<1>2. Len(S) \in Nat /\ DOMAIN S = 1..Len(S)
  BY ListHas
<1>3. P \cap DOMAIN T = P
  BY DEF Read
<1> HIDE DEF P
<1>4. T \in Seq(R)
  <2> DEFINE n == Len(S)
  <2>1. T = [i \in 1..n |-> AsRead(S[i], d.ts)] /\ n \in Nat
    BY <1>2
  <2> HIDE DEF n
  <2>2. \A i \in 1..n : T[i] \in R
    BY <2>1 DEF ToSet
  <2> HIDE DEF R
  <2>3. T = [i \in 1..n |-> T[i]]
    BY <2>1
  <2> HIDE DEF T
  <2> QED
    BY <2>1, <2>2, <2>3
<1>5. \A i \in P : T[i] = AsRead(S[i], d.ts)
  BY <1>3
<1> HIDE DEF T, R
<1>6. Select(T, P) \in Seq(R) /\ ToSet(Select(T, P)) = {T[i] : i \in P}
  BY <1>3, <1>4, Selected
<1>7. IsList(Select(T, P))
  BY <1>6, ListIs
<1>8. {T[i] : i \in P} = AllRead(d)
  BY <1>5 DEF AllRead, P
<1> QED
  BY <1>1, <1>6, <1>7, <1>8

\* Statements that only grow say what they said, whatever date they then get.
LEMMA StatementsSayMore ==
  ASSUME NEW d, NEW e, d.kind = "openvex", e.kind = "openvex", IsList(d.statements), Longer(d.statements, e.statements)
  PROVE  Said(d) \subseteq Said(e)
<1> DEFINE S == d.statements
           T == e.statements
<1>1. IsList(T) /\ \A i \in DOMAIN S : i \in DOMAIN T /\ T[i] = S[i]
  BY DEF Longer
<1>2. /\ Said(d) = UNION {Voice(s) : s \in AllRead(d)}
      /\ Said(e) = UNION {Voice(s) : s \in AllRead(e)}
  BY <1>1, StatementsRead DEF Said, Voice
<1>3. \A s, ts : Voice(AsRead(s, ts)) = Voice(s)
  BY DEF Voice, AsRead
<1>4. \A i \in Read(d) : i \in Read(e) /\ T[i] = S[i]
  BY <1>1 DEF Read
<1>5. SUFFICES ASSUME NEW s \in AllRead(d) PROVE \E t \in AllRead(e) : Voice(t) = Voice(s)
  BY <1>2
<1>6. PICK i \in Read(d) : s = AsRead(S[i], d.ts)
  BY <1>5 DEF AllRead
<1> HIDE DEF S, T
<1>7. Voice(s) = Voice(AsRead(T[i], e.ts))
  BY <1>3, <1>4, <1>6
<1>8. AsRead(T[i], e.ts) \in AllRead(e)
  BY <1>4, <1>6 DEF AllRead, T
<1> QED
  BY <1>7, <1>8

\* MergeOpenVEX extends the document it was given, or begins one.
LEMMA StatementsMerged ==
  ASSUME NEW d, IsDocument(d), NEW claims, Len(claims) \in Nat, Len(claims) # 0, NEW ts
  PROVE  Merges(d, MergeOpenVEX(d, claims, ts))
<1> DEFINE before == IF d = NoDoc THEN <<>> ELSE d.statements
           after == MergeClaims(before, claims)
           m == MergeOpenVEX(d, claims, ts)
           e == OpenVEX(ts, after)
<1>1. m = IF d.kind = "csaf" THEN Refusal("declined")
          ELSE IF d = Unreadable THEN Refusal("unreadable")
          ELSE IF after = before THEN Refusal("nothing") ELSE Wrote(e)
  BY Zenon DEF MergeOpenVEX
<1>2. \A r : Refusal(r).outcome = r
  BY DEF Refusal
<1>3. \A x : Wrote(x).outcome = "wrote" /\ Wrote(x).doc = x
  BY DEF Wrote
<1> HIDE DEF m
<1>4. CASE d.kind = "csaf"
  <2>1. m.outcome = "declined"
    BY <1>1, <1>2, <1>4, Zenon
  <2> QED
    BY <1>4, <2>1, KindsAre DEF Merges, m
<1>5. CASE d.kind # "csaf" /\ d = Unreadable
  <2>1. m.outcome = "unreadable"
    BY <1>1, <1>2, <1>5, Zenon
  <2> QED
    BY <1>5, <2>1, KindsAre DEF Merges, m
<1>6. CASE d.kind # "csaf" /\ d # Unreadable
  <2>1. d = NoDoc \/ (d # NoDoc /\ d.kind = "openvex" /\ IsList(d.statements))
    BY <1>6, KindsAre DEF IsDocument
  <2>2. IsList(before)
    BY <2>1, NoList
  <2>3. Longer(before, after) /\ Len(after) # 0
    <3> HIDE DEF before
    <3> QED
      BY <2>2, MergedKeeps
  <2>4. d = NoDoc => after # before
    BY <2>3, NoList
  <2>5. e.kind = "openvex" /\ e.ts = ts /\ e.statements = after /\ e = OpenVEX(e.ts, e.statements)
    BY DEF OpenVEX
  <2>6. Said(d) \subseteq Said(e)
    <3>1. CASE d = NoDoc
      BY <3>1, KindsAre
    <3>2. CASE d # NoDoc
      <4>1. d.kind = "openvex" /\ before = d.statements
        BY <2>1, <3>2
      <4> HIDE DEF before, after, e
      <4> QED
        BY <2>2, <2>3, <2>5, <4>1, StatementsSayMore
    <3> QED
      BY <3>1, <3>2
  <2>7. IsList(after)
    BY <2>3 DEF Longer
  <2> HIDE DEF before, after, e
  <2>8. Extends(d, e)
    BY <1>6, <2>1, <2>5, <2>6, <2>7, KindsAre DEF Extends, IsDocument, Ours, Foreign
  <2>9. CASE after = before
    <3>1. m.outcome = "nothing"
      BY <1>1, <1>2, <1>6, <2>9, Zenon
    <3> QED
      BY <2>4, <2>9, <3>1 DEF Merges, m
  <2>10. CASE after # before
    <3>1. m.outcome = "wrote" /\ m.doc = e
      BY <1>1, <1>3, <1>6, <2>10, Zenon
    <3> QED
      BY <2>8, <3>1 DEF Merges, m
  <2> QED
    BY <2>9, <2>10
<1> QED
  BY <1>4, <1>5, <1>6

-----------------------------------------------------------------------------
(* The plan of a run.                                                      *)

\* A finite set has a finite image.
LEMMA ImageIsFinite ==
  ASSUME NEW S, IsFiniteSet(S), NEW f, DOMAIN f = S
  PROVE  IsFiniteSet({f[x] : x \in S})
<1> DEFINE T == {f[x] : x \in S}
           g == [x \in S |-> f[x]]
<1>1. g \in Surjection(S, T)
  BY DEF Surjection
<1> HIDE DEF T, g
<1> QED
  BY <1>1, FS_Surjection DEF T

\* The claims of a scan are a list, each is of a finding, and the fresh ones are
\* those that are not covered.
LEMMA ClaimsAreOfFindings ==
  ASSUME NEW A, IsFiniteSet(A), NEW p
  PROVE  /\ \A c \in ToSet(Claims(A, p)) : \E a \in A : Claimable(a.f) /\ a.f.product = p /\ c = ClaimOf(a)
         /\ \A c \in ToSet(Claims(A, p)) : c \in ToSet(Fresh(A, p)) \/ c.covered
         /\ IsList(Claims(A, p)) /\ IsList(Fresh(A, p)) /\ ToSet(Fresh(A, p)) \subseteq ToSet(Claims(A, p))
<1> DEFINE B == {a \in A : Claimable(a.f) /\ a.f.product = p}
           of == {ClaimOf(a) : a \in B}
           same(c) == {d \in of : d.vuln = c.vuln /\ d.sub = c.sub}
           C == {CHOOSE d \in same(c) : TRUE : c \in of}
           f == [a \in B |-> ClaimOf(a)]
           g == [c \in of |-> CHOOSE d \in same(c) : TRUE]
<1>1. IsFiniteSet(of)
  <2>1. IsFiniteSet(B)
    BY FS_Subset
  <2>2. DOMAIN f = B /\ of = {f[a] : a \in B}
    OBVIOUS
  <2> HIDE DEF B, f, of
  <2> QED
    BY <2>1, <2>2, ImageIsFinite
<1>2. IsFiniteSet(C)
  <2>1. DOMAIN g = of /\ C = {g[c] : c \in of}
    OBVIOUS
  <2> HIDE DEF g, of, C
  <2> QED
    BY <1>1, <2>1, ImageIsFinite
<1>3. Claims(A, p) = SetToSeq(C)
  BY DEF Claims
<1>4. C \subseteq of
  <2>1. \A c \in of : c \in same(c)
    OBVIOUS
  <2>2. \A c \in of : (CHOOSE d \in same(c) : TRUE) \in same(c)
    BY <2>1
  <2> QED
    BY <2>2
<1> HIDE DEF C
<1>5. ToSet(Claims(A, p)) = C
  BY <1>2, <1>3, PutInOrder
<1>6. \A c \in ToSet(Claims(A, p)) : \E a \in A : Claimable(a.f) /\ a.f.product = p /\ c = ClaimOf(a)
  BY <1>4, <1>5
<1> DEFINE all == Claims(A, p)
           T == ToSet(all)
           fresh == {i \in DOMAIN all : ~all[i].covered}
<1>7. IsList(all)
  <2> HIDE DEF all
  <2>1. all \in Seq(C)
    BY <1>2, <1>3, PutInOrder DEF all
  <2> QED
    BY <2>1, ListIs
<1>8. Fresh(A, p) = Select(all, fresh)
  BY DEF Fresh
<1>9. all \in Seq(T)
  BY <1>7 DEF IsList
<1>10. \A c \in T : \E i \in DOMAIN all : all[i] = c
  BY DEF ToSet
<1>11. \A i \in DOMAIN all : i \in fresh \/ all[i].covered
  OBVIOUS
<1> HIDE DEF all, T, fresh
<1>12. ToSet(Select(all, fresh)) = {all[i] : i \in fresh \cap DOMAIN all}
  BY <1>9, Selected
<1>13. IsList(Fresh(A, p)) /\ ToSet(Fresh(A, p)) \subseteq T
  <2>1. Select(all, fresh) \in Seq(T)
    BY <1>9, Selected
  <2> QED
    BY <1>8, <2>1, ListIs
<1>14. \A c \in T : c \in ToSet(Fresh(A, p)) \/ c.covered
  BY <1>8, <1>10, <1>11, <1>12
<1> QED
  BY <1>6, <1>7, <1>13, <1>14 DEF all, T

\* A list with something in it is not the empty one.
LEMMA NotEmpty == \A s : IsList(s) => (s # <<>> <=> Len(s) # 0) /\ (s # <<>> <=> ToSet(s) # {})
<1> SUFFICES ASSUME NEW s, IsList(s) PROVE (s # <<>> <=> Len(s) # 0) /\ (s # <<>> <=> ToSet(s) # {})
  OBVIOUS
<1>1. s \in Seq(ToSet(s)) /\ Len(s) \in Nat /\ DOMAIN s = 1..Len(s)
  BY ListHas DEF IsList
<1>2. Len(s) # 0 => 1 \in DOMAIN s /\ s[1] \in ToSet(s)
  BY <1>1 DEF ToSet
<1>3. Len(s) = 0 => s = <<>>
  <2> DEFINE T == ToSet(s)
  <2>1. s \in Seq(T)
    BY <1>1
  <2> HIDE DEF T
  <2> QED
    BY <2>1, EmptySeq
<1> QED
  BY <1>1, <1>2, <1>3, NoList

\* Lists laid end to end are a list.
LEMMA FlattenedLists ==
  ASSUME NEW q, NEW n \in Nat, q = [i \in 1..n |-> q[i]], \A i \in 1..n : IsList(q[i])
  PROVE  IsList(FlattenSeq(q)) /\ ToSet(FlattenSeq(q)) = UNION {ToSet(q[i]) : i \in 1..n}
<1> DEFINE S == UNION {ToSet(q[i]) : i \in 1..n}
<1>1. ASSUME NEW i \in 1..n PROVE q[i] \in Seq(S)
  <2> DEFINE t == q[i]
  <2>1. Len(t) \in Nat /\ DOMAIN t = 1..Len(t) /\ (\A k \in 1..Len(t) : t[k] \in ToSet(t)) /\ t \in Seq(ToSet(t))
    BY ListHas DEF IsList
  <2>2. ToSet(t) \subseteq S
    OBVIOUS
  <2> HIDE DEF t, S
  <2>3. t \in [1..Len(t) -> S]
    BY <2>1, <2>2
  <2> QED
    BY <2>1, <2>3 DEF t
<1>2. DOMAIN q = 1..n
  OBVIOUS
<1> HIDE DEF S
<1>3. q \in [1..n -> Seq(S)]
  BY <1>1
<1>4. q \in Seq(Seq(S))
  BY <1>3
<1>5. FlattenSeq(q) \in Seq(S) /\ ToSet(FlattenSeq(q)) = UNION {ToSet(q[i]) : i \in DOMAIN q}
  BY <1>4, Flattened
<1>6. IsList(FlattenSeq(q))
  BY <1>5, ListIs
<1> QED
  BY <1>2, <1>5, <1>6

-----------------------------------------------------------------------------
(* Where documents are filed.                                              *)

\* What the first run and every later one read: the directory as it is.
Reads == Index0 = index /\ \A l \in Locations : Raw(l) = disk[l]
Filed == IsIndex(index) /\ index # BadIndex /\ OneProductEach(index)

\* The products are a list that names each once.
LEMMA ProductsAre ==
  /\ Products \in Seq(ToSet(Products)) /\ DOMAIN Products = 1..Len(Products) /\ Len(Products) \in Nat
  /\ \A i, j \in DOMAIN Products : Products[i] = Products[j] => i = j
  /\ \A i \in DOMAIN Products : Products[i] \in ToSet(Products)
<1>1. IsList(Products) /\ \A i, j \in DOMAIN Products : Products[i] = Products[j] => i = j
  BY HubAssumption
<1> QED
  BY <1>1, ListHas DEF IsList

\* A product that is filed is filed at one of the places of its name.
LEMMA EntryOf ==
  ASSUME Filed, NEW p
  PROVE  EntriesOf(index, p) # {} =>
           /\ Min(EntriesOf(index, p)) \in DOMAIN index
           /\ index[Min(EntriesOf(index, p))].product = p
           /\ index[Min(EntriesOf(index, p))].loc \in Locations \cup {Outside}
<1> DEFINE E == EntriesOf(index, p)
<1>1. IsList(index) /\ \A i \in DOMAIN index : index[i].loc \in Locations \cup {Outside}
  BY DEF Filed, IsIndex
<1>2. E \subseteq Nat
  BY <1>1, ListHas DEF EntriesOf
<1> HIDE DEF E
<1>3. E # {} => Min(E) \in E
  BY <1>2, LeastNumber
<1> QED
  BY <1>1, <1>3 DEF E, EntriesOf

\* A document that may be written has a place in the hub, and no other product
\* is written there.
LEMMA PlacesApart ==
  ASSUME Filed, Reads
  PROVE  /\ \A p \in ToSet(Products) : Ensured(p) => Location(p) \in Locations
         /\ \A p \in ToSet(Products) : Ensured(p) /\ Indexed(p) = {} => Location(p) = Home[p]
         /\ \A p, q \in ToSet(Products) : Ensured(p) /\ Ensured(q) /\ Location(p) = Location(q) => p = q
<1> DEFINE at(p) == Min(EntriesOf(index, p))
<1>1. \A p : Location(p) = IF EntriesOf(index, p) # {} THEN index[at(p)].loc ELSE Home[p]
  BY DEF Location, Indexed, Reads
<1>2. \A p : Indexed(p) = EntriesOf(index, p)
  BY DEF Indexed, Reads
<1>3. \A p : EntriesOf(index, p) # {} => at(p) \in DOMAIN index /\ index[at(p)].product = p /\ index[at(p)].loc \in Locations \cup {Outside}
  BY EntryOf
<1> HIDE DEF at
<1>4. /\ \A p \in ToSet(Products) : Home[p] \in Locations \cup {NoHome}
      /\ \A p, q \in ToSet(Products) : Home[p] = Home[q] => p = q \/ Home[p] = NoHome
  BY HubAssumption
<1>5. ASSUME NEW p \in ToSet(Products), Ensured(p) PROVE Location(p) \in Locations
  BY <1>1, <1>3, <1>4, <1>5 DEF Ensured
<1>6. \A i \in DOMAIN index : index[i].loc \in Locations =>
        /\ \A j \in DOMAIN index : index[j].loc = index[i].loc => index[j].product = index[i].product
        /\ \A p \in ToSet(Products) : Home[p] = index[i].loc => index[i].product = p
  BY DEF Filed, OneProductEach
<1>7. ASSUME NEW p \in ToSet(Products), NEW q \in ToSet(Products), Ensured(p), Ensured(q), Location(p) = Location(q)
      PROVE  p = q
  <2>1. Location(p) \in Locations /\ Location(q) \in Locations
    BY <1>5, <1>7
  <2>2. CASE EntriesOf(index, p) # {} /\ EntriesOf(index, q) # {}
    <3>1. index[at(p)].loc = index[at(q)].loc /\ index[at(p)].loc \in Locations
      BY <1>1, <1>7, <2>1, <2>2
    <3> QED
      BY <1>3, <1>6, <2>2, <3>1
  <2>3. CASE EntriesOf(index, p) # {} /\ EntriesOf(index, q) = {}
    <3>1. index[at(p)].loc = Home[q] /\ index[at(p)].loc \in Locations
      BY <1>1, <1>7, <2>1, <2>3
    <3> QED
      BY <1>3, <1>6, <2>3, <3>1
  <2>4. CASE EntriesOf(index, p) = {} /\ EntriesOf(index, q) # {}
    <3>1. index[at(q)].loc = Home[p] /\ index[at(q)].loc \in Locations
      BY <1>1, <1>7, <2>1, <2>4
    <3> QED
      BY <1>3, <1>6, <2>4, <3>1
  <2>5. CASE EntriesOf(index, p) = {} /\ EntriesOf(index, q) = {}
    <3>1. Home[p] = Home[q] /\ Home[p] # NoHome
      BY <1>1, <1>7, <2>5 DEF Ensured
    <3> QED
      BY <1>4, <3>1
  <2> QED
    BY <2>2, <2>3, <2>4, <2>5
<1>8. \A p \in ToSet(Products) : Ensured(p) /\ Indexed(p) = {} => Location(p) = Home[p]
  BY <1>1, <1>2
<1> QED
  BY <1>5, <1>7, <1>8

\* The documents of the hub, and the ids of the advisories that are ours.
Documents == \A l \in Locations : IsDocument(disk[l]) /\ Theirs(disk[l])

\* A change to a document is an extension of it, and the only one there.
Amends(ch) == ch.loc \in Locations /\ Extends(disk[ch.loc], ch.doc)

\* A product to propose is merged into the document at its place.
LEMMA ProductMerged ==
  ASSUME Filed, Reads, Documents, NEW A, IsFiniteSet(A), NEW i \in ToPropose(A)
  PROVE  LET p == Products[i] IN
         /\ p \in ToSet(Products) /\ Ensured(p) /\ Location(p) \in Locations
         /\ Merges(disk[Location(p)], Merged(A, p))
<1> DEFINE p == Products[i]
           claims == Fresh(A, p)
           d == disk[Location(p)]
<1>1. p \in ToSet(Products) /\ Ensured(p) /\ claims # <<>>
  BY ProductsAre DEF ToPropose
<1>2. Location(p) \in Locations
  BY <1>1, PlacesApart
<1>3. IsList(claims)
  BY ClaimsAreOfFindings
<1>4. Len(claims) \in Nat /\ Len(claims) # 0
  BY <1>1, <1>3, ListHas, NotEmpty
<1>5. IsDocument(d) /\ Theirs(d) /\ Raw(Location(p)) = d
  BY <1>2 DEF Documents, Reads
<1>6. Merged(A, p) = IF settings.format = "csaf" THEN MergeCSAF(d, p, claims, Today) ELSE MergeOpenVEX(d, claims, Today)
  BY <1>5 DEF Merged
<1> HIDE DEF p, claims, d
<1>7. Merges(d, MergeCSAF(d, p, claims, Today)) /\ Merges(d, MergeOpenVEX(d, claims, Today))
  BY <1>1, <1>4, <1>5, AdvisoryMerged, StatementsMerged
<1>8. Merges(d, Merged(A, p))
  BY <1>6, <1>7
<1> QED
  BY <1>1, <1>2, <1>8 DEF p, d

\* The writes are of products to propose, each once.
LEMMA WritesAre ==
  ASSUME NEW A
  PROVE  /\ IsList(Writes(A)) /\ DOMAIN Writes(A) = 1..Len(Writes(A)) /\ Len(Writes(A)) \in Nat
         /\ \A n \in DOMAIN Writes(A) : \E i \in ToPropose(A) : Writes(A)[n] = Products[i] /\ Merged(A, Products[i]).outcome = "wrote"
         /\ \A i \in ToPropose(A) : Merged(A, Products[i]).outcome = "wrote" => \E n \in DOMAIN Writes(A) : Writes(A)[n] = Products[i]
         /\ \A n, k \in DOMAIN Writes(A) : Writes(A)[n] = Writes(A)[k] => n = k
<1> DEFINE W == Writes(A)
           P == {i \in ToPropose(A) : Merged(A, Products[i]).outcome = "wrote"}
           T == ToSet(Products)
<1>1. W = Select(Products, P)
  BY DEF Writes
<1>2. P \subseteq DOMAIN Products
  BY DEF ToPropose
<1>3. Products \in Seq(T) /\ \A i, j \in DOMAIN Products : Products[i] = Products[j] => i = j
  BY ProductsAre
<1> HIDE DEF W, P, T
<1>4. /\ W \in Seq(T) /\ ToSet(W) = {Products[i] : i \in P \cap DOMAIN Products}
      /\ \A n, k \in DOMAIN W : W[n] = W[k] => n = k
  BY <1>1, <1>3, Selected
<1>5. ToSet(W) = {Products[i] : i \in P}
  BY <1>2, <1>4
<1>6. IsList(W) /\ DOMAIN W = 1..Len(W) /\ Len(W) \in Nat
  BY <1>4, ListIs
<1>7. \A n \in DOMAIN W : \E i \in P : W[n] = Products[i]
  BY <1>5 DEF ToSet
<1>8. \A i \in P : \E n \in DOMAIN W : W[n] = Products[i]
  BY <1>5 DEF ToSet
<1> QED
  BY <1>4, <1>6, <1>7, <1>8 DEF W, P

\* The changes to documents amend them, each at a place of its own.
LEMMA DocumentsAmended ==
  ASSUME Filed, Reads, Documents, NEW A, IsFiniteSet(A)
  PROVE  /\ IsList(DocumentChanges(A)) /\ DOMAIN DocumentChanges(A) = DOMAIN Writes(A)
         /\ \A n \in DOMAIN DocumentChanges(A) : Amends(DocumentChanges(A)[n])
         /\ \A n, k \in DOMAIN DocumentChanges(A) : DocumentChanges(A)[n].loc = DocumentChanges(A)[k].loc => n = k
<1> DEFINE W == Writes(A)
           D == DocumentChanges(A)
<1>1. /\ DOMAIN W = 1..Len(W) /\ Len(W) \in Nat
      /\ \A n \in DOMAIN W : \E i \in ToPropose(A) : W[n] = Products[i] /\ Merged(A, Products[i]).outcome = "wrote"
      /\ \A n, k \in DOMAIN W : W[n] = W[k] => n = k
  BY WritesAre
<1>2. D = [n \in DOMAIN W |-> [loc |-> Location(W[n]), doc |-> Merged(A, W[n]).doc]]
  BY DEF DocumentChanges
<1> HIDE DEF W, D
<1>3. DOMAIN D = DOMAIN W /\ \A n \in DOMAIN D : D[n].loc = Location(W[n]) /\ D[n].doc = Merged(A, W[n]).doc
  BY <1>2
<1>4. IsList(D)
  <2>1. D \in [1..Len(W) -> {D[n] : n \in 1..Len(W)}]
    BY <1>1, <1>2
  <2>2. D \in Seq({D[n] : n \in 1..Len(W)})
    BY <1>1, <2>1
  <2> QED
    BY <2>2, ListIs
<1>5. ASSUME NEW n \in DOMAIN D
      PROVE  W[n] \in ToSet(Products) /\ Ensured(W[n]) /\ Location(W[n]) \in Locations /\ Extends(disk[Location(W[n])], Merged(A, W[n]).doc)
  <2>1. PICK i \in ToPropose(A) : W[n] = Products[i] /\ Merged(A, Products[i]).outcome = "wrote"
    BY <1>1, <1>3
  <2> DEFINE p == Products[i]
  <2>2. p \in ToSet(Products) /\ Ensured(p) /\ Location(p) \in Locations /\ Merges(disk[Location(p)], Merged(A, p))
    BY ProductMerged
  <2>3. W[n] = p /\ Merged(A, p).outcome = "wrote"
    BY <2>1
  <2> HIDE DEF p
  <2> QED
    BY <2>2, <2>3 DEF Merges
<1>6. \A n \in DOMAIN D : Amends(D[n])
  BY <1>3, <1>5 DEF Amends
<1>7. ASSUME NEW n \in DOMAIN D, NEW k \in DOMAIN D, D[n].loc = D[k].loc PROVE n = k
  <2>1. Location(W[n]) = Location(W[k])
    BY <1>3, <1>7
  <2>2. W[n] = W[k]
    BY <1>5, <2>1, PlacesApart
  <2> QED
    BY <1>1, <1>3, <2>2
<1> QED
  BY <1>3, <1>4, <1>6, <1>7 DEF W, D

\* The claims of an aggregate are those of the products that can be filed.
LEMMA EligibleClaimsAre ==
  ASSUME NEW A, IsFiniteSet(A)
  PROVE  /\ IsList(EligibleClaims(A))
         /\ \A c \in ToSet(EligibleClaims(A)) : \E p \in ToSet(Products) : c \in ToSet(Claims(A, p))
         /\ Eligible(A) # <<>> <=> Len(EligibleClaims(A)) # 0
<1> DEFINE claims == EligibleClaims(A)
           E == Eligible(A)
           Q == {i \in DOMAIN Products : Claims(A, Products[i]) # <<>> /\ CanBeFiled(A, Products[i])}
           T == ToSet(Products)
           n == Len(E)
           parts == [i \in DOMAIN E |-> Claims(A, E[i])]
<1>1. Q \subseteq DOMAIN Products /\ \A i \in Q : Claims(A, Products[i]) # <<>> /\ Products[i] \in T
  BY ProductsAre
<1>2. E = Select(Products, Q)
  BY DEF Eligible
<1>3. claims = FlattenSeq(parts)
  BY DEF EligibleClaims
<1>4. Products \in Seq(T)
  BY ProductsAre
<1> HIDE DEF E, Q, T, claims
<1>5. E \in Seq(T) /\ ToSet(E) = {Products[i] : i \in Q \cap DOMAIN Products}
  BY <1>2, <1>4, Selected
<1>6. \A i \in DOMAIN E : Claims(A, E[i]) # <<>> /\ E[i] \in T
  BY <1>1, <1>5 DEF ToSet
<1>7. DOMAIN E = 1..n /\ n \in Nat
  BY <1>5, LenProperties
<1>8. \A i \in DOMAIN E : IsList(Claims(A, E[i]))
  BY ClaimsAreOfFindings
<1>9. parts = [i \in 1..n |-> parts[i]] /\ \A i \in 1..n : parts[i] = Claims(A, E[i]) /\ IsList(parts[i])
  BY <1>7, <1>8
<1> HIDE DEF parts, n
<1>10. IsList(claims) /\ ToSet(claims) = UNION {ToSet(parts[i]) : i \in 1..n}
  BY <1>3, <1>7, <1>9, FlattenedLists
<1>11. \A c \in ToSet(claims) : \E p \in T : c \in ToSet(Claims(A, p))
  BY <1>6, <1>7, <1>9, <1>10
<1>12. E # <<>> <=> n # 0
  BY <1>5, EmptySeq, NoList DEF n
<1>13. n # 0 => ToSet(claims) # {}
  <2> SUFFICES ASSUME n # 0 PROVE ToSet(claims) # {}
    OBVIOUS
  <2>1. 1 \in 1..n
    BY <1>7
  <2>2. ToSet(parts[1]) # {}
    BY <1>6, <1>7, <1>9, <2>1, NotEmpty
  <2> QED
    BY <1>10, <2>1, <2>2
<1>14. n = 0 => ToSet(claims) = {}
  BY <1>10
<1>15. ToSet(claims) # {} <=> Len(claims) # 0
  BY <1>10, NotEmpty
<1> QED
  BY <1>10, <1>11, <1>12, <1>13, <1>14, <1>15 DEF claims, E, T

\* The changes to aggregates amend them; two of one place are the same.
LEMMA AggregatesAmended ==
  ASSUME Filed, Reads, Documents, settings \in Settings, NEW A, IsFiniteSet(A)
  PROVE  /\ IsList(AggregateChanges(A))
         /\ \A n \in DOMAIN AggregateChanges(A) : Amends(AggregateChanges(A)[n])
         /\ \A n, k \in DOMAIN AggregateChanges(A) :
              AggregateChanges(A)[n].loc = AggregateChanges(A)[k].loc => AggregateChanges(A)[n].doc = AggregateChanges(A)[k].doc
         /\ \A n \in DOMAIN AggregateChanges(A) :
              Eligible(A) # <<>> /\ \E i \in DOMAIN settings.aggregates : settings.aggregates[i] = AggregateChanges(A)[n].loc
<1> DEFINE paths == settings.aggregates
           P == {i \in DOMAIN paths : Eligible(A) # <<>> /\ AggregateOf(A, paths[i]).outcome = "wrote"}
           S == Select(paths, P)
           C == AggregateChanges(A)
<1>1. paths \in Seq(Locations)
  BY HubAssumption
<1>2. C = [i \in DOMAIN S |-> [loc |-> S[i], doc |-> AggregateOf(A, S[i]).doc]]
  BY DEF AggregateChanges
<1>3. P \subseteq DOMAIN paths
  OBVIOUS
<1> DEFINE written(l) == l \in Locations /\ Eligible(A) # <<>> /\ AggregateOf(A, l).outcome = "wrote" /\ \E i \in DOMAIN paths : paths[i] = l
<1>4. \A i \in P : paths[i] \in Locations /\ written(paths[i])
  BY <1>1
<1> HIDE DEF paths, P, C, written
<1>5. S \in Seq(Locations) /\ ToSet(S) = {paths[i] : i \in P \cap DOMAIN paths}
  BY <1>1, Selected
<1> HIDE DEF S
<1>6. DOMAIN S = 1..Len(S) /\ Len(S) \in Nat /\ \A n \in DOMAIN S : written(S[n])
  <2>1. \A n \in DOMAIN S : \E i \in P : S[n] = paths[i]
    BY <1>5 DEF ToSet
  <2> QED
    BY <1>4, <1>5, <2>1, LenProperties
<1>7. DOMAIN C = DOMAIN S /\ \A n \in DOMAIN C : C[n].loc = S[n] /\ C[n].doc = AggregateOf(A, S[n]).doc
  BY <1>2
<1>8. IsList(C)
  <2>1. C \in [1..Len(S) -> {C[n] : n \in 1..Len(S)}]
    BY <1>2, <1>6
  <2>2. C \in Seq({C[n] : n \in 1..Len(S)})
    BY <1>6, <2>1
  <2> QED
    BY <2>2, ListIs
<1>9. ASSUME NEW l, written(l) PROVE Extends(disk[l], AggregateOf(A, l).doc)
  <2> DEFINE claims == EligibleClaims(A)
  <2>1. l \in Locations /\ Eligible(A) # <<>> /\ AggregateOf(A, l).outcome = "wrote"
    BY <1>9 DEF written
  <2>2. Len(claims) \in Nat /\ Len(claims) # 0
    BY <2>1, EligibleClaimsAre, ListHas
  <2>3. AggregateOf(A, l) = MergeOpenVEX(disk[l], claims, Today) /\ IsDocument(disk[l])
    BY <2>1 DEF AggregateOf, Reads, Documents
  <2> HIDE DEF claims
  <2>4. Merges(disk[l], MergeOpenVEX(disk[l], claims, Today))
    BY <2>2, <2>3, StatementsMerged
  <2> QED
    BY <2>1, <2>3, <2>4 DEF Merges
<1>10. \A n \in DOMAIN C : Amends(C[n])
  BY <1>6, <1>7, <1>9 DEF Amends, written
<1>11. \A n, k \in DOMAIN C : C[n].loc = C[k].loc => C[n].doc = C[k].doc
  BY <1>7
<1>12. \A n \in DOMAIN C : Eligible(A) # <<>> /\ \E i \in DOMAIN paths : paths[i] = C[n].loc
  BY <1>6, <1>7 DEF written
<1> QED
  BY <1>8, <1>10, <1>11, <1>12 DEF C, paths

\* What a plan P does to a hub of an index ix and files dk: the index comes last,
\* and every entry it adds has its document, on disk or in the plan.
IndexPlanned(P, n, ix, dk) ==
  LET new == P[n].doc IN
  /\ n = Len(P)
  /\ IsIndex(new) /\ OneProductEach(new)
  /\ \A e \in Entries(new) \ Entries(ix) :
       e.loc \in Locations /\ (dk[e.loc] # NoDoc \/ \E i \in DOMAIN P : P[i].loc = e.loc)
DocumentPlanned(P, n, dk) ==
  /\ P[n].loc \in Locations /\ Extends(dk[P[n].loc], P[n].doc)
  /\ \A i \in DOMAIN P : P[i].loc = P[n].loc => P[i].doc = P[n].doc
Planned(P, ix, dk) ==
  \A n \in DOMAIN P : IF P[n].loc = "index.json" THEN IndexPlanned(P, n, ix, dk) ELSE DocumentPlanned(P, n, dk)

\* An element of two lists laid end to end is one of either.
LEMMA SameEntry ==
  ASSUME NEW s, IsList(s), NEW t, IsList(t)
  PROVE  /\ IsList(s \o t) /\ ToSet(s \o t) = ToSet(s) \cup ToSet(t) /\ Len(s \o t) = Len(s) + Len(t)
         /\ \A i \in DOMAIN (s \o t) : (i \in DOMAIN s /\ (s \o t)[i] = s[i]) \/ (i - Len(s) \in DOMAIN t /\ (s \o t)[i] = t[i - Len(s)])
         /\ \A i \in DOMAIN s : i \in DOMAIN (s \o t) /\ (s \o t)[i] = s[i]
         /\ \A i \in DOMAIN t : i + Len(s) \in DOMAIN (s \o t) /\ (s \o t)[i + Len(s)] = t[i]
<1> DEFINE T == ToSet(s) \cup ToSet(t)
           q == s \o t
<1>1. /\ Len(s) \in Nat /\ DOMAIN s = 1..Len(s) /\ (\A i \in 1..Len(s) : s[i] \in ToSet(s)) /\ s \in Seq(ToSet(s))
      /\ Len(t) \in Nat /\ DOMAIN t = 1..Len(t) /\ (\A i \in 1..Len(t) : t[i] \in ToSet(t)) /\ t \in Seq(ToSet(t))
  BY ListHas DEF IsList
<1>2. s \in Seq(T) /\ t \in Seq(T)
  <2>1. ToSet(s) \subseteq T /\ ToSet(t) \subseteq T
    OBVIOUS
  <2> HIDE DEF T
  <2>2. s \in [1..Len(s) -> T] /\ t \in [1..Len(t) -> T]
    BY <1>1, <2>1
  <2> QED
    BY <1>1, <2>2
<1> HIDE DEF T
<1>3. /\ q \in Seq(T) /\ Len(q) = Len(s) + Len(t)
      /\ \A i \in 1..(Len(s) + Len(t)) : q[i] = IF i <= Len(s) THEN s[i] ELSE t[i - Len(s)]
  BY <1>2, ConcatProperties
<1>4. ToSet(q) = ToSet(s) \cup ToSet(t)
  BY <1>2, BothParts
<1> HIDE DEF q
<1>5. IsList(q) /\ DOMAIN q = 1..(Len(s) + Len(t))
  BY <1>3, ListIs
<1>6. \A i \in DOMAIN q : (i \in DOMAIN s /\ q[i] = s[i]) \/ (i - Len(s) \in DOMAIN t /\ q[i] = t[i - Len(s)])
  BY <1>1, <1>3, <1>5
<1>7. \A i \in DOMAIN s : i \in DOMAIN q /\ q[i] = s[i]
  BY <1>1, <1>3, <1>5
<1>8. \A i \in DOMAIN t : i + Len(s) \in DOMAIN q /\ q[i + Len(s)] = t[i]
  BY <1>1, <1>3, <1>5
<1> QED
  BY <1>3, <1>4, <1>5, <1>6, <1>7, <1>8 DEF q

\* The entries that are added to the index: each at the home of its product.
LEMMA IndexGrows ==
  ASSUME Filed, Reads, Documents, NEW A, IsFiniteSet(A)
  PROVE  /\ IsIndex(IndexAfter(A)) /\ OneProductEach(IndexAfter(A))
         /\ \A e \in Entries(IndexAfter(A)) \ Entries(index) :
              \E i \in ToPropose(A) : Indexed(Products[i]) = {} /\ e.loc = Home[Products[i]]
<1> DEFINE P == {i \in ToPropose(A) : Indexed(Products[i]) = {}}
           new == Select(Products, P)
           t == [i \in DOMAIN new |-> [product |-> new[i], loc |-> Home[new[i]]]]
           T == ToSet(Products)
           ix == index \o t
<1>1. IndexAfter(A) = ix
  BY DEF IndexAfter, Reads
<1>2. IsList(index) /\ (\A i \in DOMAIN index : index[i] = [product |-> index[i].product, loc |-> index[i].loc]
                                                /\ index[i].loc \in Locations \cup {Outside})
  BY DEF Filed, IsIndex
<1>3. P \subseteq DOMAIN Products
  BY DEF ToPropose
<1>4. Products \in Seq(T)
  BY ProductsAre
<1>5. \A i \in P : Products[i] \in T /\ Home[Products[i]] \in Locations
  <2> SUFFICES ASSUME NEW i \in P PROVE Products[i] \in T /\ Home[Products[i]] \in Locations
    OBVIOUS
  <2>1. i \in ToPropose(A) /\ Indexed(Products[i]) = {}
    OBVIOUS
  <2> DEFINE p == Products[i]
  <2>2. p \in T /\ Ensured(p) /\ Location(p) \in Locations
    BY <2>1, ProductMerged
  <2> QED
    BY <2>1, <2>2, PlacesApart
<1> HIDE DEF P, T, new
<1>6. new \in Seq(T) /\ ToSet(new) = {Products[i] : i \in P \cap DOMAIN Products}
  BY <1>4, Selected DEF new
<1>7. DOMAIN new = 1..Len(new) /\ Len(new) \in Nat /\ \A n \in DOMAIN new : \E i \in P : new[n] = Products[i]
  <2>1. \A n \in DOMAIN new : \E i \in P : new[n] = Products[i]
    BY <1>3, <1>6 DEF ToSet
  <2> QED
    BY <1>6, <2>1, LenProperties
<1>8. DOMAIN t = DOMAIN new /\ \A n \in DOMAIN t : t[n].product = new[n] /\ t[n].loc = Home[new[n]] /\ t[n] = [product |-> t[n].product, loc |-> t[n].loc]
  OBVIOUS
<1>9. IsList(t)
  <2>1. t \in [1..Len(new) -> {t[n] : n \in 1..Len(new)}]
    BY <1>7
  <2> HIDE DEF t
  <2>2. t \in Seq({t[n] : n \in 1..Len(new)})
    BY <1>7, <2>1
  <2> QED
    BY <2>2, ListIs
<1> HIDE DEF t
<1>10. \A n \in DOMAIN t : t[n].product \in T /\ t[n].loc = Home[t[n].product] /\ t[n].loc \in Locations
                           /\ \E i \in P : t[n].loc = Home[Products[i]]
  BY <1>5, <1>7, <1>8
<1>11. /\ IsList(ix) /\ ToSet(ix) = ToSet(index) \cup ToSet(t)
       /\ \A i \in DOMAIN ix : (\E j \in DOMAIN index : ix[i] = index[j]) \/ (\E j \in DOMAIN t : ix[i] = t[j])
  BY <1>2, <1>9, SameEntry
<1> HIDE DEF ix
<1>12. IsIndex(ix)
  BY <1>2, <1>8, <1>10, <1>11 DEF IsIndex
<1>13. \A j \in DOMAIN index : index[j].loc \in Locations =>
         /\ \A k \in DOMAIN index : index[k].loc = index[j].loc => index[k].product = index[j].product
         /\ \A p \in T : Home[p] = index[j].loc => index[j].product = p
  BY DEF Filed, OneProductEach, T
<1>14. /\ NoHome \notin Locations
       /\ \A p, q \in T : Home[p] = Home[q] => p = q \/ Home[p] = NoHome
  BY HubAssumption DEF T

\* An entry of either kind at a place in the hub is of the product of the place.
<1> DEFINE Of(e, p) == /\ \A j \in DOMAIN index : index[j].loc = e.loc => index[j].product = p
                       /\ \A q \in T : Home[q] = e.loc => q = p
<1>15. ASSUME NEW i \in DOMAIN ix, ix[i].loc \in Locations
       PROVE  Of(ix[i], ix[i].product)
  <2>1. ASSUME NEW j \in DOMAIN index, ix[i] = index[j] PROVE Of(ix[i], ix[i].product)
    BY <1>13, <1>15, <2>1
  <2>2. ASSUME NEW j \in DOMAIN t, ix[i] = t[j] PROVE Of(ix[i], ix[i].product)
    BY <1>10, <1>13, <1>14, <1>15, <2>2
  <2> QED
    BY <1>11, <2>1, <2>2
<1>16. ASSUME NEW i \in DOMAIN ix, ix[i].loc \in Locations, NEW j \in DOMAIN ix, ix[j].loc = ix[i].loc
       PROVE  ix[j].product = ix[i].product
  <2>1. Of(ix[i], ix[i].product)
    BY <1>15, <1>16
  <2>2. ASSUME NEW k \in DOMAIN index, ix[j] = index[k] PROVE ix[j].product = ix[i].product
    BY <1>16, <2>1, <2>2
  <2>3. ASSUME NEW k \in DOMAIN t, ix[j] = t[k] PROVE ix[j].product = ix[i].product
    BY <1>10, <1>16, <2>1, <2>3
  <2> QED
    BY <1>11, <2>2, <2>3
<1>17. OneProductEach(ix)
  BY <1>15, <1>16 DEF OneProductEach, T
<1>18. \A e \in Entries(ix) \ Entries(index) : \E i \in P : e.loc = Home[Products[i]]
  <2>1. Entries(ix) \subseteq ToSet(ix) /\ Entries(index) = ToSet(index)
    BY DEF Entries, Filed
  <2>2. \A e \in ToSet(t) : \E i \in P : e.loc = Home[Products[i]]
    BY <1>10 DEF ToSet
  <2> QED
    BY <1>11, <2>1, <2>2
<1> QED
  BY <1>1, <1>12, <1>17, <1>18 DEF P

\* The same of a list named for itself.
LEMMA LaidEndToEnd ==
  ASSUME NEW s, IsList(s), NEW t, IsList(t), NEW q, q = s \o t
  PROVE  /\ IsList(q) /\ (\A i \in DOMAIN s : i \in DOMAIN q /\ q[i] = s[i])
         /\ \A i \in DOMAIN q : (i \in DOMAIN s /\ q[i] = s[i]) \/ (i - Len(s) \in DOMAIN t /\ q[i] = t[i - Len(s)])
  BY SameEntry

\* A plan is made of changes that amend, the index last of all.
LEMMA PlanIsPlanned ==
  ASSUME Filed, Reads, Documents, settings \in Settings, NEW A, IsFiniteSet(A), ~AggregatesRefused(A)
  PROVE  IsList(Plan(A)) /\ Planned(Plan(A), index, disk)
<1> DEFINE D == DocumentChanges(A)
           C == AggregateChanges(A)
           S == D \o C
           last == [loc |-> "index.json", doc |-> IndexAfter(A)]
           bare == S = <<>> \/ ~(IndexTouched(A) \/ ~UsesHub)
           P == Plan(A)
<1>1. /\ IsList(D) /\ DOMAIN D = DOMAIN Writes(A)
      /\ \A n \in DOMAIN D : Amends(D[n])
      /\ \A n, k \in DOMAIN D : D[n].loc = D[k].loc => n = k
  BY DocumentsAmended
<1>2. /\ IsList(C)
      /\ \A n \in DOMAIN C : Amends(C[n])
      /\ \A n, k \in DOMAIN C : C[n].loc = C[k].loc => C[n].doc = C[k].doc
      /\ \A n \in DOMAIN C : Eligible(A) # <<>> /\ \E i \in DOMAIN settings.aggregates : settings.aggregates[i] = C[n].loc
  BY AggregatesAmended
<1>3. \A n \in DOMAIN D, k \in DOMAIN C : D[n].loc # C[k].loc
  BY <1>2 DEF AggregatesRefused, AggregateRefused
<1>4. P = IF bare THEN S ELSE Append(S, last)
  BY DEF Plan
<1>5. "index.json" \notin Locations
  BY HubAssumption
<1>6. \A n \in DOMAIN D : D[n].loc = Location(Writes(A)[n])
  BY DEF DocumentChanges
<1> HIDE DEF D, C, P, bare
<1>0. IsList(D) /\ IsList(C)
  BY <1>1, <1>2
<1>7. /\ IsList(S) /\ (\A i \in DOMAIN D : i \in DOMAIN S /\ S[i] = D[i])
      /\ \A i \in DOMAIN S : (i \in DOMAIN D /\ S[i] = D[i]) \/ (i - Len(D) \in DOMAIN C /\ S[i] = C[i - Len(D)])
  <2>1. S = D \o C
    OBVIOUS
  <2> HIDE DEF S
  <2> QED
    <3>1. IsList(S)
      BY <1>0, <2>1, LaidEndToEnd
    <3>2. \A i \in DOMAIN D : i \in DOMAIN S /\ S[i] = D[i]
      BY <1>0, <2>1, LaidEndToEnd
    <3>3. \A i \in DOMAIN S : (i \in DOMAIN D /\ S[i] = D[i]) \/ (i - Len(D) \in DOMAIN C /\ S[i] = C[i - Len(D)])
      BY <1>0, <2>1, LaidEndToEnd
    <3> QED
      BY <3>1, <3>2, <3>3
<1> HIDE DEF S
<1>8. \A i \in DOMAIN S : Amends(S[i])
  BY <1>1, <1>2, <1>7
<1>9. \A i, j \in DOMAIN S : S[i].loc = S[j].loc => S[i].doc = S[j].doc
  <2> SUFFICES ASSUME NEW i \in DOMAIN S, NEW j \in DOMAIN S, S[i].loc = S[j].loc PROVE S[i].doc = S[j].doc
    OBVIOUS
  <2>1. CASE i \in DOMAIN D /\ S[i] = D[i]
    BY <1>1, <1>3, <1>7, <2>1
  <2>2. CASE i - Len(D) \in DOMAIN C /\ S[i] = C[i - Len(D)]
    BY <1>2, <1>3, <1>7, <2>2
  <2> QED
    BY <1>7, <2>1, <2>2
<1>10. ASSUME NEW Q, NEW n, DOMAIN S \subseteq DOMAIN Q, n \in DOMAIN S, \A i \in DOMAIN S : Q[i] = S[i],
              \A i \in DOMAIN Q : i \in DOMAIN S \/ Q[i].loc = "index.json"
       PROVE  Q[n].loc # "index.json" /\ DocumentPlanned(Q, n, disk)
  <2>1. Q[n] = S[n] /\ Amends(S[n])
    BY <1>8, <1>10
  <2>2. Q[n].loc \in Locations /\ Extends(disk[Q[n].loc], Q[n].doc)
    BY <2>1 DEF Amends
  <2>3. ASSUME NEW i \in DOMAIN Q, Q[i].loc = Q[n].loc PROVE Q[i].doc = Q[n].doc
    <3>1. i \in DOMAIN S
      BY <1>5, <1>10, <2>2, <2>3
    <3> QED
      BY <1>9, <1>10, <2>1, <2>3, <3>1
  <2> QED
    BY <1>5, <2>2, <2>3 DEF DocumentPlanned
<1>11. CASE bare
  <2>1. P = S
    BY <1>4, <1>11
  <2>2. \A n \in DOMAIN P : P[n].loc # "index.json" /\ DocumentPlanned(P, n, disk)
    BY <1>10, <2>1
  <2> QED
    BY <1>7, <2>1, <2>2 DEF Planned, P
<1>12. CASE ~bare
  <2>1. P = Append(S, last)
    BY <1>4, <1>12
  <2>2. last.loc = "index.json" /\ last.doc = IndexAfter(A)
    OBVIOUS
  <2> HIDE DEF last
  <2>3. /\ IsList(P) /\ Len(P) = Len(S) + 1 /\ DOMAIN P = DOMAIN S \cup {Len(S) + 1} /\ Len(S) + 1 \notin DOMAIN S
        /\ \A i \in DOMAIN S : P[i] = S[i]
        /\ P[Len(S) + 1] = last
    BY <1>7, <2>1, ListGrows
  <2>4. \A n \in DOMAIN S : P[n].loc # "index.json" /\ DocumentPlanned(P, n, disk)
    BY <1>10, <2>2, <2>3
  <2>5. ASSUME NEW e \in Entries(IndexAfter(A)) \ Entries(index)
        PROVE  e.loc \in Locations /\ (disk[e.loc] # NoDoc \/ \E i \in DOMAIN P : P[i].loc = e.loc)
    <3>1. PICK i \in ToPropose(A) : Indexed(Products[i]) = {} /\ e.loc = Home[Products[i]]
      BY IndexGrows
    <3> DEFINE p == Products[i]
    <3>2. p \in ToSet(Products) /\ Ensured(p) /\ Location(p) \in Locations /\ Merges(disk[Location(p)], Merged(A, p))
      BY ProductMerged
    <3>3. e.loc = Location(p)
      BY <3>1, <3>2, PlacesApart
    <3>4. CASE Merged(A, p).outcome = "wrote"
      <4>1. PICK n \in DOMAIN Writes(A) : Writes(A)[n] = p
        BY <3>4, WritesAre
      <4>2. n \in DOMAIN D /\ D[n].loc = e.loc
        BY <1>1, <1>6, <3>3, <4>1
      <4>3. n \in DOMAIN P /\ P[n].loc = e.loc
        BY <1>7, <2>3, <4>2
      <4> QED
        BY <3>2, <3>3, <4>3
    <3>5. CASE Merged(A, p).outcome # "wrote"
      BY <3>2, <3>3, <3>5 DEF Merges
    <3> QED
      BY <3>4, <3>5
  <2>6. IndexPlanned(P, Len(S) + 1, index, disk)
    <3>1. IsIndex(IndexAfter(A)) /\ OneProductEach(IndexAfter(A))
      BY IndexGrows
    <3> QED
      BY <2>2, <2>3, <2>5, <3>1 DEF IndexPlanned
  <2>7. \A n \in DOMAIN P : IF P[n].loc = "index.json" THEN IndexPlanned(P, n, index, disk) ELSE DocumentPlanned(P, n, disk)
    BY <2>2, <2>3, <2>4, <2>6
  <2> QED
    BY <2>3, <2>7 DEF Planned, P
<1> QED
  BY <1>11, <1>12

\* What is left of a plan when its first file is written is a plan for the hub as
\* it is then.
LEMMA PlanGoesOn ==
  ASSUME NEW P, IsList(P), P # <<>>, NEW ix, NEW dk, dk = [l \in Locations |-> dk[l]], Planned(P, ix, dk)
  PROVE  /\ Head(P).loc = "index.json" => Tail(P) = <<>> /\ IndexPlanned(P, 1, ix, dk)
         /\ Head(P).loc # "index.json" =>
              /\ DocumentPlanned(P, 1, dk) /\ Head(P).doc = P[1].doc
              /\ Planned(Tail(P), ix, [dk EXCEPT ![Head(P).loc] = Head(P).doc])
         /\ IsList(Tail(P)) /\ Head(P) = P[1]
<1> DEFINE T == ToSet(P)
           R == Tail(P)
           N == Len(P)
           dn == [dk EXCEPT ![Head(P).loc] = Head(P).doc]
<1>1. P \in Seq(T) /\ N \in Nat /\ DOMAIN P = 1..N /\ N # 0
  BY ListHas, NotEmpty DEF IsList
<1>2. Head(P) = P[1] /\ 1 \in DOMAIN P
  BY <1>1
<1> HIDE DEF T, N, R
<1>3. R \in Seq(T) /\ Len(R) = N - 1 /\ \A i \in 1..(N - 1) : R[i] = P[i + 1]
  BY <1>1, HeadTailProperties DEF R, N
<1>4. IsList(R) /\ DOMAIN R = 1..(N - 1)
  BY <1>3, ListIs
<1>5. CASE Head(P).loc = "index.json"
  <2>1. IndexPlanned(P, 1, ix, dk)
    BY <1>2, <1>5 DEF Planned
  <2>2. 1 = N
    BY <2>1 DEF IndexPlanned, N
  <2>3. R = <<>>
    BY <1>3, <1>4, <2>2, NotEmpty
  <2> QED
    BY <1>2, <1>4, <1>5, <2>1, <2>3 DEF R
<1>6. CASE Head(P).loc # "index.json"
  <2> DEFINE loc == P[1].loc
             doc == P[1].doc
  <2>1. DocumentPlanned(P, 1, dk)
    BY <1>2, <1>6 DEF Planned
  <2>2. /\ loc \in Locations /\ Extends(dk[loc], doc)
        /\ \A i \in DOMAIN P : P[i].loc = loc => P[i].doc = doc
    BY <2>1 DEF DocumentPlanned
  <2>3. dn[loc] = doc /\ \A l \in Locations : l # loc => dn[l] = dk[l]
    BY <1>2, <2>2
  <2>4. doc # NoDoc /\ Extends(doc, doc)
    BY <2>2, KindsAre DEF Extends, Ours, Foreign, Lost
  <2> HIDE DEF dn, loc, doc
  <2>5. ASSUME NEW n \in DOMAIN R
        PROVE  IF R[n].loc = "index.json" THEN IndexPlanned(R, n, ix, dn) ELSE DocumentPlanned(R, n, dn)
    <3>1. n \in Nat /\ n + 1 \in DOMAIN P /\ R[n] = P[n + 1]
      BY <1>1, <1>3, <1>4
    <3>2. CASE R[n].loc = "index.json"
      <4> DEFINE new == P[n + 1].doc
      <4>1. IndexPlanned(P, n + 1, ix, dk)
        BY <3>1, <3>2 DEF Planned
      <4>2. /\ n + 1 = N /\ IsIndex(new) /\ OneProductEach(new)
            /\ \A e \in Entries(new) \ Entries(ix) :
                 e.loc \in Locations /\ (dk[e.loc] # NoDoc \/ \E i \in DOMAIN P : P[i].loc = e.loc)
        BY <4>1 DEF IndexPlanned, N
      <4> HIDE DEF new
      <4>3. ASSUME NEW e \in Entries(new) \ Entries(ix)
            PROVE  e.loc \in Locations /\ (dn[e.loc] # NoDoc \/ \E i \in DOMAIN R : R[i].loc = e.loc)
        <5>1. e.loc \in Locations /\ (dk[e.loc] # NoDoc \/ \E i \in DOMAIN P : P[i].loc = e.loc)
          BY <4>2
        <5>2. CASE e.loc = loc
          BY <2>3, <2>4, <5>1, <5>2
        <5>3. CASE e.loc # loc /\ dk[e.loc] # NoDoc
          BY <2>3, <5>1, <5>3
        <5>4. CASE e.loc # loc /\ \E i \in DOMAIN P : P[i].loc = e.loc
          <6>1. PICK i \in DOMAIN P : P[i].loc = e.loc
            BY <5>4
          <6>2. i # 1
            BY <5>4, <6>1 DEF loc
          <6>3. i - 1 \in DOMAIN R /\ R[i - 1] = P[i]
            BY <1>1, <1>3, <1>4, <6>2
          <6> QED
            BY <5>1, <6>1, <6>3
        <5> QED
          BY <5>1, <5>2, <5>3, <5>4
      <4>4. n = Len(R)
        BY <1>1, <1>3, <3>1, <4>2
      <4>5. R[n].doc = new
        BY <3>1 DEF new
      <4>6. IndexPlanned(R, n, ix, dn)
        BY <4>2, <4>3, <4>4, <4>5 DEF IndexPlanned
      <4> QED
        BY <3>2, <4>6
    <3>3. CASE R[n].loc # "index.json"
      <4> DEFINE at == P[n + 1].loc
                 new == P[n + 1].doc
      <4>1. DocumentPlanned(P, n + 1, dk)
        BY <3>1, <3>3 DEF Planned
      <4>2. at \in Locations /\ Extends(dk[at], new) /\ \A i \in DOMAIN P : P[i].loc = at => P[i].doc = new
        BY <4>1 DEF DocumentPlanned
      <4>3. at = loc => new = doc
        BY <2>2, <3>1 DEF loc, doc
      <4> HIDE DEF at, new
      <4>4. Extends(dn[at], new)
        BY <2>3, <2>4, <4>2, <4>3
      <4>5. R[n].loc = at /\ R[n].doc = new
        BY <3>1 DEF at, new
      <4>6. \A i \in DOMAIN R : i + 1 \in DOMAIN P /\ R[i] = P[i + 1]
        BY <1>1, <1>3, <1>4
      <4>7. DocumentPlanned(R, n, dn)
        BY <4>2, <4>4, <4>5, <4>6 DEF DocumentPlanned
      <4> QED
        BY <3>3, <4>7
    <3> QED
      BY <3>2, <3>3
  <2>6. Planned(R, ix, dn)
    BY <2>5 DEF Planned
  <2> QED
    BY <1>2, <1>4, <1>6, <2>1, <2>6 DEF R, dn
<1> QED
  BY <1>5, <1>6

-----------------------------------------------------------------------------
(* The invariant.                                                          *)

TypeOK ==
  /\ settings \in Settings /\ runs \in Nat /\ published \in BOOLEAN
  /\ phase \in {"idle", "scanned", "writing", "written"}
  /\ IsIndex(index) /\ IsFiniteSet(findings)
  /\ disk = [l \in Locations |-> disk[l]] /\ \A l \in Locations : IsDocument(disk[l])
  /\ IsList(plan)

OwnIds == \A l \in Locations : Theirs(disk[l])

StartsEmpty ==
  ~settings.hub /\ (runs = 0 \/ (runs = 1 /\ phase = "scanned")) =>
    index = <<>> /\ \A l \in Locations : disk[l] = NoDoc

IInv ==
  /\ TypeOK /\ OwnIds /\ StartsEmpty /\ OneProductEach(index)
  /\ phase = "writing" => Planned(plan, index, disk)
  /\ runs = 0 => phase = "idle"

\* The hub is started with documents, an index and, without a hub, nothing.
LEMMA InitIInv == Init => IInv
<1> SUFFICES ASSUME Init PROVE IInv
  OBVIOUS
<1>1. PICK h \in Hubs : index = h.index /\ disk = h.disk /\ (settings.hub \/ (h.index = <<>> /\ \A l \in Locations : h.disk[l] = NoDoc))
  BY DEF Init
<1>2. /\ IsIndex(h.index) /\ OneProductEach(h.index)
      /\ h.disk = [l \in Locations |-> h.disk[l]]
      /\ \A l \in Locations :
           /\ IsDocument(h.disk[l])
           /\ h.disk[l].kind = "csaf" /\ h.disk[l].id \in ToSet(Products) => WritersIds(h.disk[l])
  BY HubAssumption
<1>3. settings \in Settings /\ phase = "idle" /\ findings = {} /\ plan = <<>> /\ runs = 0 /\ published = FALSE
  BY DEF Init
<1>4. IsFiniteSet({}) /\ IsList(<<>>)
  BY FS_EmptySet, NoList
<1>5. TypeOK
  BY <1>1, <1>2, <1>3, <1>4 DEF TypeOK
<1>6. OwnIds
  BY <1>1, <1>2 DEF OwnIds, Theirs
<1>7. StartsEmpty
  BY <1>1 DEF StartsEmpty
<1>8. OneProductEach(index)
  BY <1>1, <1>2
<1> QED
  BY <1>3, <1>5, <1>6, <1>7, <1>8 DEF IInv

\* Files and index are read as they are, and a run that has none reads none.
LEMMA ScannedReads ==
  ASSUME IInv, phase = "scanned"
  PROVE  Reads /\ Documents /\ (~HubRefused => Filed)
<1>1. runs \in Nat /\ runs # 0
  BY DEF IInv, TypeOK
<1>2. ASSUME ~UsesHub PROVE index = <<>> /\ \A l \in Locations : disk[l] = NoDoc
  BY <1>1, <1>2 DEF IInv, StartsEmpty, UsesHub, Given
<1>3. Index0 = index
  BY <1>2 DEF Index0
<1>4. \A l \in Locations : Raw(l) = disk[l]
  BY <1>2 DEF Raw
<1>5. Documents
  BY DEF IInv, TypeOK, OwnIds, Documents
<1>6. ASSUME ~HubRefused PROVE Filed
  <2>1. index # BadIndex
    BY <1>2, <1>6, HubAssumption DEF HubRefused, Opens
  <2> QED
    BY <2>1 DEF IInv, TypeOK, Filed
<1> QED
  BY <1>3, <1>4, <1>5, <1>6 DEF Reads

-----------------------------------------------------------------------------
(* One lemma for each step.                                                *)

\* A publisher's statement is appended to the document.
WithStatement(d, x) == [d EXCEPT !.statements = Append(@, x)]
SaysOn(d, e) == IsDocument(e) /\ e.kind = "openvex" /\ Said(d) \subseteq Said(e)

\* The document says on what it said.
LEMMA StatementPublished ==
  ASSUME NEW d, IsDocument(d), d.kind = "openvex", NEW x
  PROVE  SaysOn(d, WithStatement(d, x))
<1> DEFINE e == WithStatement(d, x)
<1>0. e = [d EXCEPT !.statements = Append(@, x)]
  BY DEF WithStatement
<1> HIDE DEF e
<1>1. d = OpenVEX(d.ts, d.statements) /\ IsList(d.statements)
  BY KindsAre DEF IsDocument
<1>2. d = [kind |-> "openvex", ts |-> d.ts, statements |-> d.statements]
  BY <1>1 DEF OpenVEX
<1> DEFINE s == Append(d.statements, x)
<1>3. DOMAIN e = {"kind", "ts", "statements"} /\ e = [k \in DOMAIN e |-> e[k]]
  BY <1>0, <1>2
<1>4. e.kind = "openvex" /\ e.ts = d.ts /\ e.statements = s
  BY <1>0, <1>2
<1>5. e = [kind |-> "openvex", ts |-> e.ts, statements |-> e.statements]
  BY <1>3, <1>4
<1> DEFINE t == d.statements
<1>6. IsList(t) /\ Len(t) \in Nat
  BY <1>1, ListHas
<1>7. IsList(s) /\ Longer(t, s)
  <2> HIDE DEF t
  <2>1. /\ IsList(Append(t, x)) /\ Len(Append(t, x)) = Len(t) + 1 /\ DOMAIN Append(t, x) = DOMAIN t \cup {Len(t) + 1}
        /\ \A i \in DOMAIN t : Append(t, x)[i] = t[i]
    BY <1>6, ListGrows
  <2> DEFINE q == Append(t, x)
  <2>2. q = s
    BY DEF t
  <2> HIDE DEF s
  <2>3. IsList(q) /\ Len(q) = Len(t) + 1 /\ DOMAIN q = DOMAIN t \cup {Len(t) + 1} /\ \A i \in DOMAIN t : q[i] = t[i]
    BY <2>1
  <2> HIDE DEF q
  <2> QED
    BY <1>6, <2>2, <2>3 DEF Longer
<1>8. IsDocument(e)
  <2> HIDE DEF s
  <2> QED
    BY <1>4, <1>5, <1>7 DEF IsDocument, OpenVEX
<1>9. Said(d) \subseteq Said(e)
  <2> HIDE DEF s
  <2> QED
    BY <1>4, <1>6, <1>7, StatementsSayMore DEF t
<1> QED
  BY <1>4, <1>8, <1>9 DEF SaysOn, e

\* A scan leaves the hub alone, and is the first to count a run.
LEMMA ScanKeeps ==
  ASSUME IInv, NEW F \in Scans, NEW lost, Scan(F, lost)
  PROVE  IInv'
<1>1. /\ runs \in Nat /\ runs' = runs + 1 /\ findings' = Annotated(F, runs + 1, lost) /\ phase' = "scanned"
      /\ settings' = settings /\ index' = index /\ disk' = disk /\ plan' = plan /\ published' = published
  BY DEF Scan, IInv, TypeOK
<1>2. IsFiniteSet(findings')
  <2> DEFINE v(f) == [f |-> f, vex |-> IF Given(runs + 1) /\ f.product \notin lost THEN Answer(index, disk, f) ELSE {}]
             g == [f \in F |-> v(f)]
  <2>1. findings' = {v(f) : f \in F}
    BY <1>1 DEF Annotated
  <2>2. DOMAIN g = F /\ {v(f) : f \in F} = {g[f] : f \in F}
    <3> HIDE DEF v
    <3> QED
      OBVIOUS
  <2>3. IsFiniteSet(F)
    BY HubAssumption
  <2> HIDE DEF v, g
  <2> QED
    BY <2>1, <2>2, <2>3, ImageIsFinite
<1>3. TypeOK'
  <2>1. runs' \in Nat
    BY <1>1
  <2> QED
    BY <1>1, <1>2, <2>1 DEF IInv, TypeOK
<1>4. OwnIds'
  BY <1>1 DEF IInv, OwnIds
<1>5. StartsEmpty'
  <2>1. runs + 1 = 1 => runs = 0
    BY <1>1
  <2>2. runs + 1 # 0
    BY <1>1
  <2> QED
    BY <1>1, <2>1, <2>2 DEF IInv, StartsEmpty
<1>6. runs' # 0
  BY <1>1
<1> QED
  BY <1>1, <1>3, <1>4, <1>5, <1>6 DEF IInv

\* The publisher adds to one document, between the scan and the proposal.
LEMMA PublishKeeps ==
  ASSUME IInv, NEW s \in Published, NEW l \in Locations, Publish(s, l)
  PROVE  /\ IInv'
         /\ \A k \in Locations : k # l => disk'[k] = disk[k]
         /\ disk[l].kind = "openvex" /\ disk'[l].kind = "openvex" /\ Said(disk[l]) \subseteq Said(disk'[l])
<1> DEFINE x == [s EXCEPT !.ts = Today]
           e == WithStatement(disk[l], x)
<1>1. /\ phase = "scanned" /\ disk[l].kind = "openvex" /\ published' = TRUE
      /\ settings' = settings /\ index' = index /\ phase' = phase /\ findings' = findings /\ plan' = plan /\ runs' = runs
      /\ disk' = [disk EXCEPT ![l] = e]
  BY DEF Publish, WithStatement
<1>2. disk = [k \in Locations |-> disk[k]] /\ \A k \in Locations : IsDocument(disk[k])
  BY DEF IInv, TypeOK
<1>3. IsDocument(e) /\ e.kind = "openvex" /\ Said(disk[l]) \subseteq Said(e)
  BY <1>1, <1>2, StatementPublished DEF SaysOn
<1> HIDE DEF e
<1>4. disk' = [k \in Locations |-> disk'[k]] /\ disk'[l] = e /\ \A k \in Locations : k # l => disk'[k] = disk[k]
  BY <1>1, <1>2
<1>5. TypeOK'
  BY <1>1, <1>2, <1>3, <1>4 DEF IInv, TypeOK
<1>6. OwnIds'
  BY <1>3, <1>4 DEF IInv, OwnIds, Theirs
<1>7. StartsEmpty'
  <2>1. disk[l] # NoDoc
    BY <1>1, KindsAre
  <2> QED
    BY <1>1, <2>1 DEF IInv, StartsEmpty
<1>8. IInv'
  BY <1>1, <1>5, <1>6, <1>7 DEF IInv
<1> QED
  BY <1>1, <1>3, <1>4, <1>8

\* A proposal makes a plan for the hub as it is.
LEMMA ProposeKeeps ==
  ASSUME IInv, Propose
  PROVE  IInv'
<1>1. /\ phase = "scanned" /\ ~HubRefused /\ phase' = "writing"
      /\ NothingToClaim(findings) \/ ~AggregatesRefused(findings)
      /\ plan' = IF NothingToClaim(findings) THEN <<>> ELSE Plan(findings)
      /\ settings' = settings /\ index' = index /\ disk' = disk /\ findings' = findings /\ runs' = runs /\ published' = published
  BY DEF Propose
<1>2. Reads /\ Documents /\ Filed
  BY <1>1, ScannedReads
<1>3. settings \in Settings /\ IsFiniteSet(findings)
  BY DEF IInv, TypeOK
<1>4. IsList(plan') /\ Planned(plan', index, disk)
  <2>1. CASE NothingToClaim(findings)
    <3>1. plan' = <<>>
      BY <1>1, <2>1
    <3> QED
      BY <3>1, NoList DEF Planned
  <2>2. CASE ~NothingToClaim(findings)
    <3>1. plan' = Plan(findings) /\ ~AggregatesRefused(findings)
      BY <1>1, <2>2
    <3>2. IsList(Plan(findings)) /\ Planned(Plan(findings), index, disk)
      BY <1>2, <1>3, <3>1, PlanIsPlanned
    <3> QED
      BY <3>1, <3>2
  <2> QED
    BY <2>1, <2>2
<1>5. TypeOK'
  BY <1>1, <1>4 DEF IInv, TypeOK
<1>6. OwnIds'
  BY <1>1 DEF IInv, OwnIds
<1>7. StartsEmpty'
  BY <1>1 DEF IInv, StartsEmpty
<1>8. Planned(plan, index, disk)'
  BY <1>1, <1>4 DEF Planned, IndexPlanned, DocumentPlanned
<1> QED
  BY <1>1, <1>5, <1>6, <1>7, <1>8 DEF IInv

\* A write leaves the hub in a state that the rest of the plan is for; the
\* document it writes extends the one it replaces.
LEMMA WriteKeeps ==
  ASSUME IInv, Write
  PROVE  /\ IInv'
         /\ \A l \in Locations : disk'[l] = disk[l] \/ Extends(disk[l], disk'[l])
         /\ index' = index \/ (disk' = disk /\ IndexPlanned(plan, 1, index, disk) /\ index' = plan[1].doc /\ plan[1].loc = "index.json")
<1>1. /\ phase = "writing" /\ plan # <<>> /\ Put(Head(plan).loc, Head(plan).doc) /\ plan' = Tail(plan)
      /\ settings' = settings /\ phase' = phase /\ findings' = findings /\ runs' = runs /\ published' = published
  BY DEF Write
<1>2. IsList(plan) /\ disk = [l \in Locations |-> disk[l]] /\ Planned(plan, index, disk)
  BY <1>1 DEF IInv, TypeOK
<1> DEFINE loc == Head(plan).loc
           doc == Head(plan).doc
           dn == [disk EXCEPT ![loc] = doc]
<1>3. /\ loc = "index.json" => Tail(plan) = <<>> /\ IndexPlanned(plan, 1, index, disk)
      /\ loc # "index.json" => DocumentPlanned(plan, 1, disk) /\ doc = plan[1].doc /\ Planned(Tail(plan), index, dn)
      /\ IsList(Tail(plan)) /\ Head(plan) = plan[1]
  BY <1>1, <1>2, PlanGoesOn
<1>4. loc = plan[1].loc /\ doc = plan[1].doc
  BY <1>3
<1>5. IF loc = "index.json" THEN index' = doc /\ disk' = disk ELSE disk' = dn /\ index' = index
  BY <1>1 DEF Put
<1>6. runs # 0
  BY <1>1 DEF IInv
<1> HIDE DEF loc, doc, dn
<1>7. StartsEmpty'
  BY <1>1, <1>6 DEF StartsEmpty
<1>8. CASE loc = "index.json"
  <2>1. index' = doc /\ disk' = disk /\ plan' = <<>>
    BY <1>1, <1>3, <1>5, <1>8
  <2>2. IsIndex(doc) /\ OneProductEach(doc)
    BY <1>3, <1>4, <1>8 DEF IndexPlanned
  <2>3. TypeOK'
    BY <1>1, <2>1, <2>2, NoList DEF IInv, TypeOK
  <2>4. OwnIds' /\ OneProductEach(index')
    BY <2>1, <2>2 DEF IInv, OwnIds
  <2>5. Planned(plan, index, disk)'
    BY <2>1, NoList DEF Planned
  <2>6. IInv'
    BY <1>1, <1>6, <1>7, <2>3, <2>4, <2>5 DEF IInv
  <2> QED
    BY <1>3, <1>4, <1>8, <2>1, <2>6
<1>9. CASE loc # "index.json"
  <2>1. index' = index /\ disk' = dn
    BY <1>5, <1>9
  <2>2. loc \in Locations /\ Extends(disk[loc], doc)
    BY <1>3, <1>4, <1>9 DEF DocumentPlanned
  <2>3. dn = [l \in Locations |-> dn[l]] /\ dn[loc] = doc /\ \A l \in Locations : l # loc => dn[l] = disk[l]
    BY <1>2, <2>2 DEF dn
  <2>4. IsDocument(doc) /\ Theirs(doc)
    BY <2>2 DEF Extends, Ours, Theirs
  <2>5. TypeOK'
    BY <1>1, <1>3, <2>1, <2>3, <2>4 DEF IInv, TypeOK
  <2>6. OwnIds'
    BY <2>1, <2>3, <2>4 DEF IInv, OwnIds
  <2>7. Planned(plan, index, disk)'
    BY <1>1, <1>3, <1>9, <2>1 DEF Planned, IndexPlanned, DocumentPlanned
  <2>8. IInv'
    BY <1>1, <1>6, <1>7, <2>1, <2>5, <2>6, <2>7 DEF IInv
  <2> QED
    BY <2>1, <2>2, <2>3, <2>8
<1> QED
  BY <1>8, <1>9

\* A write cut short loses the document, or the index.
LEMMA TearKeeps ==
  ASSUME IInv, NEW part \in {NoDoc, Unreadable}, Tear(part)
  PROVE  /\ IInv' /\ phase' = "idle"
         /\ \A l \in Locations : disk'[l] = disk[l] \/ Lost(disk'[l])
         /\ index' = index \/ index' = BadIndex
<1>1. /\ phase = "writing" /\ plan # <<>> /\ phase' = "idle" /\ plan' = <<>>
      /\ settings' = settings /\ findings' = findings /\ runs' = runs /\ published' = published
      /\ \/ index' = BadIndex /\ disk' = disk
         \/ disk' = [disk EXCEPT ![Head(plan).loc] = part] /\ index' = index
  BY DEF Tear, Put
<1>2. disk = [l \in Locations |-> disk[l]]
  BY DEF IInv, TypeOK
<1>3. \A l \in Locations : disk'[l] = disk[l] \/ disk'[l] = part
  BY <1>1, <1>2
<1>4. disk' = [l \in Locations |-> disk'[l]]
  BY <1>1, <1>2
<1>5. IsDocument(part) /\ Lost(part) /\ Theirs(part)
  BY KindsAre DEF IsDocument, Lost, Theirs
<1>6. IsIndex(BadIndex) /\ OneProductEach(BadIndex)
  BY DEF IsIndex, OneProductEach
<1>7. TypeOK'
  BY <1>1, <1>3, <1>4, <1>5, <1>6, NoList DEF IInv, TypeOK
<1>8. OwnIds'
  BY <1>3, <1>5 DEF IInv, OwnIds
<1>9. runs # 0
  BY <1>1 DEF IInv
<1>10. StartsEmpty'
  BY <1>1, <1>9 DEF StartsEmpty
<1>11. OneProductEach(index')
  BY <1>1, <1>6 DEF IInv
<1>12. IInv'
  BY <1>1, <1>7, <1>8, <1>10, <1>11 DEF IInv
<1> QED
  BY <1>1, <1>3, <1>5, <1>12

\* The steps that change neither the files nor the index.
LEMMA OthersKeep ==
  ASSUME IInv, ProposeFailed \/ Written \/ Stop \/ UNCHANGED vars
  PROVE  IInv'
<1>1. CASE ProposeFailed \/ Written \/ Stop
  <2>1. /\ phase' \in {"idle", "written"} /\ phase # "idle" /\ IsList(plan')
        /\ settings' = settings /\ index' = index /\ disk' = disk /\ findings' = findings /\ runs' = runs /\ published' = published
    BY <1>1, NoList DEF ProposeFailed, Written, Stop, IInv, TypeOK
  <2>2. TypeOK'
    BY <2>1 DEF IInv, TypeOK
  <2>3. OwnIds'
    BY <2>1 DEF IInv, OwnIds
  <2>4. runs # 0
    BY <2>1 DEF IInv
  <2>5. StartsEmpty'
    BY <2>1, <2>4 DEF StartsEmpty
  <2> QED
    BY <2>1, <2>2, <2>3, <2>4, <2>5 DEF IInv
<1>2. CASE UNCHANGED vars
  <2>1. /\ settings' = settings /\ index' = index /\ disk' = disk /\ findings' = findings /\ runs' = runs /\ published' = published
        /\ plan' = plan /\ phase' = phase
    BY <1>2 DEF vars
  <2> QED
    BY <2>1 DEF IInv, TypeOK, OwnIds, StartsEmpty, Planned, IndexPlanned, DocumentPlanned
<1> QED
  BY <1>1, <1>2

-----------------------------------------------------------------------------
(* What follows.                                                           *)

\* Every step keeps the invariant.
LEMMA NextIInv == IInv /\ [Next]_vars => IInv'
<1> SUFFICES ASSUME IInv, [Next]_vars PROVE IInv'
  OBVIOUS
<1>1. ASSUME NEW F \in Scans, NEW lost, Scan(F, lost) PROVE IInv'
  BY <1>1, ScanKeeps
<1>2. ASSUME NEW s \in Published, NEW l \in Locations, Publish(s, l) PROVE IInv'
  BY <1>2, PublishKeeps
<1>3. CASE Propose
  BY <1>3, ProposeKeeps
<1>4. CASE Write
  BY <1>4, WriteKeeps
<1>5. ASSUME NEW part \in {NoDoc, Unreadable}, Tear(part) PROVE IInv'
  BY <1>5, TearKeeps
<1>6. CASE ProposeFailed \/ Written \/ Stop \/ UNCHANGED vars
  BY <1>6, OthersKeep
<1> QED
  BY <1>1, <1>2, <1>3, <1>4, <1>5, <1>6 DEF Next

\* IInv always holds.
THEOREM SpecIInv == Spec => []IInv
BY InitIInv, NextIInv, PTL DEF Spec

\* Each variable stays what the code declares it to be: an index that is a list
\* of entries or cannot be read, and documents that are documents.
THEOREM TypeCorrect == Spec => []TypeOK
<1>1. IInv => TypeOK
  BY DEF IInv
<1> QED
  BY <1>1, SpecIInv, PTL

\* The index and the files are written by Publish, Write and Tear alone.
LEMMA WhoWrites ==
  ASSUME [Next]_vars
  PROVE  \/ index' = index /\ disk' = disk
         \/ \E s \in Published, l \in Locations : Publish(s, l)
         \/ Write
         \/ \E part \in {NoDoc, Unreadable} : Tear(part)
<1>1. CASE UNCHANGED vars
  BY <1>1 DEF vars
<1>2. CASE ProposeFailed \/ Written \/ Stop \/ Propose
  BY <1>2 DEF ProposeFailed, Written, Stop, Propose
<1>3. ASSUME NEW F \in Scans, NEW lost, Scan(F, lost) PROVE index' = index /\ disk' = disk
  BY <1>3 DEF Scan
<1> QED
  BY <1>1, <1>2, <1>3 DEF Next

Backed == \A e \in Entries(index') \ Entries(index) : disk'[e.loc] # NoDoc

\* An entry that a step adds to the index has its document.
LEMMA StepBacked == IInv /\ [Next]_vars => Backed
<1> SUFFICES ASSUME IInv, [Next]_vars, NEW e \in Entries(index') \ Entries(index) PROVE disk'[e.loc] # NoDoc
  BY DEF Backed
<1>1. CASE index' = index
  BY <1>1
<1>2. CASE index' # index
  <2>1. CASE Write
    <3>1. disk' = disk /\ IndexPlanned(plan, 1, index, disk) /\ index' = plan[1].doc /\ plan[1].loc = "index.json"
      BY <1>2, <2>1, WriteKeeps
    <3>2. e.loc \in Locations /\ (disk[e.loc] # NoDoc \/ \E i \in DOMAIN plan : plan[i].loc = e.loc) /\ 1 = Len(plan)
      BY <3>1 DEF IndexPlanned
    <3>3. DOMAIN plan = {1}
      BY <3>2, ListHas DEF IInv, TypeOK
    <3>4. "index.json" \notin Locations
      BY HubAssumption
    <3> QED
      BY <3>1, <3>2, <3>3, <3>4
  <2>2. ASSUME NEW part \in {NoDoc, Unreadable}, Tear(part) PROVE FALSE
    <3>1. index' = BadIndex
      BY <1>2, <2>2, TearKeeps
    <3> QED
      BY <3>1 DEF Entries
  <2>3. ASSUME NEW s \in Published, NEW l \in Locations, Publish(s, l) PROVE FALSE
    BY <1>2, <2>3 DEF Publish
  <2> QED
    BY <1>2, <2>1, <2>2, <2>3, WhoWrites
<1> QED
  BY <1>1, <1>2

\* The index never comes to point a product at a document that is not there, at
\* whichever write a run stops.
THEOREM IndexIsBacked == Spec => IndexBacked
<1>1. IInv /\ [Next]_vars => [Backed]_vars
  BY StepBacked
<1>2. IndexBacked <=> [][Backed]_vars
  BY DEF IndexBacked, Backed
<1> QED
  BY <1>1, <1>2, SpecIInv, PTL DEF Spec

KeptAt(l) ==
  \/ Lost(disk'[l]) /\ phase' = "idle"
  \/ /\ Said(disk[l]) \subseteq Said(disk'[l])
     /\ disk[l] = Unreadable \/ Foreign(disk[l]) => disk'[l] = disk[l]
     /\ disk[l] # NoDoc => disk'[l].kind = disk[l].kind

\* A document that a step changes says what it said, or is lost to a write cut
\* short.
LEMMA StepKeeps == IInv /\ [Next]_vars => \A l \in Locations : KeptAt(l)
<1> SUFFICES ASSUME IInv, [Next]_vars, NEW l \in Locations PROVE KeptAt(l)
  OBVIOUS
<1>1. CASE disk'[l] = disk[l]
  BY <1>1 DEF KeptAt
<1>2. CASE disk'[l] # disk[l]
  <2>1. CASE Write
    <3>1. Extends(disk[l], disk'[l])
      BY <1>2, <2>1, WriteKeeps
    <3> QED
      BY <3>1 DEF Extends, KeptAt
  <2>2. ASSUME NEW part \in {NoDoc, Unreadable}, Tear(part) PROVE KeptAt(l)
    BY <1>2, <2>2, TearKeeps DEF KeptAt
  <2>3. ASSUME NEW s \in Published, NEW k \in Locations, Publish(s, k) PROVE KeptAt(l)
    <3>1. /\ k = l
          /\ disk[l].kind = "openvex" /\ disk'[l].kind = "openvex" /\ Said(disk[l]) \subseteq Said(disk'[l])
      BY <1>2, <2>3, PublishKeeps
    <3>2. disk[l] # Unreadable /\ ~Foreign(disk[l])
      BY <3>1, KindsAre DEF Foreign
    <3> QED
      BY <3>1, <3>2 DEF KeptAt
  <2> QED
    BY <1>2, <2>1, <2>2, <2>3, WhoWrites
<1> QED
  BY <1>1, <1>2

\* Whatever a run writes, a document of the hub goes on saying what it said, and
\* one that cannot be read, or is somebody else's, stays as it is.
THEOREM PublishedStays == Spec => PublishedIsKept
<1> DEFINE K == \A l \in Locations : KeptAt(l)
<1>1. IInv /\ [Next]_vars => [K]_vars
  BY StepKeeps
<1>2. PublishedIsKept <=> [][K]_vars
  BY DEF PublishedIsKept, KeptAt
<1> HIDE DEF K
<1> QED
  BY <1>1, <1>2, SpecIInv, PTL DEF Spec

-----------------------------------------------------------------------------
(* What a reader is answered.                                              *)

\* Of two that speak, i is preferred: C are those that are scoped.
Beats(C, ts, i, j) ==
  \/ i \in C /\ j \notin C
  \/ (i \in C <=> j \in C) /\ (ts[i] > ts[j] \/ (ts[i] = ts[j] /\ i < j))

\* Of any two places one is preferred, and preference is transitive.
LEMMA BeatsOrders ==
  ASSUME NEW C, NEW ts, NEW i \in Nat, NEW j \in Nat, NEW k \in Nat, ts[i] \in Nat, ts[j] \in Nat, ts[k] \in Nat
  PROVE  /\ i # j => Beats(C, ts, i, j) \/ Beats(C, ts, j, i)
         /\ Beats(C, ts, i, j) /\ Beats(C, ts, j, k) => Beats(C, ts, i, k)
BY DEF Beats

\* Among some, one is preferred to all others.
LEMMA OneIsBest ==
  ASSUME NEW T, T \subseteq Nat, NEW n \in Nat, \A i \in T : i <= n, T # {}, NEW C, NEW ts, \A i \in T : ts[i] \in Nat
  PROVE  \E i \in T : \A j \in T \ {i} : Beats(C, ts, i, j)
<1> DEFINE Up(m) == {i \in T : i <= m}
           G == {m \in Nat : Up(m) = {} \/ \E i \in Up(m) : \A j \in Up(m) \ {i} : Beats(C, ts, i, j)}
<1>1. 0 \in G
  <2>1. \A i \in Up(0) : i = 0
    OBVIOUS
  <2> QED
    BY <2>1
<1>2. ASSUME NEW m \in Nat, m \in G PROVE m + 1 \in G
  <2> DEFINE U == Up(m)
             V == Up(m + 1)
  <2>0. \A i \in Nat : i <= m + 1 <=> i <= m \/ i = m + 1
    OBVIOUS
  <2>1. V = IF m + 1 \in T THEN U \cup {m + 1} ELSE U
    <3>1. CASE m + 1 \in T
      BY <2>0, <3>1
    <3>2. CASE m + 1 \notin T
      BY <2>0, <3>2
    <3> QED
      BY <3>1, <3>2
  <2>2. m + 1 \notin U /\ U \subseteq T
    OBVIOUS
  <2>3. U = {} \/ \E i \in U : \A j \in U \ {i} : Beats(C, ts, i, j)
    BY <1>2
  <2>4. SUFFICES V = {} \/ \E i \in V : \A j \in V \ {i} : Beats(C, ts, i, j)
    OBVIOUS
  <2> HIDE DEF U, V
  <2>5. CASE m + 1 \notin T
    BY <2>1, <2>3, <2>5
  <2>6. CASE m + 1 \in T /\ U = {}
    BY <2>1, <2>6
  <2>7. CASE m + 1 \in T /\ U # {}
    <3>1. PICK i \in U : \A j \in U \ {i} : Beats(C, ts, i, j)
      BY <2>3, <2>7
    <3>2. i \in T /\ i # m + 1 /\ i \in Nat
      BY <2>2
    <3>3. CASE Beats(C, ts, i, m + 1)
      BY <2>1, <2>7, <3>1, <3>3
    <3>4. CASE ~Beats(C, ts, i, m + 1)
      <4>1. Beats(C, ts, m + 1, i)
        BY <2>7, <3>2, <3>4, BeatsOrders
      <4>2. \A j \in U : Beats(C, ts, m + 1, j)
        <5> SUFFICES ASSUME NEW j \in U PROVE Beats(C, ts, m + 1, j)
          OBVIOUS
        <5>1. j \in T /\ j \in Nat
          BY <2>2
        <5>2. j = i \/ Beats(C, ts, i, j)
          BY <3>1
        <5> QED
          BY <2>7, <3>2, <4>1, <5>1, <5>2, BeatsOrders
      <4> QED
        BY <2>1, <2>7, <4>2
    <3> QED
      BY <3>3, <3>4
  <2> QED
    BY <2>5, <2>6, <2>7
<1> HIDE DEF G
<1>3. \A m \in Nat : m \in G
  BY <1>1, <1>2, CountUp
<1>4. n \in G
  BY <1>3
<1> USE DEF G
<1>5. Up(n) = T
  OBVIOUS
<1> QED
  BY <1>4, <1>5

\* Any set of numbers that has a bound has a greatest.
LEMMA GreatestNumber ==
  ASSUME NEW T, T \subseteq Nat, NEW n \in Nat, \A i \in T : i <= n, T # {}
  PROVE  Max(T) \in T /\ \A y \in T : y <= Max(T)
<1> DEFINE ts == [i \in T |-> i]
<1>1. \A i \in T : ts[i] \in Nat /\ ts[i] = i
  OBVIOUS
<1> HIDE DEF ts
<1>2. PICK i \in T : \A j \in T \ {i} : Beats({}, ts, i, j)
  BY <1>1, OneIsBest
<1>3. \A j \in T : i >= j
  BY <1>1, <1>2 DEF Beats
<1> QED
  BY <1>3 DEF Max

DatedAll(S) == IsList(S) /\ \A s \in ToSet(S) : s.ts \in Nat

\* The statements of a status are dated as the entry, or the advisory.
LEMMA StatusDated ==
  ASSUME NEW d, NEW v, NEW k, IsList(v.lists[k]), d.ts \in Nat, v.ts \in Nat
  PROVE  DatedAll(StatementsOf(d, v, k))
<1> DEFINE T == StatementsOf(d, v, k)
           ts == IF v.ts = 0 THEN d.ts ELSE v.ts
<1>1. IsList(T)
  BY StatementsSay
<1>2. \A n \in DOMAIN T : T[n].ts = ts
  BY DEF StatementsOf
<1>3. ts \in Nat
  OBVIOUS
<1> HIDE DEF T, ts
<1>4. ToSet(T) = {T[n] : n \in DOMAIN T}
  BY DEF ToSet
<1>5. \A s \in ToSet(T) : s.ts \in Nat
  BY <1>2, <1>3, <1>4
<1> QED
  BY <1>1, <1>5 DEF DatedAll, T

\* What is read of an advisory is a list of dated statements.
LEMMA AdvisoryReads ==
  ASSUME NEW d, IsAdvisory(d), Dated(d)
  PROVE  DatedAll(ReadStatements(d))
<1> DEFINE part(i) == [n \in DOMAIN StatusOrder |-> StatementsOf(d, d.vulns[i], StatusOrder[n])]
           parts == [i \in DOMAIN d.vulns |-> IF d.vulns[i].names = {} THEN <<>> ELSE FlattenSeq(part(i))]
<1>1. d.kind = "csaf" /\ d.ts \in Nat /\ IsList(d.vulns) /\ \A i \in DOMAIN d.vulns : IsVuln(d.vulns[i]) /\ d.vulns[i].ts \in Nat
  BY DEF IsAdvisory, Dated
<1>2. Len(d.vulns) \in Nat /\ DOMAIN d.vulns = 1..Len(d.vulns)
  BY <1>1, ListHas
<1>3. DOMAIN StatusOrder = 1..4 /\ \A n \in 1..4 : StatusOrder[n] \in Statuses
  BY DEF StatusOrder, Statuses
<1>4. ASSUME NEW i \in DOMAIN d.vulns PROVE DatedAll(FlattenSeq(part(i)))
  <2> DEFINE v == d.vulns[i]
             q == part(i)
  <2>1. IsVuln(v) /\ v.ts \in Nat
    BY <1>1
  <2>2. \A k \in Statuses : IsList(v.lists[k])
    BY <2>1 DEF IsVuln, Statuses
  <2> HIDE DEF v
  <2>3. \A k \in Statuses : DatedAll(StatementsOf(d, v, k))
    BY <1>1, <2>1, <2>2, StatusDated
  <2>4. q = [n \in 1..4 |-> StatementsOf(d, v, StatusOrder[n])]
    BY <1>3 DEF v
  <2> HIDE DEF q
  <2>5. \A n \in 1..4 : DatedAll(q[n])
    BY <1>3, <2>3, <2>4
  <2>6. q = [n \in 1..4 |-> q[n]] /\ 4 \in Nat /\ \A n \in 1..4 : IsList(q[n])
    BY <2>4, <2>5 DEF DatedAll
  <2> DEFINE N == 4
  <2> HIDE DEF N
  <2>7. q = [n \in 1..N |-> q[n]] /\ N \in Nat /\ \A n \in 1..N : IsList(q[n])
    BY <2>6 DEF N
  <2>8. IsList(FlattenSeq(q)) /\ ToSet(FlattenSeq(q)) = UNION {ToSet(q[n]) : n \in 1..N}
    BY <2>7, FlattenedLists
  <2>9. \A n \in 1..N : \A s \in ToSet(q[n]) : s.ts \in Nat
    BY <2>5 DEF N, DatedAll
  <2> QED
    BY <2>8, <2>9 DEF DatedAll, q
<1> HIDE DEF part
<1>5. DatedAll(<<>>)
  BY NoList DEF DatedAll
<1> DEFINE n == Len(d.vulns)
<1>6. parts = [i \in 1..n |-> IF d.vulns[i].names = {} THEN <<>> ELSE FlattenSeq(part(i))] /\ n \in Nat
  BY <1>2
<1> HIDE DEF parts
<1>7. \A i \in 1..n : DatedAll(parts[i])
  BY <1>2, <1>4, <1>5, <1>6
<1>8. parts = [i \in 1..n |-> parts[i]] /\ \A i \in 1..n : IsList(parts[i])
  BY <1>6, <1>7 DEF DatedAll
<1>9. ReadStatements(d) = FlattenSeq(parts)
  BY <1>1 DEF ReadStatements, parts, part
<1> HIDE DEF n
<1>10. IsList(FlattenSeq(parts)) /\ ToSet(FlattenSeq(parts)) = UNION {ToSet(parts[i]) : i \in 1..n}
  BY <1>6, <1>8, FlattenedLists
<1>11. \A i \in 1..n : \A s \in ToSet(parts[i]) : s.ts \in Nat
  BY <1>7 DEF DatedAll
<1> QED
  BY <1>9, <1>10, <1>11 DEF DatedAll

\* What is read of an OpenVEX document is dated as its statements, or as itself.
LEMMA StatementsDated ==
  ASSUME NEW d, d.kind = "openvex", IsList(d.statements), Dated(d)
  PROVE  DatedAll(ReadStatements(d))
<1>1. \A i \in Read(d) : AsRead(d.statements[i], d.ts).ts \in Nat
  BY DEF Dated, Read, AsRead
<1> QED
  BY <1>1, StatementsRead DEF DatedAll, AllRead

\* A document that can be read is a list of dated statements.
LEMMA DocumentReads ==
  ASSUME NEW d, IsDocument(d), ~Lost(d), Dated(d)
  PROVE  DatedAll(ReadStatements(d))
BY AdvisoryReads, StatementsDated DEF IsDocument, Lost, OpenVEX

\* What a document says that speaks to a component of a product by one of ids.
SpeaksUp(x, product, ids, sub) == x.ids \cap ids # {} /\ Speaks(x.product, product, sub)
SpeaksFor(s, product, ids, sub) == s.ids \cap ids # {} /\ \E p \in s.products : Speaks(p, product, sub)

\* A statement that speaks to a finding is what the document says to it.
LEMMA SaidIs ==
  ASSUME NEW d, d.kind \in {"openvex", "csaf"}, NEW product, NEW ids, NEW sub
  PROVE  (\E x \in Said(d) : SpeaksUp(x, product, ids, sub)) <=> (\E s \in ToSet(ReadStatements(d)) : SpeaksFor(s, product, ids, sub))
<1> DEFINE S == ToSet(ReadStatements(d))
           say(s, p) == [ids |-> s.ids, product |-> p, status |-> s.status, why |-> s.why]
           voice(s) == {say(s, p) : p \in s.products}
<1>1. Said(d) = UNION {voice(t) : t \in S}
  BY DEF Said
<1>2. \A s, p : say(s, p).ids = s.ids /\ say(s, p).product = p /\ (p \in s.products => say(s, p) \in voice(s))
  OBVIOUS
<1>0. \A s : \A x \in voice(s) : \E p \in s.products : x = say(s, p)
  OBVIOUS
<1> HIDE DEF S, say, voice
<1>3. ASSUME NEW x \in Said(d), SpeaksUp(x, product, ids, sub) PROVE \E s \in S : SpeaksFor(s, product, ids, sub)
  <2>0. PICK s \in S : x \in voice(s)
    BY <1>1
  <2>1. PICK p \in s.products : x = say(s, p)
    BY <1>0, <2>0
  <2>2. s.ids \cap ids # {} /\ Speaks(p, product, sub)
    BY <1>2, <1>3, <2>0, <2>1 DEF SpeaksUp
  <2> QED
    BY <2>1, <2>2 DEF SpeaksFor
<1>4. ASSUME NEW s \in S, SpeaksFor(s, product, ids, sub) PROVE \E x \in Said(d) : SpeaksUp(x, product, ids, sub)
  <2>1. PICK p \in s.products : Speaks(p, product, sub)
    BY <1>4 DEF SpeaksFor
  <2>2. say(s, p) \in Said(d)
    BY <1>1, <1>2
  <2>3. SpeaksUp(say(s, p), product, ids, sub)
    BY <1>2, <1>4, <2>1 DEF SpeaksFor, SpeaksUp
  <2> QED
    BY <2>2, <2>3
<1> QED
  BY <1>3, <1>4 DEF S

\* A finding has an answer if, and only if, a statement speaks to it.
LEMMA Heard ==
  ASSUME NEW d, d.kind \in {"openvex", "csaf"}, IsList(ReadStatements(d)), NEW product, NEW ids, NEW sub
  PROVE  /\ DatedAll(ReadStatements(d)) /\ (\E x \in Said(d) : SpeaksUp(x, product, ids, sub)) => Match(d, product, ids, sub) # {}
         /\ Match(d, product, ids, sub) # {} => \E x \in Said(d) : SpeaksUp(x, product, ids, sub)
<1> DEFINE S == ReadStatements(d)
           T == {i \in DOMAIN S : SpeaksFor(S[i], product, ids, sub)}
           C == {i \in DOMAIN S : Scoped(S[i], product, sub)}
           ts == [i \in DOMAIN S |-> S[i].ts]
           best(i) == \A j \in T \ {i} : Better(S, i, j, product, sub)
           M == Match(d, product, ids, sub)
<1>1. M = {S[i] : i \in {i \in T : best(i)}}
  BY DEF Match, SpeaksFor
<1>2. Len(S) \in Nat /\ DOMAIN S = 1..Len(S) /\ ToSet(S) = {S[i] : i \in DOMAIN S}
  BY ListHas DEF ToSet
<1>3. \A i, j \in DOMAIN S : Beats(C, ts, i, j) => Better(S, i, j, product, sub)
  <2> SUFFICES ASSUME NEW i \in DOMAIN S, NEW j \in DOMAIN S, Beats(C, ts, i, j) PROVE Better(S, i, j, product, sub)
    OBVIOUS
  <2>1. (i \in C <=> Scoped(S[i], product, sub)) /\ (j \in C <=> Scoped(S[j], product, sub))
    OBVIOUS
  <2>2. ts[i] = S[i].ts /\ ts[j] = S[j].ts
    OBVIOUS
  <2> HIDE DEF C, ts, S
  <2>3. CASE i \in C /\ j \notin C
    BY <2>1, <2>3 DEF Better, Scoped
  <2>4. CASE (i \in C <=> j \in C) /\ (S[i].ts > S[j].ts \/ (S[i].ts = S[j].ts /\ i < j))
    <3>1. CASE Scoped(S[i], product, sub) /\ Scoped(S[j], product, sub)
      BY <2>4, <3>1 DEF Better, Scoped
    <3>2. CASE ~Scoped(S[i], product, sub) /\ ~Scoped(S[j], product, sub)
      BY <2>4, <3>2 DEF Better, Scoped
    <3> QED
      BY <2>1, <2>4, <3>1, <3>2
  <2> QED
    BY <2>2, <2>3, <2>4 DEF Beats
<1>4. (\E s \in ToSet(S) : SpeaksFor(s, product, ids, sub)) <=> T # {}
  <2> HIDE DEF S
  <2>1. (\E s \in ToSet(S) : SpeaksFor(s, product, ids, sub)) <=> \E i \in DOMAIN S : SpeaksFor(S[i], product, ids, sub)
    BY <1>2
  <2> QED
    BY <2>1
<1>5. (\E x \in Said(d) : SpeaksUp(x, product, ids, sub)) <=> T # {}
  <2> HIDE DEF T
  <2> QED
    BY <1>4, SaidIs
<1>6. ASSUME DatedAll(S), T # {} PROVE M # {}
  <2>1. \A i \in DOMAIN S : ts[i] \in Nat
    BY <1>2, <1>6 DEF DatedAll
  <2>2. T \subseteq Nat /\ T \subseteq DOMAIN S /\ \A i \in T : i <= Len(S) /\ ts[i] \in Nat
    BY <1>2, <2>1
  <2> HIDE DEF S, T, C, ts, M
  <2>3. PICK i \in T : \A j \in T \ {i} : Beats(C, ts, i, j)
    BY <1>2, <1>6, <2>2, OneIsBest
  <2>4. best(i)
    BY <1>3, <2>2, <2>3
  <2> QED
    BY <1>1, <2>4
<1>7. M # {} => T # {}
  <2> HIDE DEF T
  <2> QED
    BY <1>1
<1> QED
  <2> HIDE DEF T
  <2> QED
    BY <1>5, <1>6, <1>7 DEF S, M

-----------------------------------------------------------------------------
(* That a claim, once made, is covered.                                    *)

\* A list of statements that covers a claim.
ListCovers(S, c) == \E i \in DOMAIN S : StatementCovers(S[i], c)

\* It goes on covering it as it grows.
LEMMA LongerCovers ==
  ASSUME NEW S, NEW T, Longer(S, T), NEW c, ListCovers(S, c)
  PROVE  ListCovers(T, c)
BY DEF ListCovers, Longer

\* The statement made for a claim covers it.
LEMMA StatementIsCover ==
  ASSUME NEW S, IsList(S), NEW c, c.ids # {}
  PROVE  /\ ListCovers(AddStatement(S, c), c)
         /\ ListCovers(S, c) => AddStatement(S, c) = S
<1>1. StatementCovers(ClaimStatement(c), c)
  BY DEF StatementCovers, CoversComponent, ClaimStatement, Statement
<1>2. \E i \in DOMAIN AddStatement(S, c) : AddStatement(S, c)[i] = ClaimStatement(c) \/ StatementCovers(AddStatement(S, c)[i], c)
  BY StatementAdded
<1>3. ListCovers(AddStatement(S, c), c)
  BY <1>1, <1>2 DEF ListCovers
<1> QED
  BY <1>3 DEF ListCovers, AddStatement

AreClaims(claims) == Len(claims) \in Nat /\ \A n \in 1..Len(claims) : claims[n].ids # {}

\* An OpenVEX document covers every claim it was given (mergeClaims).
LEMMA MergedCovers ==
  ASSUME NEW S, IsList(S), NEW claims, AreClaims(claims)
  PROVE  \A n \in 1..Len(claims) : ListCovers(MergeClaims(S, claims), claims[n])
<1>0. PICK g : MergesThem(g, S, claims) /\ MergeClaims(S, claims) = g[Len(claims)]
  BY MergedClaimByClaim DEF AreClaims
<1>1. /\ g[0] = S /\ Len(claims) \in Nat
      /\ \A n \in 1..Len(claims) : g[n] = AddStatement(g[n - 1], claims[n]) /\ claims[n].ids # {}
      /\ MergeClaims(S, claims) = g[Len(claims)]
  BY <1>0 DEF MergesThem, AreClaims
<1> DEFINE G == {n \in Nat : n <= Len(claims) => IsList(g[n]) /\ \A m \in 1..n : ListCovers(g[n], claims[m])}
<1>2. 0 \in G
  BY <1>1
<1>3. ASSUME NEW n \in Nat, n \in G PROVE n + 1 \in G
  <2> SUFFICES ASSUME n + 1 <= Len(claims)
               PROVE  IsList(g[n + 1]) /\ \A m \in 1..(n + 1) : ListCovers(g[n + 1], claims[m])
    OBVIOUS
  <2>1. n + 1 \in 1..Len(claims) /\ (n + 1) - 1 = n
    BY <1>1
  <2>2. IsList(g[n]) /\ \A m \in 1..n : ListCovers(g[n], claims[m])
    BY <1>1, <1>3
  <2>3. g[n + 1] = AddStatement(g[n], claims[n + 1]) /\ claims[n + 1].ids # {}
    BY <1>1, <2>1
  <2>4. Longer(g[n], g[n + 1]) /\ ListCovers(g[n + 1], claims[n + 1])
    BY <2>2, <2>3, StatementAdded, StatementIsCover
  <2>5. IsList(g[n + 1])
    BY <2>4 DEF Longer
  <2>6. \A m \in 1..n : ListCovers(g[n + 1], claims[m])
    BY <2>2, <2>4, LongerCovers
  <2>7. \A m \in 1..(n + 1) : m \in 1..n \/ m = n + 1
    OBVIOUS
  <2> QED
    BY <2>4, <2>5, <2>6, <2>7
<1> HIDE DEF G
<1>4. Len(claims) \in G
  BY <1>1, <1>2, <1>3, CountUp
<1> QED
  BY <1>1, <1>4 DEF G

\* Given claims that it covers, it stays as it is.
LEMMA MergedAgain ==
  ASSUME NEW S, IsList(S), NEW claims, AreClaims(claims), \A n \in 1..Len(claims) : ListCovers(S, claims[n])
  PROVE  MergeClaims(S, claims) = S
<1>0. PICK g : MergesThem(g, S, claims) /\ MergeClaims(S, claims) = g[Len(claims)]
  BY MergedClaimByClaim DEF AreClaims
<1>1. /\ g[0] = S /\ Len(claims) \in Nat
      /\ \A n \in 1..Len(claims) : g[n] = AddStatement(g[n - 1], claims[n]) /\ claims[n].ids # {}
      /\ MergeClaims(S, claims) = g[Len(claims)]
  BY <1>0 DEF MergesThem, AreClaims
<1> DEFINE G == {n \in Nat : n <= Len(claims) => g[n] = S}
<1>2. 0 \in G
  BY <1>1
<1>3. ASSUME NEW n \in Nat, n \in G PROVE n + 1 \in G
  <2> SUFFICES ASSUME n + 1 <= Len(claims) PROVE g[n + 1] = S
    OBVIOUS
  <2>1. n + 1 \in 1..Len(claims) /\ (n + 1) - 1 = n
    BY <1>1
  <2>2. g[n + 1] = AddStatement(g[n], claims[n + 1]) /\ claims[n + 1].ids # {} /\ g[n] = S
    BY <1>1, <1>3, <2>1
  <2>3. ListCovers(S, claims[n + 1])
    BY <2>1
  <2> QED
    BY <2>2, <2>3, StatementIsCover
<1> HIDE DEF G
<1>4. Len(claims) \in G
  BY <1>1, <1>2, <1>3, CountUp
<1> QED
  BY <1>1, <1>4 DEF G

\* The answers that an advisory gives it goes on giving.
LEMMA StillAnswered ==
  ASSUME NEW d, IsAdvisory(d), NEW c, NEW e, EntersClaim(d, c, e), NEW b, Answered(d, b)
  PROVE  Answered(e, b)
<1> DEFINE i == FindVuln(d, b)
           j == FindVuln(e, b)
<1>1. /\ i \in DOMAIN d.vulns /\ d.vulns[i].names \cap b.ids # {}
      /\ \A n \in DOMAIN d.vulns : d.vulns[n].names \cap b.ids # {} => i <= n
      /\ i \in Nat
      /\ VulnCovers(d.vulns[i], PairId(b)) \/ VulnCovers(d.vulns[i], ArtifactId(b))
  BY FoundIs DEF Answered
<1>2. IsAdvisory(e) /\ \A n \in DOMAIN d.vulns : n \in DOMAIN e.vulns /\ Keeps(d.vulns[n], e.vulns[n])
  BY DEF EntersClaim
<1>3. /\ j # 0 => j \in DOMAIN e.vulns /\ e.vulns[j].names \cap b.ids # {}
      /\ j # 0 => \A n \in DOMAIN e.vulns : e.vulns[n].names \cap b.ids # {} => j <= n
      /\ j = 0 => \A n \in DOMAIN e.vulns : e.vulns[n].names \cap b.ids = {}
      /\ j \in Nat
  BY <1>2, FoundIs
<1>4. /\ DOMAIN d.vulns = 1..Len(d.vulns) /\ Len(d.vulns) \in Nat
      /\ DOMAIN e.vulns = 1..Len(e.vulns) /\ Len(e.vulns) \in Nat
  BY <1>2, ListHas DEF IsAdvisory
<1> HIDE DEF i, j
<1>5. \A n \in DOMAIN d.vulns : e.vulns[n].names = d.vulns[n].names
  BY <1>2 DEF Keeps
<1>6. j # 0 /\ j <= i
  BY <1>1, <1>2, <1>3, <1>5
<1>7. j \in DOMAIN d.vulns
  BY <1>1, <1>3, <1>4, <1>6
<1>8. i <= j
  BY <1>1, <1>3, <1>5, <1>6, <1>7
<1>9. j = i
  BY <1>1, <1>3, <1>6, <1>8
<1> DEFINE v == d.vulns[i]
           w == e.vulns[i]
<1>10. IsVuln(v) /\ IsVuln(w) /\ Keeps(v, w)
  BY <1>1, <1>2 DEF IsAdvisory
<1> HIDE DEF v, w
<1>11. DOMAIN v.lists = Statuses /\ DOMAIN w.lists = Statuses /\ \A k \in Statuses : IsList(v.lists[k]) /\ IsList(w.lists[k])
  BY <1>10 DEF IsVuln, Statuses
<1>12. \A k \in Statuses : ToSet(v.lists[k]) \subseteq ToSet(w.lists[k])
  BY <1>10, <1>11 DEF Keeps, Longer, ToSet
<1>13. \A pid : VulnCovers(v, pid) => VulnCovers(w, pid)
  BY <1>11, <1>12 DEF VulnCovers
<1>14. VulnCovers(w, PairId(b)) \/ VulnCovers(w, ArtifactId(b))
  BY <1>1, <1>13 DEF v
<1> QED
  BY <1>6, <1>9, <1>14 DEF Answered, j, w

\* The claim that was listed is answered.
LEMMA NowAnswered ==
  ASSUME NEW d, IsAdvisory(d), NEW c, c.ids # {}, NEW e, EntersClaim(d, c, e)
  PROVE  Answered(e, c)
<1> DEFINE i == FindVuln(d, c)
           j == FindVuln(e, c)
           at == Entry(d, c)
<1>1. /\ i # 0 => i \in DOMAIN d.vulns /\ at = i
      /\ i # 0 => \A n \in DOMAIN d.vulns : d.vulns[n].names \cap c.ids # {} => i <= n
      /\ i = 0 => at = Len(d.vulns) + 1 /\ \A n \in DOMAIN d.vulns : d.vulns[n].names \cap c.ids = {}
      /\ i \in Nat
  BY FoundIs DEF Entry
<1>2. /\ IsAdvisory(e) /\ \A n \in DOMAIN d.vulns : n \in DOMAIN e.vulns /\ Keeps(d.vulns[n], e.vulns[n])
      /\ at \in DOMAIN e.vulns /\ e.vulns[at].names \cap c.ids # {}
      /\ PairId(c) \in ToSet(e.vulns[at].lists["not_affected"])
  BY DEF EntersClaim
<1>3. /\ j # 0 => j \in DOMAIN e.vulns /\ e.vulns[j].names \cap c.ids # {}
      /\ j # 0 => \A n \in DOMAIN e.vulns : e.vulns[n].names \cap c.ids # {} => j <= n
      /\ j = 0 => \A n \in DOMAIN e.vulns : e.vulns[n].names \cap c.ids = {}
      /\ j \in Nat
  BY <1>2, FoundIs
<1>4. /\ DOMAIN d.vulns = 1..Len(d.vulns) /\ Len(d.vulns) \in Nat
      /\ DOMAIN e.vulns = 1..Len(e.vulns) /\ Len(e.vulns) \in Nat
  BY <1>2, ListHas DEF IsAdvisory
<1> HIDE DEF i, j, at
<1>5. \A n \in DOMAIN d.vulns : e.vulns[n].names = d.vulns[n].names
  BY <1>2 DEF Keeps
<1>6. j # 0 /\ j <= at /\ j \in DOMAIN e.vulns
  BY <1>2, <1>3
<1>7. j \in DOMAIN d.vulns => d.vulns[j].names \cap c.ids # {}
  BY <1>3, <1>5, <1>6
<1>8. CASE i = 0
  <2>1. j \notin DOMAIN d.vulns
    BY <1>1, <1>7, <1>8
  <2> QED
    <3>1. j = at
      BY <1>1, <1>3, <1>4, <1>6, <1>8, <2>1
    <3>2. "not_affected" \in DOMAIN e.vulns[at].lists
      BY <1>2 DEF IsAdvisory, IsVuln
    <3>3. VulnCovers(e.vulns[at], PairId(c))
      BY <1>2, <3>2 DEF VulnCovers
    <3> QED
      BY <1>6, <3>1, <3>3 DEF Answered, j
<1>9. CASE i # 0
  <2>1. at = i /\ i \in 1..Len(d.vulns)
    BY <1>1, <1>4, <1>9
  <2>2. j \in DOMAIN d.vulns
    BY <1>3, <1>4, <1>6, <2>1
  <2>3. i <= j
    BY <1>1, <1>7, <1>9, <2>2
  <2> QED
    <3>1. j = at
      BY <1>1, <1>3, <1>6, <2>1, <2>3
    <3>2. "not_affected" \in DOMAIN e.vulns[at].lists
      BY <1>2 DEF IsAdvisory, IsVuln
    <3>3. VulnCovers(e.vulns[at], PairId(c))
      BY <1>2, <3>2 DEF VulnCovers
    <3> QED
      BY <1>6, <3>1, <3>3 DEF Answered, j
<1> QED
  BY <1>8, <1>9

\* A product id of the writer's stands, if for anything, for the artifact and
\* the component in it.
StandsFor(d, c) ==
  /\ \A x \in Resolved(d, PairId(c)) : x.id = c.product /\ x.subs = {c.sub} \ {NoPurl}
  /\ \A x \in Resolved(d, ArtifactId(c)) : x.id = c.product /\ x.subs = {}

\* An id of an artifact, where it is defined, is the artifact's own.
LEMMA ArtifactIsBottom ==
  ASSUME NEW d, WritersIds(d), NEW c
  PROVE  /\ Relation(d, ArtifactId(c)) = {} /\ ContainerAfter(d, ArtifactId(c)) = ArtifactId(c)
         /\ Purl(d, ArtifactId(c)) \subseteq {c.product} /\ Purl(d, ComponentId(c)) \subseteq {c.sub}
         /\ Purl(d, PairId(c)) = {}
<1> DEFINE a == ArtifactId(c)
           b == ComponentId(c)
           q == PairId(c)
<1>1. a[1] = "artifact" /\ a[2] = c.product /\ b[1] = "component" /\ b[2] = c.sub /\ q[1] = "pair"
  BY DEF ArtifactId, ComponentId, PairId
<1> HIDE DEF a, b, q
<1>2. Relation(d, a) = {}
  BY <1>1 DEF Relation, WritersIds
<1>3. Purl(d, a) \subseteq {c.product} /\ Purl(d, b) \subseteq {c.sub} /\ Purl(d, q) = {}
  BY <1>1 DEF Purl, WritersIds
<1>4. Hop(d, a) = a
  BY <1>2 DEF Hop
<1>5. PICK g : HopsAlong(g, d, a) /\ ContainerAfter(d, a) = g[MaxRelationshipDepth]
  BY HopByHop
<1> DEFINE G == {n \in Nat : n <= MaxRelationshipDepth => g[n] = a}
<1>6. 0 \in G
  BY <1>5 DEF HopsAlong
<1>7. ASSUME NEW n \in Nat, n \in G PROVE n + 1 \in G
  <2>1. n + 1 <= MaxRelationshipDepth => n + 1 \in 1..MaxRelationshipDepth /\ (n + 1) - 1 = n /\ n <= MaxRelationshipDepth
    BY DepthIs
  <2>2. n + 1 <= MaxRelationshipDepth => g[n + 1] = Hop(d, g[n])
    BY <1>5, <2>1 DEF HopsAlong
  <2> QED
    BY <1>4, <1>7, <2>1, <2>2
<1> HIDE DEF G
<1>8. MaxRelationshipDepth \in G
  BY <1>6, <1>7, CountUp, DepthIs
<1>9. ContainerAfter(d, a) = a
  BY <1>5, <1>8, DepthIs DEF G
<1> QED
  BY <1>2, <1>3, <1>9 DEF a, b, q

\* An id of the writer's that is defined resolves to what it was made of.
LEMMA WritersIdsResolve ==
  ASSUME NEW d, WritersIds(d), NEW c
  PROVE  /\ StandsFor(d, c)
         /\ Relation(d, PairId(c)) # {} /\ ComponentId(c) \in DOMAIN d.tree /\ ArtifactId(c) \in DOMAIN d.tree /\ c.product # NoPurl
              => Resolved(d, PairId(c)) # {}
<1> DEFINE a == ArtifactId(c)
           b == ComponentId(c)
           q == PairId(c)
           r == TheRelation(d, q)
<1>1. /\ Relation(d, a) = {} /\ ContainerAfter(d, a) = a
      /\ Purl(d, a) \subseteq {c.product} /\ Purl(d, b) \subseteq {c.sub} /\ Purl(d, q) = {}
  BY ArtifactIsBottom
<1>2. a[1] = "artifact" /\ a[2] = c.product /\ b[1] = "component" /\ b[2] = c.sub
  BY DEF ArtifactId, ComponentId
<1>3. q[1] = "pair" /\ <<"component", q[2]>> = b /\ <<"artifact", q[3]>> = a
  BY DEF PairId, ArtifactId, ComponentId
<1> HIDE DEF a, b, q
<1>4. Resolved(d, a) = {[id |-> p, subs |-> {}] : p \in Purl(d, a)}
  BY <1>1 DEF Resolved
<1>5. \A x \in Resolved(d, a) : x.id = c.product /\ x.subs = {}
  BY <1>1, <1>4
<1>6. CASE Relation(d, q) = {}
  <2>1. Resolved(d, q) = {}
    BY <1>1, <1>6 DEF Resolved
  <2> QED
    BY <1>5, <1>6, <2>1 DEF StandsFor, a, q
<1>7. CASE Relation(d, q) # {}
  <2>1. r \in Relation(d, q)
    BY <1>7 DEF TheRelation
  <2>2. r.component = b /\ r.container = a
    BY <1>3, <2>1 DEF Relation, WritersIds
  <2> HIDE DEF r
  <2>3. Resolved(d, q) = IF b \notin DOMAIN d.tree \/ Relation(d, a) # {} THEN {}
                         ELSE {[id |-> p, subs |-> Purl(d, b)] : p \in Purl(d, a)}
    BY <1>1, <1>7, <2>2 DEF Resolved, r
  <2>4. b \in DOMAIN d.tree => Purl(d, b) = {c.sub} \ {NoPurl}
    BY <1>2 DEF Purl, WritersIds
  <2>5. a \in DOMAIN d.tree => Purl(d, a) = {c.product} \ {NoPurl}
    BY <1>2 DEF Purl, WritersIds
  <2>6. \A x \in Resolved(d, q) : x.id = c.product /\ x.subs = {c.sub} \ {NoPurl}
    <3>1. CASE b \notin DOMAIN d.tree
      BY <2>3, <3>1
    <3>2. CASE b \in DOMAIN d.tree
      <4>1. Resolved(d, q) = {[id |-> p, subs |-> Purl(d, b)] : p \in Purl(d, a)}
        BY <1>1, <2>3, <3>2
      <4> QED
        BY <1>1, <2>4, <3>2, <4>1
    <3> QED
      BY <3>1, <3>2
  <2>7. b \in DOMAIN d.tree /\ a \in DOMAIN d.tree /\ c.product # NoPurl => Resolved(d, q) # {}
    <3> SUFFICES ASSUME b \in DOMAIN d.tree, a \in DOMAIN d.tree, c.product # NoPurl PROVE Resolved(d, q) # {}
      OBVIOUS
    <3>1. Resolved(d, q) = {[id |-> p, subs |-> Purl(d, b)] : p \in Purl(d, a)}
      BY <1>1, <2>3
    <3>2. c.product \in Purl(d, a)
      BY <2>5
    <3> QED
      BY <3>1, <3>2
  <2> QED
    BY <1>5, <2>6, <2>7 DEF StandsFor, a, b, q
<1> QED
  BY <1>6, <1>7

\* An advisory that answers as it should: dated, and with a definition of what it
\* lists under an id of the writer's.
Defines(d) ==
  \A i \in DOMAIN d.vulns : \A k \in DOMAIN d.vulns[i].lists : \A pid \in ToSet(d.vulns[i].lists[k]) :
    pid[1] \in {"artifact", "pair"} => Resolved(d, pid) # {}
Sound(d) == IsAdvisory(d) /\ WritersIds(d) /\ Dated(d) /\ Defines(d)
IsClaim(c) == c.ids # {} /\ c.product # NoPurl /\ c.sub # NoPurl /\ c.ts \in Nat

\* A claim leaves it so.
LEMMA ClaimLeavesSound ==
  ASSUME NEW d, Sound(d), NEW c, IsClaim(c), ~Answered(d, c)
  PROVE  Sound(AddClaim(d, c))
<1> DEFINE e == AddClaim(d, c)
           q == PairId(c)
<1>1. EntersClaim(d, c, e)
  BY ClaimEntered DEF Sound
<1> HIDE DEF e
<1>2. IsAdvisory(e) /\ WritersIds(e) /\ Grown(d, e) /\ IsAdvisory(d)
  BY <1>1 DEF EntersClaim, Sound
<1>3. Dated(e)
  <2>1. d.ts \in Nat /\ e.ts = d.ts /\ \A i \in DOMAIN d.vulns : d.vulns[i].ts \in Nat /\ e.vulns[i].ts = d.vulns[i].ts
    BY <1>1, <1>2 DEF EntersClaim, Sound, Dated, IsAdvisory
  <2>2. \A i \in DOMAIN e.vulns \ DOMAIN d.vulns : e.vulns[i].ts = c.ts /\ c.ts \in Nat
    BY <1>1 DEF EntersClaim, IsClaim
  <2>3. e.kind = "csaf"
    BY <1>2 DEF IsAdvisory
  <2> QED
    BY <2>1, <2>2, <2>3 DEF Dated
<1>4. Resolved(e, q) # {}
  <2>1. Relation(e, q) # {}
    <3>1. e.relations = Relating(d.relations, c)
      BY <1>1 DEF EntersClaim
    <3>2. \E r \in Relating(d.relations, c) : r.id = PairId(c)
      <4>1. CASE \E r \in d.relations : r.id = PairId(c)
        BY <4>1 DEF Relating
      <4>2. CASE ~ \E r \in d.relations : r.id = PairId(c)
        <5> DEFINE r == [id |-> PairId(c), component |-> ComponentId(c), container |-> ArtifactId(c)]
        <5>1. r \in Relating(d.relations, c) /\ r.id = PairId(c)
          BY <4>2 DEF Relating
        <5> QED
          BY <5>1
      <4> QED
        BY <4>1, <4>2
    <3> QED
      BY <3>1, <3>2 DEF Relation
  <2>2. ComponentId(c) \in DOMAIN e.tree /\ ArtifactId(c) \in DOMAIN e.tree
    <3>1. e.tree = TreeAfter(d.tree, c) /\ TreeGrown(d.tree, c, TreeAfter(d.tree, c))
      BY <1>1, TreeGrows DEF EntersClaim
    <3> QED
      BY <3>1 DEF TreeGrown
  <2> QED
    BY <1>2, <2>1, <2>2, WritersIdsResolve DEF IsClaim
<1> HIDE DEF q
<1>5. ASSUME NEW i \in DOMAIN e.vulns, NEW k \in Statuses, NEW pid \in ToSet(e.vulns[i].lists[k]), pid[1] \in {"artifact", "pair"}
      PROVE  Resolved(e, pid) # {}
  <2>1. CASE pid = q
    BY <1>4, <2>1
  <2>2. CASE pid # q /\ i \in DOMAIN d.vulns
    <3>1. pid \in ToSet(d.vulns[i].lists[k])
      BY <1>1, <2>2 DEF EntersClaim, q
    <3>2. k \in DOMAIN d.vulns[i].lists
      BY <1>2, <2>2 DEF IsAdvisory, IsVuln, Statuses
    <3>3. Resolved(d, pid) # {}
      BY <1>5, <2>2, <3>1, <3>2 DEF Sound, Defines
    <3>4. Resolved(e, pid) = Resolved(d, pid)
      BY <1>2, <3>3, ResolvedStays
    <3> QED
      BY <3>3, <3>4
  <2>3. CASE pid # q /\ i \notin DOMAIN d.vulns
    <3> DEFINE L == ToSet(e.vulns[i].lists[k])
    <3>1. L \subseteq {PairId(c)} /\ pid \in L
      BY <1>1, <2>3 DEF EntersClaim
    <3> HIDE DEF L
    <3>2. pid = PairId(c)
      BY <3>1
    <3> QED
      BY <2>3, <3>2 DEF q
  <2> QED
    BY <2>1, <2>2, <2>3
<1>6. \A i \in DOMAIN e.vulns : DOMAIN e.vulns[i].lists = Statuses
  BY <1>2 DEF IsAdvisory, IsVuln, Statuses
<1>7. Defines(e)
  BY <1>5, <1>6 DEF Defines
<1> QED
  BY <1>2, <1>3, <1>7 DEF Sound, e

Claimed(claims) == Len(claims) \in Nat /\ \A n \in 1..Len(claims) : IsClaim(claims[n])

\* An advisory answers every claim it was given (addClaims), and is sound.
LEMMA AddedAnswers ==
  ASSUME NEW d, Sound(d), NEW claims, Claimed(claims)
  PROVE  /\ Sound(AddClaims(d, claims))
         /\ \A n \in 1..Len(claims) : Answered(AddClaims(d, claims), claims[n])
<1>0. PICK g : AddsThem(g, d, claims) /\ AddClaims(d, claims) = g[Len(claims)]
  BY AddedClaimByClaim DEF Claimed
<1>1. /\ g[0] = d /\ Len(claims) \in Nat
      /\ \A n \in 1..Len(claims) : g[n] = AddClaim(g[n - 1], claims[n]) /\ IsClaim(claims[n])
      /\ AddClaims(d, claims) = g[Len(claims)]
  BY <1>0 DEF AddsThem, Claimed
<1> DEFINE G == {n \in Nat : n <= Len(claims) => Sound(g[n]) /\ \A m \in 1..n : Answered(g[n], claims[m])}
<1>2. 0 \in G
  BY <1>1
<1>3. ASSUME NEW n \in Nat, n \in G PROVE n + 1 \in G
  <2> SUFFICES ASSUME n + 1 <= Len(claims)
               PROVE  Sound(g[n + 1]) /\ \A m \in 1..(n + 1) : Answered(g[n + 1], claims[m])
    OBVIOUS
  <2>1. n + 1 \in 1..Len(claims) /\ (n + 1) - 1 = n
    BY <1>1
  <2> DEFINE a == g[n]
             b == g[n + 1]
             c == claims[n + 1]
  <2>2. Sound(a) /\ \A m \in 1..n : Answered(a, claims[m])
    BY <1>1, <1>3
  <2>3. b = AddClaim(a, c) /\ IsClaim(c)
    BY <1>1, <2>1
  <2>4. \A m \in 1..(n + 1) : m \in 1..n \/ claims[m] = c
    OBVIOUS
  <2> HIDE DEF a, b, c
  <2>5. CASE Answered(a, c)
    <3>1. b = a
      BY <2>3, <2>5 DEF AddClaim, Answered
    <3>2. Sound(b) /\ \A m \in 1..(n + 1) : Answered(b, claims[m])
      BY <2>2, <2>4, <2>5, <3>1
    <3> QED
      BY <3>2 DEF b
  <2>6. CASE ~Answered(a, c)
    <3>1. Sound(b) /\ EntersClaim(a, c, b)
      BY <2>2, <2>3, <2>6, ClaimLeavesSound, ClaimEntered DEF Sound
    <3>2. Answered(b, c)
      BY <2>2, <2>3, <3>1, NowAnswered DEF Sound, IsClaim
    <3>3. \A m \in 1..n : Answered(b, claims[m])
      BY <2>2, <3>1, StillAnswered DEF Sound
    <3>4. Sound(b) /\ \A m \in 1..(n + 1) : Answered(b, claims[m])
      BY <2>4, <3>1, <3>2, <3>3
    <3> QED
      BY <3>4 DEF b
  <2> QED
    BY <2>5, <2>6
<1> HIDE DEF G
<1>4. Len(claims) \in G
  BY <1>1, <1>2, <1>3, CountUp
<1> QED
  BY <1>1, <1>4 DEF G

\* Given claims that it answers, it stays as it is.
LEMMA AddedAgain ==
  ASSUME NEW d, NEW claims, Len(claims) \in Nat, \A n \in 1..Len(claims) : Answered(d, claims[n])
  PROVE  AddClaims(d, claims) = d
<1>0. PICK g : AddsThem(g, d, claims) /\ AddClaims(d, claims) = g[Len(claims)]
  BY AddedClaimByClaim
<1>1. /\ g[0] = d
      /\ \A n \in 1..Len(claims) : g[n] = AddClaim(g[n - 1], claims[n])
      /\ AddClaims(d, claims) = g[Len(claims)]
  BY <1>0 DEF AddsThem
<1> DEFINE G == {n \in Nat : n <= Len(claims) => g[n] = d}
<1>2. 0 \in G
  BY <1>1
<1>3. ASSUME NEW n \in Nat, n \in G PROVE n + 1 \in G
  <2> SUFFICES ASSUME n + 1 <= Len(claims) PROVE g[n + 1] = d
    OBVIOUS
  <2>1. n + 1 \in 1..Len(claims) /\ (n + 1) - 1 = n
    OBVIOUS
  <2> DEFINE c == claims[n + 1]
  <2>2. g[n + 1] = AddClaim(d, c)
    BY <1>1, <1>3, <2>1
  <2>3. Answered(d, c)
    BY <2>1
  <2> HIDE DEF c
  <2>4. AddClaim(d, c) = d
    BY <2>3 DEF AddClaim, Answered
  <2> QED
    BY <2>2, <2>4
<1> HIDE DEF G
<1>4. Len(claims) \in G
  BY <1>2, <1>3, CountUp
<1> QED
  BY <1>1, <1>4 DEF G

\* A new version of it answers the same, and so does any that only grew.
LEMMA RevisedAnswers ==
  ASSUME NEW d, Sound(d), NEW ts \in Nat
  PROVE  Sound(Revised(d, ts)) /\ \A c : Answered(d, c) => Answered(Revised(d, ts), c)
<1> DEFINE e == Revised(d, ts)
<1>1. d = [kind |-> "csaf", id |-> d.id, version |-> d.version, ts |-> d.ts, tree |-> d.tree,
           relations |-> d.relations, vulns |-> d.vulns]
  BY DEF Sound, IsAdvisory
<1>2. e = [d EXCEPT !.version = @ + 1, !.ts = ts]
  BY DEF Revised
<1> HIDE DEF e
<1>3. e.kind = "csaf" /\ e.tree = d.tree /\ e.relations = d.relations /\ e.vulns = d.vulns /\ e.ts = ts
  BY <1>1, <1>2
<1>4. IsAdvisory(e) /\ WritersIds(e)
  BY RevisedKeeps DEF Sound, e
<1>5. Grown(d, e)
  BY <1>3 DEF Grown
<1>6. \A pid : Resolved(d, pid) # {} => Resolved(e, pid) # {}
  BY <1>5, ResolvedStays
<1>7. Defines(e)
  BY <1>3, <1>6 DEF Sound, Defines
<1>8. Dated(e)
  BY <1>1, <1>3 DEF Sound, Dated
<1>9. \A c : Answered(d, c) <=> Answered(e, c)
  BY <1>3 DEF Answered, FindVuln
<1> QED
  BY <1>4, <1>7, <1>8, <1>9 DEF Sound, e

\* So is one begun for a product.
LEMMA NewOneIsSound ==
  ASSUME NEW id, NEW ts \in Nat
  PROVE  Sound(NewAdvisory(id, ts))
<1> DEFINE d == NewAdvisory(id, ts)
<1>1. d = [kind |-> "csaf", id |-> id, version |-> 1, ts |-> ts, tree |-> <<>>, relations |-> {}, vulns |-> <<>>]
  BY DEF NewAdvisory
<1>2. IsAdvisory(d) /\ WritersIds(d)
  BY NewOneIsAdvisory
<1> HIDE DEF d
<1>3. d.kind = "csaf" /\ d.ts = ts /\ d.vulns = <<>>
  BY <1>1
<1>4. Dated(d) /\ Defines(d)
  BY <1>3, NoList DEF Dated, Defines
<1> QED
  BY <1>2, <1>4 DEF Sound, d

\* What covers a claim, and not by an @id alone, speaks to its component.
LEMMA StatementSpeaks ==
  ASSUME NEW d, d.kind = "openvex", IsList(d.statements), NEW c, IsClaim(c), ListCovers(d.statements, c), ~ByIdAlone(d, c)
  PROVE  \E x \in Said(d) : SpeaksUp(x, c.product, c.ids, c.sub)
<1> DEFINE S == d.statements
<1>1. PICK i \in DOMAIN S : NamesExactly(S[i], c)
  BY DEF ListCovers, ByIdAlone
<1> DEFINE s == S[i]
           t == AsRead(s, d.ts)
<1>2. PICK p \in s.products : p.id = c.product /\ (p.subs = {} \/ c.sub \in p.subs)
  BY <1>1 DEF NamesExactly, CoversComponent
<1>3. s.ids \cap c.ids # {}
  BY <1>1 DEF NamesExactly
<1>4. Speaks(p, c.product, c.sub)
  BY <1>2 DEF Speaks, IsClaim, SamePackage
<1>5. t.ids = s.ids /\ t.products = s.products
  BY DEF AsRead
<1>6. i \in Read(d)
  BY <1>1, <1>2, <1>3 DEF Read
<1>7. t \in ToSet(ReadStatements(d))
  BY <1>6, StatementsRead DEF AllRead
<1> HIDE DEF s, t
<1>8. SpeaksFor(t, c.product, c.ids, c.sub)
  BY <1>2, <1>3, <1>4, <1>5 DEF SpeaksFor
<1> QED
  BY <1>7, <1>8, SaidIs

\* An advisory that answers a claim says something that speaks to it.
LEMMA AdvisorySpeaks ==
  ASSUME NEW d, Sound(d), NEW c, IsClaim(c), Answered(d, c)
  PROVE  \E x \in Said(d) : SpeaksUp(x, c.product, c.ids, c.sub)
<1> DEFINE i == FindVuln(d, c)
           v == d.vulns[i]
<1>1. /\ i \in DOMAIN d.vulns /\ v.names \cap c.ids # {}
      /\ VulnCovers(v, PairId(c)) \/ VulnCovers(v, ArtifactId(c))
  BY FoundIs DEF Answered, Sound
<1>2. IsAdvisory(d) /\ WritersIds(d) /\ IsVuln(v)
  BY <1>1 DEF Sound, IsAdvisory
<1> HIDE DEF i
<1>3. ASSUME NEW pid \in {PairId(c), ArtifactId(c)}, VulnCovers(v, pid)
      PROVE  \E x \in Said(d) : SpeaksUp(x, c.product, c.ids, c.sub)
  <2>1. PICK k \in DOMAIN v.lists : pid \in ToSet(v.lists[k])
    BY <1>3 DEF VulnCovers
  <2>2. pid[1] \in {"artifact", "pair"}
    BY DEF PairId, ArtifactId
  <2>3. Resolved(d, pid) # {}
    BY <1>1, <2>1, <2>2 DEF Sound, Defines
  <2>4. PICK p \in Resolved(d, pid) : TRUE
    BY <2>3
  <2>5. p.id = c.product /\ (p.subs = {} \/ p.subs = {c.sub})
    <3>1. StandsFor(d, c)
      BY <1>2, WritersIdsResolve
    <3>2. {c.sub} \ {NoPurl} = {c.sub}
      BY DEF IsClaim
    <3> QED
      BY <2>4, <3>1, <3>2 DEF StandsFor
  <2>6. Speaks(p, c.product, c.sub)
    BY <2>5 DEF Speaks, SamePackage, IsClaim
  <2>7. k \in Statuses /\ IsList(v.lists[k])
    BY <1>2, <2>1 DEF IsVuln, Statuses
  <2>8. PICK n \in DOMAIN v.lists[k] : v.lists[k][n] = pid
    BY <2>1 DEF ToSet
  <2> DEFINE x == [ids |-> v.names, product |-> p, status |-> k, why |-> FlagFor(v, pid)]
  <2>9. x \in Listings(d, v, k)
    BY <2>4, <2>8 DEF Listings, Spoken
  <2>10. v.names # {}
    BY <1>1
  <2>11. x.ids = v.names /\ x.product = p
    OBVIOUS
  <2> HIDE DEF x
  <2>12. x \in Said(d)
    BY <1>1, <1>2, <2>7, <2>9, <2>10, AdvisorySays
  <2>13. SpeaksUp(x, c.product, c.ids, c.sub)
    BY <1>1, <2>6, <2>11 DEF SpeaksUp
  <2> QED
    BY <2>12, <2>13
<1> QED
  BY <1>1, <1>3

-----------------------------------------------------------------------------
(* The merges.                                                             *)

\* A document a reader can rely on.
Reliable(d) == IsDocument(d) /\ Theirs(d) /\ Dated(d) /\ DefinesWhatItLists(d)

\* An advisory of ours that can be relied on is sound, and one that is sound can
\* be relied on.
LEMMA OursAreSound ==
  /\ \A d : Reliable(d) /\ d.kind = "csaf" /\ d.id \in ToSet(Products) => Sound(d)
  /\ \A d : Sound(d) => Reliable(d) /\ d.kind = "csaf"
<1>1. ASSUME NEW d, Reliable(d), d.kind = "csaf", d.id \in ToSet(Products) PROVE Sound(d)
  <2>1. IsAdvisory(d)
    BY <1>1, KindsAre DEF Reliable, IsDocument
  <2> QED
    BY <1>1, <2>1 DEF Reliable, Theirs, DefinesWhatItLists, Sound, Defines
<1>2. ASSUME NEW d, Sound(d) PROVE Reliable(d) /\ d.kind = "csaf"
  <2>1. d.kind = "csaf"
    BY <1>2 DEF Sound, IsAdvisory
  <2> QED
    BY <1>2, <2>1 DEF Sound, Reliable, IsDocument, Theirs, DefinesWhatItLists, Defines
<1> QED
  BY <1>1, <1>2

\* The document of a product that has all the claims, in either format.
Has(e, claims) ==
  \A n \in 1..Len(claims) :
    \/ e.kind = "openvex" /\ ListCovers(e.statements, claims[n])
    \/ e.kind = "csaf" /\ Sound(e) /\ Answered(e, claims[n])
HasAdvisory(e, id, claims) == Reliable(e) /\ e.kind = "csaf" /\ e.id = id /\ Has(e, claims)
HasStatements(e, claims) == Reliable(e) /\ e.kind = "openvex" /\ Has(e, claims)

\* What MergeCSAF leaves, whether or not it wrote, has them all.
LEMMA AdvisoryHasThem ==
  ASSUME NEW d, Reliable(d), NEW id \in ToSet(Products), NEW claims, Claimed(claims), Len(claims) # 0, NEW ts \in Nat
  PROVE  LET m == MergeCSAF(d, id, claims, ts) IN
         /\ m.outcome = "wrote" => HasAdvisory(m.doc, id, claims)
         /\ m.outcome = "nothing" => HasAdvisory(d, id, claims)
<1> DEFINE own == d.kind = "csaf" /\ d.id = id
           before == IF own THEN d ELSE NewAdvisory(id, ts)
           after == AddClaims(before, claims)
           m == MergeCSAF(d, id, claims, ts)
<1>1. m = IF d = Unreadable THEN Refusal("unreadable")
          ELSE IF d # NoDoc /\ ~own THEN Refusal("declined")
          ELSE IF after = before THEN Refusal("nothing")
          ELSE IF ~own THEN Wrote(after)
          ELSE IF d.version = 0 THEN Refusal("declined")
          ELSE Wrote(Revised(after, ts))
  BY Zenon DEF MergeCSAF
<1>2. Sound(before) /\ before.id = id
  <2>1. CASE own
    BY <2>1, OursAreSound
  <2>2. CASE ~own
    BY <2>2, NewOneIsSound, NewOneIsAdvisory
  <2> QED
    BY <2>1, <2>2
<1>3. Merges(d, m)
  BY AdvisoryMerged DEF Reliable, Claimed
<1> HIDE DEF before
<1>4. Sound(after) /\ \A n \in 1..Len(claims) : Answered(after, claims[n])
  BY <1>2, AddedAnswers
<1>5. Kept(before, after)
  BY <1>2, AddedKeeps DEF Sound, Claimed
<1> HIDE DEF after, m
<1>6. after.id = id /\ HasAdvisory(after, id, claims)
  BY <1>2, <1>4, <1>5, OursAreSound DEF Kept, HasAdvisory, Has
<1> DEFINE e == Revised(after, ts)
<1>7. HasAdvisory(e, id, claims)
  <2>1. Sound(e) /\ \A n \in 1..Len(claims) : Answered(e, claims[n])
    BY <1>4, RevisedAnswers
  <2>2. e.id = id
    BY <1>4, <1>6, RevisedKeeps DEF Sound
  <2> HIDE DEF e
  <2> QED
    BY <2>1, <2>2, OursAreSound DEF HasAdvisory, Has
<1> HIDE DEF e
<1>8. \A r : Refusal(r).outcome = r
  BY DEF Refusal
<1>9. \A x : Wrote(x).outcome = "wrote" /\ Wrote(x).doc = x
  BY DEF Wrote
<1>10. ASSUME m.outcome = "wrote" PROVE HasAdvisory(m.doc, id, claims)
  <2>1. m = Wrote(after) \/ m = Wrote(e)
    BY <1>1, <1>8, <1>10 DEF e
  <2> QED
    BY <1>6, <1>7, <1>9, <2>1
<1>11. ASSUME m.outcome = "nothing" PROVE HasAdvisory(d, id, claims)
  <2>1. d # NoDoc
    BY <1>3, <1>11 DEF Merges
  <2>2. own /\ after = before
    BY <1>1, <1>8, <1>9, <1>11, <2>1
  <2>3. after = d
    BY <2>2 DEF before
  <2> QED
    BY <1>6, <2>3
<1> QED
  BY <1>10, <1>11 DEF m

\* One that has them is left as it is.
LEMMA AdvisoryOnceMore ==
  ASSUME NEW e, NEW id, NEW claims, Len(claims) \in Nat, HasAdvisory(e, id, claims), NEW ts
  PROVE  MergeCSAF(e, id, claims, ts).outcome = "nothing"
<1> DEFINE own == e.kind = "csaf" /\ e.id = id
           before == IF own THEN e ELSE NewAdvisory(id, ts)
           after == AddClaims(before, claims)
           m == MergeCSAF(e, id, claims, ts)
<1>1. m = IF e = Unreadable THEN Refusal("unreadable")
          ELSE IF e # NoDoc /\ ~own THEN Refusal("declined")
          ELSE IF after = before THEN Refusal("nothing")
          ELSE IF ~own THEN Wrote(after)
          ELSE IF e.version = 0 THEN Refusal("declined")
          ELSE Wrote(Revised(after, ts))
  BY Zenon DEF MergeCSAF
<1>2. own /\ before = e /\ e # Unreadable
  BY KindsAre DEF HasAdvisory
<1>3. \A n \in 1..Len(claims) : Answered(e, claims[n])
  BY <1>2 DEF HasAdvisory, Has
<1>4. AddClaims(e, claims) = e
  BY <1>3, AddedAgain
<1>5. after = before
  BY <1>2, <1>4
<1> HIDE DEF m, after, before
<1>6. m = Refusal("nothing")
  BY <1>1, <1>2, <1>5, Zenon
<1> QED
  BY <1>6 DEF Refusal, m

DatedList(S) == \A i \in DOMAIN S : S[i].ts \in Nat

\* A statement for a claim is dated with it.
LEMMA MergedDated ==
  ASSUME NEW S, IsList(S), DatedList(S), NEW claims, Claimed(claims)
  PROVE  DatedList(MergeClaims(S, claims))
<1>0. PICK g : MergesThem(g, S, claims) /\ MergeClaims(S, claims) = g[Len(claims)]
  BY MergedClaimByClaim DEF Claimed
<1>1. /\ g[0] = S /\ Len(claims) \in Nat
      /\ \A n \in 1..Len(claims) : g[n] = AddStatement(g[n - 1], claims[n]) /\ IsClaim(claims[n])
      /\ MergeClaims(S, claims) = g[Len(claims)]
  BY <1>0 DEF MergesThem, Claimed
<1> DEFINE G == {n \in Nat : n <= Len(claims) => IsList(g[n]) /\ DatedList(g[n])}
<1>2. 0 \in G
  BY <1>1
<1>3. ASSUME NEW n \in Nat, n \in G PROVE n + 1 \in G
  <2> SUFFICES ASSUME n + 1 <= Len(claims) PROVE IsList(g[n + 1]) /\ DatedList(g[n + 1])
    OBVIOUS
  <2>1. n + 1 \in 1..Len(claims) /\ (n + 1) - 1 = n
    BY <1>1
  <2> DEFINE a == g[n]
             b == g[n + 1]
             c == claims[n + 1]
  <2>2. IsList(a) /\ DatedList(a) /\ b = AddStatement(a, c) /\ IsClaim(c)
    BY <1>1, <1>3, <2>1
  <2> HIDE DEF a, b, c
  <2>3. CASE b = a
    BY <2>2, <2>3 DEF a, b
  <2>4. CASE b = Append(a, ClaimStatement(c))
    <3> DEFINE s == ClaimStatement(c)
    <3>1. s.ts \in Nat
      BY <2>2 DEF ClaimStatement, Statement, IsClaim
    <3>2. b = Append(a, s)
      BY <2>4
    <3> HIDE DEF s
    <3>3. /\ IsList(b) /\ DOMAIN b = DOMAIN a \cup {Len(a) + 1} /\ b[Len(a) + 1] = s
          /\ \A i \in DOMAIN a : b[i] = a[i]
      BY <2>2, <3>2, ListGrows
    <3>4. DatedList(b)
      BY <2>2, <3>1, <3>3 DEF DatedList
    <3> QED
      BY <3>3, <3>4 DEF b
  <2> QED
    BY <2>2, <2>3, <2>4 DEF AddStatement
<1> HIDE DEF G
<1>4. Len(claims) \in G
  BY <1>1, <1>2, <1>3, CountUp
<1> QED
  BY <1>1, <1>4 DEF G

\* The parts of a document that is made of a date and statements.
LEMMA OpenVEXIs == \A ts, S : OpenVEX(ts, S).kind = "openvex" /\ OpenVEX(ts, S).ts = ts /\ OpenVEX(ts, S).statements = S
BY DEF OpenVEX

\* A document of dated statements is one to rely on.
LEMMA StatementsAreReliable ==
  ASSUME NEW S, IsList(S), DatedList(S), NEW ts \in Nat
  PROVE  Reliable(OpenVEX(ts, S))
<1> DEFINE e == OpenVEX(ts, S)
<1>1. e.kind = "openvex" /\ e.ts = ts /\ e.statements = S /\ e = OpenVEX(e.ts, e.statements)
  BY OpenVEXIs
<1> HIDE DEF e
<1>2. IsDocument(e)
  BY <1>1 DEF IsDocument
<1>3. Dated(e)
  BY <1>1 DEF Dated, DatedList
<1> QED
  BY <1>1, <1>2, <1>3 DEF Reliable, Theirs, DefinesWhatItLists, e

\* The statements that a merge starts from.
Before(d) == IF d = NoDoc THEN <<>> ELSE d.statements

\* What MergeOpenVEX writes: the statements of the document and one for each
\* claim.
LEMMA MergeIs ==
  ASSUME NEW d, Reliable(d), d.kind # "csaf", d # Unreadable, NEW claims, Claimed(claims), NEW ts
  PROVE  LET after == MergeClaims(Before(d), claims) IN
         /\ MergeOpenVEX(d, claims, ts) = IF after = Before(d) THEN Refusal("nothing") ELSE Wrote(OpenVEX(ts, after))
         /\ IsList(Before(d)) /\ DatedList(Before(d)) /\ Longer(Before(d), after) /\ DatedList(after)
         /\ \A n \in 1..Len(claims) : ListCovers(after, claims[n])
         /\ d # NoDoc => d.kind = "openvex" /\ Before(d) = d.statements
<1> DEFINE after == MergeClaims(Before(d), claims)
<1>1. d # NoDoc => d.kind = "openvex" /\ IsList(d.statements) /\ Before(d) = d.statements /\ DatedList(d.statements)
  BY KindsAre DEF Reliable, IsDocument, Before, Dated, DatedList
<1>2. d = NoDoc => Before(d) = <<>>
  BY DEF Before
<1>3. IsList(Before(d)) /\ DatedList(Before(d))
  BY <1>1, <1>2, NoList DEF DatedList
<1>4. AreClaims(claims)
  BY DEF Claimed, AreClaims, IsClaim
<1>5. MergeOpenVEX(d, claims, ts) = IF after = Before(d) THEN Refusal("nothing") ELSE Wrote(OpenVEX(ts, after))
  BY Zenon DEF MergeOpenVEX, Before
<1>6. DatedList(after)
  BY <1>3, MergedDated
<1>7. Longer(Before(d), after)
  BY <1>3, MergedKeeps DEF Claimed
<1>8. \A n \in 1..Len(claims) : ListCovers(after, claims[n])
  BY <1>3, <1>4, MergedCovers
<1> HIDE DEF after
<1>9. QED
  BY <1>1, <1>3, <1>5, <1>6, <1>7, <1>8 DEF after

\* What MergeOpenVEX leaves, whether or not it wrote, has them all.
LEMMA StatementsHaveThem ==
  ASSUME NEW d, Reliable(d), NEW claims, Claimed(claims), Len(claims) # 0, NEW ts \in Nat
  PROVE  LET m == MergeOpenVEX(d, claims, ts) IN
         /\ m.outcome = "wrote" => HasStatements(m.doc, claims)
         /\ m.outcome = "nothing" => HasStatements(d, claims)
<1> DEFINE m == MergeOpenVEX(d, claims, ts)
           after == MergeClaims(Before(d), claims)
           e == OpenVEX(ts, after)
<1>1. \A r : Refusal(r).outcome = r
  BY DEF Refusal
<1>2. \A x : Wrote(x).outcome = "wrote" /\ Wrote(x).doc = x
  BY DEF Wrote
<1>3. CASE d.kind = "csaf" \/ d = Unreadable
  <2>1. m = Refusal("declined") \/ m = Refusal("unreadable")
    BY <1>3, Zenon DEF MergeOpenVEX
  <2>2. m.outcome \in {"declined", "unreadable"}
    BY <1>1, <2>1
  <2> HIDE DEF m
  <2> QED
    BY <2>2 DEF m
<1>4. CASE d.kind # "csaf" /\ d # Unreadable
  <2>1. /\ m = IF after = Before(d) THEN Refusal("nothing") ELSE Wrote(e)
        /\ Longer(Before(d), after) /\ DatedList(after)
        /\ \A n \in 1..Len(claims) : ListCovers(after, claims[n])
        /\ d # NoDoc => d.kind = "openvex" /\ Before(d) = d.statements
    BY <1>4, MergeIs
  <2>2. Reliable(e) /\ e.kind = "openvex" /\ e.statements = after
    BY <2>1, StatementsAreReliable, OpenVEXIs DEF Longer
  <2>3. Merges(d, m)
    BY StatementsMerged DEF Reliable, Claimed
  <2> HIDE DEF m, after, e
  <2>4. HasStatements(e, claims)
    BY <2>1, <2>2 DEF HasStatements, Has
  <2>5. ASSUME after = Before(d) PROVE m.outcome = "nothing" /\ HasStatements(d, claims)
    <3>1. m.outcome = "nothing"
      BY <1>1, <2>1, <2>5
    <3>2. d # NoDoc
      BY <2>3, <3>1 DEF Merges
    <3>3. d.kind = "openvex" /\ d.statements = after
      BY <2>1, <2>5, <3>2
    <3> QED
      BY <2>1, <3>1, <3>3 DEF HasStatements, Has
  <2>6. ASSUME after # Before(d) PROVE m.outcome = "wrote" /\ m.doc = e
    BY <1>2, <2>1, <2>6
  <2> QED
    BY <2>4, <2>5, <2>6 DEF m
<1> QED
  BY <1>3, <1>4

\* A document that has the claims gains nothing from them.
LEMMA StatementsOnceMore ==
  ASSUME NEW e, NEW claims, Claimed(claims), HasStatements(e, claims), NEW ts
  PROVE  MergeOpenVEX(e, claims, ts).outcome = "nothing"
<1>1. Reliable(e) /\ e.kind = "openvex" /\ e # NoDoc /\ e # Unreadable
  BY KindsAre DEF HasStatements
<1>2. \A n \in 1..Len(claims) : ListCovers(e.statements, claims[n])
  BY <1>1 DEF HasStatements, Has
<1>3. /\ MergeOpenVEX(e, claims, ts) =
           IF MergeClaims(Before(e), claims) = Before(e) THEN Refusal("nothing") ELSE Wrote(OpenVEX(ts, MergeClaims(Before(e), claims)))
      /\ IsList(Before(e)) /\ Before(e) = e.statements
  BY <1>1, MergeIs
<1>4. MergeClaims(Before(e), claims) = Before(e)
  BY <1>2, <1>3, MergedAgain DEF Claimed, AreClaims, IsClaim
<1>5. MergeOpenVEX(e, claims, ts) = Refusal("nothing")
  BY <1>3, <1>4
<1> QED
  BY <1>5 DEF Refusal

\* And a document that has some claims has them when others were merged in.
LEMMA StatementsStayIn ==
  ASSUME NEW d, NEW some, HasStatements(d, some), NEW claims, Claimed(claims), NEW ts \in Nat,
         MergeOpenVEX(d, claims, ts).outcome = "wrote"
  PROVE  HasStatements(MergeOpenVEX(d, claims, ts).doc, some)
<1> DEFINE m == MergeOpenVEX(d, claims, ts)
           after == MergeClaims(Before(d), claims)
           e == OpenVEX(ts, after)
<1>1. Reliable(d) /\ d.kind = "openvex" /\ d # NoDoc /\ d # Unreadable
  BY KindsAre DEF HasStatements
<1>2. /\ m = IF after = Before(d) THEN Refusal("nothing") ELSE Wrote(e)
      /\ Longer(d.statements, after) /\ DatedList(after)
  BY <1>1, MergeIs
<1>3. Reliable(e) /\ e.kind = "openvex" /\ e.statements = after
  BY <1>2, StatementsAreReliable, OpenVEXIs DEF Longer
<1>4. \A n \in 1..Len(some) : ListCovers(d.statements, some[n])
  BY <1>1 DEF HasStatements, Has
<1> HIDE DEF m, after, e
<1>5. HasStatements(e, some)
  BY <1>2, <1>3, <1>4, LongerCovers DEF HasStatements, Has
<1>6. m.doc = e
  <2>1. m.outcome = "wrote"
    BY DEF m
  <2>2. m # Refusal("nothing")
    BY <2>1 DEF Refusal
  <2>3. m = Wrote(e)
    BY <1>2, <2>2
  <2> QED
    BY <2>3 DEF Wrote
<1> QED
  BY <1>5, <1>6 DEF m

-----------------------------------------------------------------------------
(* What a plan leaves.                                                     *)

\* Each change of a plan is there when it is written, and what it does not change
\* is what it was.
LEMMA AppliedAt ==
  ASSUME NEW P, IsList(P), Planned(P, index, disk)
  PROVE  /\ \A ch \in ToSet(P) : ch.loc \in Locations => Applied(P).disk[ch.loc] = ch.doc
         /\ \A ch \in ToSet(P) : ch.loc = "index.json" => Applied(P).index = ch.doc
         /\ \A l \in Locations : (\A ch \in ToSet(P) : ch.loc # l) => Applied(P).disk[l] = disk[l]
         /\ (\A ch \in ToSet(P) : ch.loc # "index.json") => Applied(P).index = index
<1> DEFINE at(loc) == {n \in DOMAIN P : P[n].loc = loc}
           last(loc, before) == IF at(loc) = {} THEN before ELSE P[Max(at(loc))].doc
           after == Applied(P)
<1>1. after.index = last("index.json", index) /\ \A l \in Locations : after.disk[l] = last(l, disk[l])
  BY DEF Applied
<1>2. DOMAIN P = 1..Len(P) /\ Len(P) \in Nat /\ ToSet(P) = {P[n] : n \in DOMAIN P}
  BY ListHas DEF ToSet
<1>3. "index.json" \notin Locations
  BY HubAssumption
<1>4. ASSUME NEW n \in DOMAIN P, NEW k \in DOMAIN P, P[n].loc = P[k].loc PROVE P[n].doc = P[k].doc
  <2>1. CASE P[n].loc = "index.json"
    <3>1. n = Len(P) /\ k = Len(P)
      BY <1>4, <2>1 DEF Planned, IndexPlanned
    <3> QED
      BY <3>1
  <2>2. CASE P[n].loc # "index.json"
    BY <1>4, <2>2 DEF Planned, DocumentPlanned
  <2> QED
    BY <2>1, <2>2
<1>5. ASSUME NEW n \in DOMAIN P, NEW before PROVE last(P[n].loc, before) = P[n].doc
  <2> DEFINE T == at(P[n].loc)
  <2>1. T \subseteq Nat /\ (\A i \in T : i <= Len(P)) /\ n \in T
    BY <1>2
  <2> HIDE DEF T
  <2>2. Max(T) \in T
    BY <1>2, <2>1, GreatestNumber
  <2>3. T # {} /\ last(P[n].loc, before) = P[Max(T)].doc
    BY <2>1 DEF T
  <2>4. Max(T) \in DOMAIN P /\ P[Max(T)].loc = P[n].loc
    BY <2>2 DEF T
  <2> QED
    BY <1>4, <2>3, <2>4
<1>6. ASSUME NEW loc, \A ch \in ToSet(P) : ch.loc # loc, NEW before PROVE last(loc, before) = before
  BY <1>2, <1>6
<1> HIDE DEF last, after
<1>7. ASSUME NEW ch \in ToSet(P), ch.loc \in Locations PROVE after.disk[ch.loc] = ch.doc
  <2>1. PICK n \in DOMAIN P : P[n] = ch
    BY <1>2
  <2>2. last(ch.loc, disk[ch.loc]) = ch.doc
    BY <1>5, <2>1
  <2> QED
    BY <1>1, <1>7, <2>2
<1>8. ASSUME NEW ch \in ToSet(P), ch.loc = "index.json" PROVE after.index = ch.doc
  <2>1. PICK n \in DOMAIN P : P[n] = ch
    BY <1>2
  <2>2. last(ch.loc, index) = ch.doc
    BY <1>5, <2>1
  <2> QED
    BY <1>1, <1>8, <2>2
<1> QED
  BY <1>1, <1>6, <1>7, <1>8 DEF after

\* A plan is the changes to documents, those to aggregates and, last, the index.
IndexChange(A) == [loc |-> "index.json", doc |-> IndexAfter(A)]

\* A plan is the changes to the documents and the aggregates, and the index
\* last.
LEMMA PlanHas ==
  ASSUME NEW A, NEW P, P = Plan(A), IsList(DocumentChanges(A)), IsList(AggregateChanges(A))
  PROVE  /\ IsList(P)
         /\ ToSet(DocumentChanges(A)) \cup ToSet(AggregateChanges(A)) \subseteq ToSet(P)
         /\ \A ch \in ToSet(P) : ch \in ToSet(DocumentChanges(A)) \/ ch \in ToSet(AggregateChanges(A)) \/ ch = IndexChange(A)
         /\ IndexTouched(A) \/ ~UsesHub => ToSet(DocumentChanges(A)) \cup ToSet(AggregateChanges(A)) = {} \/ IndexChange(A) \in ToSet(P)
<1> DEFINE D == DocumentChanges(A)
           C == AggregateChanges(A)
           S == D \o C
           last == IndexChange(A)
           bare == S = <<>> \/ ~(IndexTouched(A) \/ ~UsesHub)
<1>1. P = IF bare THEN S ELSE Append(S, last)
  BY DEF Plan, IndexChange
<1>2. IsList(S) /\ ToSet(S) = ToSet(D) \cup ToSet(C)
  BY SameEntry
<1> HIDE DEF D, C, S, last
<1>3. IsList(Append(S, last)) /\ ToSet(Append(S, last)) = ToSet(S) \cup {last}
  BY <1>2, ListGrows
<1>4. S = <<>> => ToSet(S) = {}
  BY NoList
<1>5. CASE bare
  BY <1>1, <1>2, <1>4, <1>5 DEF D, C, last
<1>6. CASE ~bare
  BY <1>1, <1>2, <1>3, <1>6 DEF D, C, last
<1> QED
  BY <1>5, <1>6

-----------------------------------------------------------------------------
(* The claims of a scan.                                                   *)

\* Every claim of a finding that goes by an id, of a product of ours, is one.
AreFindings(A) == IsFiniteSet(A) /\ \A a \in A : a.f.ids # {}

\* The day of a run is a date.
LEMMA TodayIs == runs \in Nat => Today \in Nat
BY ReaderAssumption DEF Today

\* A finding that goes by an id, of a product of ours, makes a claim.
LEMMA TheyAreClaims ==
  ASSUME NEW A, AreFindings(A), runs \in Nat, NEW p \in ToSet(Products)
  PROVE  /\ \A c \in ToSet(Claims(A, p)) : IsClaim(c)
         /\ Claimed(Claims(A, p)) /\ Claimed(Fresh(A, p))
<1>1. p # NoPurl
  BY ReaderAssumption
<1>2. ASSUME NEW c \in ToSet(Claims(A, p)) PROVE IsClaim(c)
  <2>1. PICK a \in A : Claimable(a.f) /\ a.f.product = p /\ c = ClaimOf(a)
    BY ClaimsAreOfFindings DEF AreFindings
  <2>2. a.f.ids # {} /\ a.f.sub # NoPurl
    BY <2>1 DEF AreFindings, Claimable
  <2>3. c.ids = a.f.ids /\ c.product = a.f.product /\ c.sub = a.f.sub /\ c.ts = Today
    BY <2>1 DEF ClaimOf
  <2> QED
    BY <1>1, <2>1, <2>2, <2>3, TodayIs DEF IsClaim
<1>3. IsList(Claims(A, p)) /\ IsList(Fresh(A, p)) /\ ToSet(Fresh(A, p)) \subseteq ToSet(Claims(A, p))
  BY ClaimsAreOfFindings DEF AreFindings
<1>4. ASSUME NEW s, IsList(s), ToSet(s) \subseteq ToSet(Claims(A, p)) PROVE Claimed(s)
  <2>1. Len(s) \in Nat /\ \A n \in 1..Len(s) : s[n] \in ToSet(s)
    BY <1>4, ListHas
  <2> QED
    BY <1>2, <1>4, <2>1 DEF Claimed
<1> QED
  BY <1>2, <1>3, <1>4

\* An index that points each product at one place.
Filing(ix) == ix = BadIndex \/ (ix \in Seq(Filings) /\ OnePlaceEach(ix))

\* A product that gains a document is filed at its home.
NewEntry(p) == [product |-> p, loc |-> Home[p]]

\* The index as it is written: every entry is an old one or that of a product
\* proposed for the first time.
LEMMA IndexAfterIs ==
  ASSUME Filed, Reads, NEW A
  PROVE  /\ IsList(IndexAfter(A)) /\ ToSet(index) \subseteq ToSet(IndexAfter(A))
         /\ \A e \in ToSet(IndexAfter(A)) :
              e \in ToSet(index) \/ \E i \in ToPropose(A) : Indexed(Products[i]) = {} /\ e = NewEntry(Products[i])
         /\ \A i \in ToPropose(A) : Indexed(Products[i]) = {} => NewEntry(Products[i]) \in ToSet(IndexAfter(A))
<1> DEFINE P == {i \in ToPropose(A) : Indexed(Products[i]) = {}}
           new == Select(Products, P)
           t == [i \in DOMAIN new |-> [product |-> new[i], loc |-> Home[new[i]]]]
           T == ToSet(Products)
           ix == index \o t
<1>1. IndexAfter(A) = ix
  BY DEF IndexAfter, Reads
<1>2. IsList(index)
  BY DEF Filed, IsIndex
<1>3. P \subseteq DOMAIN Products
  BY DEF ToPropose
<1>4. Products \in Seq(T)
  BY ProductsAre
<1>5. \A i : i \in P <=> i \in ToPropose(A) /\ Indexed(Products[i]) = {}
  OBVIOUS
<1> HIDE DEF P, T, new
<1>6. new \in Seq(T) /\ ToSet(new) = {Products[i] : i \in P \cap DOMAIN Products}
  BY <1>4, Selected DEF new
<1>7. DOMAIN new = 1..Len(new) /\ Len(new) \in Nat
  BY <1>6, LenProperties
<1>8. DOMAIN t = DOMAIN new /\ \A n \in DOMAIN t : t[n] = NewEntry(new[n])
  BY DEF NewEntry
<1>9. IsList(t)
  <2>1. t \in [1..Len(new) -> {t[n] : n \in 1..Len(new)}]
    BY <1>7
  <2> HIDE DEF t
  <2>2. t \in Seq({t[n] : n \in 1..Len(new)})
    BY <1>7, <2>1
  <2> QED
    BY <2>2, ListIs
<1> HIDE DEF t
<1>10. ToSet(t) = {NewEntry(new[n]) : n \in DOMAIN new}
  BY <1>8 DEF ToSet
<1>11. ToSet(t) = {NewEntry(Products[i]) : i \in P}
  <2>1. \A n \in DOMAIN new : \E i \in P : new[n] = Products[i]
    BY <1>3, <1>6 DEF ToSet
  <2>2. \A i \in P : \E n \in DOMAIN new : new[n] = Products[i]
    BY <1>3, <1>6 DEF ToSet
  <2> QED
    BY <1>10, <2>1, <2>2
<1>12. IsList(ix) /\ ToSet(ix) = ToSet(index) \cup ToSet(t)
  BY <1>2, <1>9, SameEntry
<1> HIDE DEF ix
<1> QED
  BY <1>1, <1>5, <1>11, <1>12

\* It points each product at one place too, and one that is proposed at its own.
PointsAt(ix, p) ==
  /\ EntriesOf(ix, p) # {} /\ EntriesOf(ix, p) \subseteq DOMAIN ix
  /\ \A n \in EntriesOf(ix, p) : ix[n].loc = Location(p)

\* A product that the index files, it files at one place.
LEMMA IndexedAt ==
  ASSUME Filed, Reads, Filing(index), NEW p, Indexed(p) # {}
  PROVE  PointsAt(index, p)
<1>1. OnePlaceEach(index) /\ Indexed(p) = EntriesOf(index, p)
  BY DEF Filing, Filed, Indexed, Reads
<1>2. Min(EntriesOf(index, p)) \in DOMAIN index /\ index[Min(EntriesOf(index, p))].product = p
  BY <1>1, EntryOf
<1>3. Location(p) = index[Min(EntriesOf(index, p))].loc
  BY <1>1 DEF Location, Reads
<1>4. \A n \in EntriesOf(index, p) : n \in DOMAIN index /\ index[n].product = p
  BY DEF EntriesOf
<1>5. \A n \in EntriesOf(index, p) : index[n].loc = Location(p)
  BY <1>1, <1>2, <1>3, <1>4 DEF OnePlaceEach
<1> QED
  BY <1>1, <1>4, <1>5 DEF PointsAt

\* The index that is written files each at one place, and each proposed one at
\* its own.
LEMMA IndexFiles ==
  ASSUME Filed, Reads, Documents, Filing(index), NEW A, IsFiniteSet(A)
  PROVE  /\ IndexAfter(A) \in Seq(Filings) /\ OnePlaceEach(IndexAfter(A)) /\ Filing(IndexAfter(A))
         /\ \A i \in ToPropose(A) : PointsAt(IndexAfter(A), Products[i])
<1> DEFINE ix == IndexAfter(A)
           old(e) == e \in ToSet(index)
           new(e) == \E i \in ToPropose(A) : Indexed(Products[i]) = {} /\ e = NewEntry(Products[i])
<1>1. /\ IsList(ix) /\ ToSet(index) \subseteq ToSet(ix) /\ \A e \in ToSet(ix) : old(e) \/ new(e)
      /\ \A i \in ToPropose(A) : Indexed(Products[i]) = {} => NewEntry(Products[i]) \in ToSet(ix)
  BY IndexAfterIs
<1>2. index \in Seq(Filings) /\ OnePlaceEach(index)
  BY DEF Filing, Filed
<1>3. IsList(index)
  BY DEF Filed, IsIndex
<1>4. /\ DOMAIN index = 1..Len(index) /\ ToSet(index) = {index[i] : i \in DOMAIN index}
      /\ DOMAIN ix = 1..Len(ix) /\ ToSet(ix) = {ix[i] : i \in DOMAIN ix} /\ Len(ix) \in Nat
  BY <1>1, <1>3, ListHas DEF ToSet
<1>5. \A i \in ToPropose(A) : /\ Products[i] \in ToSet(Products)
                              /\ Indexed(Products[i]) = {} => Location(Products[i]) = Home[Products[i]] /\ Home[Products[i]] \in Locations
  <2> SUFFICES ASSUME NEW i \in ToPropose(A)
               PROVE  /\ Products[i] \in ToSet(Products)
                      /\ Indexed(Products[i]) = {} => Location(Products[i]) = Home[Products[i]] /\ Home[Products[i]] \in Locations
    OBVIOUS
  <2> DEFINE p == Products[i]
  <2>1. p \in ToSet(Products) /\ Ensured(p) /\ Location(p) \in Locations
    BY ProductMerged
  <2> QED
    BY <2>1, PlacesApart
<1>6. \A p : NewEntry(p).product = p /\ NewEntry(p).loc = Home[p]
  BY DEF NewEntry
<1>7. \A e : old(e) => e \in Filings /\ Indexed(e.product) # {}
  <2>1. \A i \in DOMAIN index : index[i] \in Filings
    BY <1>2
  <2>2. \A i \in DOMAIN index : i \in Indexed(index[i].product)
    BY DEF Indexed, EntriesOf, Reads
  <2> QED
    BY <1>4, <2>1, <2>2
<1>8. \A e : new(e) => e \in Filings /\ Indexed(e.product) = {} /\ e.loc = Location(e.product)
  <2> SUFFICES ASSUME NEW i \in ToPropose(A), Indexed(Products[i]) = {}
               PROVE  /\ NewEntry(Products[i]) \in Filings
                      /\ Indexed(NewEntry(Products[i]).product) = {} /\ NewEntry(Products[i]).loc = Location(NewEntry(Products[i]).product)
    OBVIOUS
  <2>1. NewEntry(Products[i]) \in Filings
    BY <1>5 DEF NewEntry, Filings
  <2> QED
    BY <1>5, <1>6, <2>1
<1>9. \A e : old(e) => e.loc = Location(e.product)
  <2> SUFFICES ASSUME NEW n \in DOMAIN index PROVE index[n].loc = Location(index[n].product)
    BY <1>4
  <2>1. n \in EntriesOf(index, index[n].product) /\ Indexed(index[n].product) # {}
    BY DEF EntriesOf, Indexed, Reads
  <2>2. PointsAt(index, index[n].product)
    BY <2>1, IndexedAt
  <2> QED
    BY <2>1, <2>2 DEF PointsAt
<1> HIDE DEF ix, old, new
<1>10. \A n \in DOMAIN ix : ix[n] \in Filings /\ ix[n].loc = Location(ix[n].product)
  BY <1>1, <1>4, <1>7, <1>8, <1>9
<1>11. ix \in Seq(Filings)
  <2>1. ix = [n \in 1..Len(ix) |-> ix[n]]
    BY <1>1, <1>4 DEF IsList
  <2>2. ix \in [1..Len(ix) -> Filings]
    BY <1>4, <1>10, <2>1
  <2> QED
    BY <1>4, <2>2
<1>12. OnePlaceEach(ix)
  BY <1>10 DEF OnePlaceEach
<1>13. ASSUME NEW i \in ToPropose(A) PROVE PointsAt(ix, Products[i])
  <2> DEFINE p == Products[i]
  <2>1. \E e \in ToSet(ix) : e.product = p
    <3>1. CASE Indexed(p) = {}
      BY <1>1, <1>6, <3>1
    <3>2. CASE Indexed(p) # {}
      <4>1. PICK n \in DOMAIN index : index[n].product = p
        BY <3>2 DEF Indexed, EntriesOf, Reads
      <4> QED
        BY <1>1, <1>4, <4>1
    <3> QED
      BY <3>1, <3>2
  <2>2. PICK n \in DOMAIN ix : ix[n].product = p
    BY <1>4, <2>1
  <2> HIDE DEF p
  <2>3. PointsAt(ix, p)
    BY <1>10, <2>2 DEF PointsAt, EntriesOf
  <2> QED
    BY <2>3 DEF p
<1> QED
  BY <1>11, <1>12, <1>13 DEF Filing, ix

-----------------------------------------------------------------------------
(* The documents of a plan.                                                *)

RelyOn == \A l \in Locations : Reliable(disk[l])

\* The product's document, in the format of the run.
HasIn(e, p, claims) == IF settings.format = "csaf" THEN HasAdvisory(e, p, claims) ELSE HasStatements(e, claims)

\* What is fresh is in the document of the product, or in the one to be
\* written.
LEMMA ProductHasThem ==
  ASSUME Filed, Reads, Documents, RelyOn, runs \in Nat, NEW A, AreFindings(A), NEW i \in ToPropose(A)
  PROVE  LET p == Products[i]
             m == Merged(A, p)
         IN /\ m.outcome = "wrote" => HasIn(m.doc, p, Fresh(A, p))
            /\ m.outcome = "nothing" => HasIn(disk[Location(p)], p, Fresh(A, p))
<1> DEFINE p == Products[i]
           claims == Fresh(A, p)
           d == disk[Location(p)]
           m == Merged(A, p)
<1>1. p \in ToSet(Products) /\ claims # <<>>
  BY ProductsAre DEF ToPropose
<1>2. Location(p) \in Locations
  BY ProductMerged DEF AreFindings
<1>3. Claimed(claims) /\ IsList(claims)
  BY <1>1, TheyAreClaims, ClaimsAreOfFindings DEF AreFindings
<1>4. Len(claims) # 0
  BY <1>1, <1>3, NotEmpty
<1>5. Reliable(d) /\ Raw(Location(p)) = d
  BY <1>2 DEF RelyOn, Reads
<1>6. m = IF settings.format = "csaf" THEN MergeCSAF(d, p, claims, Today) ELSE MergeOpenVEX(d, claims, Today)
  BY <1>5 DEF Merged
<1> HIDE DEF p, claims, d, m
<1>7. CASE settings.format = "csaf"
  <2>1. m = MergeCSAF(d, p, claims, Today)
    BY <1>6, <1>7
  <2>2. /\ m.outcome = "wrote" => HasAdvisory(m.doc, p, claims)
        /\ m.outcome = "nothing" => HasAdvisory(d, p, claims)
    BY <1>1, <1>3, <1>4, <1>5, <2>1, TodayIs, AdvisoryHasThem
  <2> QED
    BY <1>7, <2>2 DEF HasIn, p, claims, d, m
<1>8. CASE settings.format # "csaf"
  <2>1. m = MergeOpenVEX(d, claims, Today)
    BY <1>6, <1>8
  <2>2. /\ m.outcome = "wrote" => HasStatements(m.doc, claims)
        /\ m.outcome = "nothing" => HasStatements(d, claims)
    BY <1>3, <1>4, <1>5, <2>1, TodayIs, StatementsHaveThem
  <2> QED
    BY <1>8, <2>2 DEF HasIn, p, claims, d, m
<1> QED
  BY <1>7, <1>8

\* Every claim is in the aggregate, or in the one to be written.
LEMMA AggregateHasThem ==
  ASSUME Reads, RelyOn, runs \in Nat, NEW A, AreFindings(A), Eligible(A) # <<>>, NEW l \in Locations
  PROVE  LET m == AggregateOf(A, l) IN
         /\ Claimed(EligibleClaims(A))
         /\ m = MergeOpenVEX(disk[l], EligibleClaims(A), Today)
         /\ m.outcome = "wrote" => HasStatements(m.doc, EligibleClaims(A))
         /\ m.outcome = "nothing" => HasStatements(disk[l], EligibleClaims(A))
<1> DEFINE claims == EligibleClaims(A)
           m == AggregateOf(A, l)
           d == disk[l]
<1>1. /\ IsList(claims) /\ \A c \in ToSet(claims) : \E p \in ToSet(Products) : c \in ToSet(Claims(A, p))
      /\ Len(claims) # 0
  BY EligibleClaimsAre DEF AreFindings
<1>2. \A c \in ToSet(claims) : IsClaim(c)
  BY <1>1, TheyAreClaims
<1>3. Claimed(claims)
  BY <1>1, <1>2, ListHas DEF Claimed
<1>4. Reliable(d) /\ m = MergeOpenVEX(d, claims, Today)
  BY DEF RelyOn, AggregateOf, Reads
<1> HIDE DEF claims, m, d
<1>5. /\ m.outcome = "wrote" => HasStatements(m.doc, claims)
      /\ m.outcome = "nothing" => HasStatements(d, claims)
  BY <1>1, <1>3, <1>4, TodayIs, StatementsHaveThem
<1> QED
  BY <1>3, <1>4, <1>5 DEF claims, m, d

\* An aggregate is written for as many of its paths as gain a claim.
LEMMA AggregateChangeIs ==
  ASSUME settings \in Settings, NEW A
  PROVE  /\ \A n \in DOMAIN AggregateChanges(A) :
              LET ch == AggregateChanges(A)[n] IN
              /\ ch.doc = AggregateOf(A, ch.loc).doc /\ AggregateOf(A, ch.loc).outcome = "wrote"
              /\ Eligible(A) # <<>> /\ ch.loc \in ToSet(settings.aggregates)
         /\ \A l \in ToSet(settings.aggregates) :
              Eligible(A) # <<>> /\ AggregateOf(A, l).outcome = "wrote" => \E n \in DOMAIN AggregateChanges(A) : AggregateChanges(A)[n].loc = l
<1> DEFINE paths == settings.aggregates
           P == {i \in DOMAIN paths : Eligible(A) # <<>> /\ AggregateOf(A, paths[i]).outcome = "wrote"}
           S == Select(paths, P)
           C == AggregateChanges(A)
<1>1. paths \in Seq(Locations)
  BY HubAssumption
<1>2. C = [i \in DOMAIN S |-> [loc |-> S[i], doc |-> AggregateOf(A, S[i]).doc]]
  BY DEF AggregateChanges
<1>3. P \subseteq DOMAIN paths /\ \A i \in P : Eligible(A) # <<>> /\ AggregateOf(A, paths[i]).outcome = "wrote"
  OBVIOUS
<1>4. \A i \in DOMAIN paths : Eligible(A) # <<>> /\ AggregateOf(A, paths[i]).outcome = "wrote" => i \in P
  OBVIOUS
<1> HIDE DEF paths, P, C
<1>5. S \in Seq(Locations) /\ ToSet(S) = {paths[i] : i \in P \cap DOMAIN paths}
  BY <1>1, Selected
<1> HIDE DEF S
<1>6. DOMAIN C = DOMAIN S /\ \A n \in DOMAIN C : C[n].loc = S[n] /\ C[n].doc = AggregateOf(A, S[n]).doc
  BY <1>2
<1>7. \A n \in DOMAIN S : \E i \in P : S[n] = paths[i]
  BY <1>5 DEF ToSet
<1>8. \A i \in P : \E n \in DOMAIN S : S[n] = paths[i]
  BY <1>3, <1>5 DEF ToSet
<1>9. ToSet(paths) = {paths[i] : i \in DOMAIN paths}
  BY DEF ToSet
<1>10. ASSUME NEW n \in DOMAIN C
       PROVE  /\ C[n].doc = AggregateOf(A, C[n].loc).doc /\ AggregateOf(A, C[n].loc).outcome = "wrote"
              /\ Eligible(A) # <<>> /\ C[n].loc \in ToSet(paths)
  BY <1>3, <1>6, <1>7, <1>9
<1>11. ASSUME NEW l \in ToSet(paths), Eligible(A) # <<>>, AggregateOf(A, l).outcome = "wrote"
       PROVE  \E n \in DOMAIN C : C[n].loc = l
  BY <1>4, <1>6, <1>8, <1>9, <1>11
<1> QED
  BY <1>10, <1>11 DEF paths, C

\* What a plan writes can be relied on.
ReliableChange(ch) == IF ch.loc = "index.json" THEN Filing(ch.doc) ELSE Reliable(ch.doc)

\* What is written can be relied on: an index that files each product at one
\* place, and dated documents.
LEMMA PlanIsReliable ==
  ASSUME Filed, Reads, Documents, RelyOn, Filing(index), settings \in Settings, runs \in Nat,
         NEW A, AreFindings(A)
  PROVE  \A ch \in ToSet(Plan(A)) : ReliableChange(ch)
<1>0. IsFiniteSet(A) /\ "index.json" \notin Locations
  BY HubAssumption DEF AreFindings
<1>1. /\ IsList(DocumentChanges(A)) /\ DOMAIN DocumentChanges(A) = DOMAIN Writes(A)
      /\ \A n \in DOMAIN DocumentChanges(A) : Amends(DocumentChanges(A)[n])
  BY <1>0, DocumentsAmended
<1>2. /\ IsList(AggregateChanges(A))
      /\ \A n \in DOMAIN AggregateChanges(A) : Amends(AggregateChanges(A)[n])
      /\ \A n \in DOMAIN AggregateChanges(A) : Eligible(A) # <<>>
  BY <1>0, AggregatesAmended
<1>3. ASSUME NEW ch \in ToSet(DocumentChanges(A)) PROVE ReliableChange(ch)
  <2>1. PICK n \in DOMAIN DocumentChanges(A) : DocumentChanges(A)[n] = ch
    BY <1>3 DEF ToSet
  <2>2. ch.loc \in Locations /\ ch.doc = Merged(A, Writes(A)[n]).doc
    <3>1. ch.doc = Merged(A, Writes(A)[n]).doc
      BY <1>1, <2>1 DEF DocumentChanges
    <3> QED
      BY <1>1, <2>1, <3>1 DEF Amends
  <2>3. PICK i \in ToPropose(A) : Writes(A)[n] = Products[i] /\ Merged(A, Products[i]).outcome = "wrote"
    BY <1>1, <2>1, WritesAre
  <2>4. HasIn(ch.doc, Products[i], Fresh(A, Products[i]))
    BY <2>2, <2>3, ProductHasThem
  <2>5. Reliable(ch.doc)
    BY <2>4 DEF HasIn, HasAdvisory, HasStatements
  <2> QED
    BY <1>0, <2>2, <2>5 DEF ReliableChange
<1>4. ASSUME NEW ch \in ToSet(AggregateChanges(A)) PROVE ReliableChange(ch)
  <2>1. PICK n \in DOMAIN AggregateChanges(A) : AggregateChanges(A)[n] = ch
    BY <1>4 DEF ToSet
  <2>2. ch.loc \in Locations /\ Eligible(A) # <<>>
    BY <1>2, <2>1 DEF Amends
  <2>3. ch.doc = AggregateOf(A, ch.loc).doc /\ AggregateOf(A, ch.loc).outcome = "wrote"
    BY <2>1, AggregateChangeIs
  <2>4. HasStatements(ch.doc, EligibleClaims(A))
    BY <2>2, <2>3, AggregateHasThem
  <2> QED
    BY <1>0, <2>2, <2>4 DEF ReliableChange, HasStatements
<1>5. ReliableChange(IndexChange(A))
  <2>1. IndexChange(A).loc = "index.json" /\ IndexChange(A).doc = IndexAfter(A)
    BY DEF IndexChange
  <2>2. Filing(IndexAfter(A))
    BY <1>0, IndexFiles
  <2> QED
    BY <2>1, <2>2 DEF ReliableChange
<1> QED
  BY <1>1, <1>2, <1>3, <1>4, <1>5, PlanHas

-----------------------------------------------------------------------------
(* A plan written whole.                                                   *)

Proposing(A) ==
  /\ Filed /\ Reads /\ Documents /\ RelyOn /\ Filing(index)
  /\ settings \in Settings /\ runs \in Nat /\ AreFindings(A) /\ ~AggregatesRefused(A)

\* Where each change is from.
FromProduct(A, ch) == \E i \in ToPropose(A) : /\ ch.loc = Location(Products[i]) /\ ch.doc = Merged(A, Products[i]).doc
                                              /\ Merged(A, Products[i]).outcome = "wrote"
FromAggregate(A, ch) == /\ ch.loc \in ToSet(settings.aggregates) /\ Eligible(A) # <<>>
                        /\ ch.doc = AggregateOf(A, ch.loc).doc /\ AggregateOf(A, ch.loc).outcome = "wrote"

\* Each change is that of a product, of an aggregate or of the index; and
\* whatever a merge wrote is there.
LEMMA ChangesAre ==
  ASSUME NEW A, Proposing(A)
  PROVE  /\ IsList(Plan(A)) /\ Planned(Plan(A), index, disk)
         /\ \A ch \in ToSet(Plan(A)) : FromProduct(A, ch) \/ FromAggregate(A, ch) \/ ch = IndexChange(A)
         /\ \A i \in ToPropose(A) : Merged(A, Products[i]).outcome = "wrote" =>
              /\ \E ch \in ToSet(Plan(A)) : ch.loc = Location(Products[i]) /\ ch.doc = Merged(A, Products[i]).doc
              /\ Indexed(Products[i]) = {} => IndexChange(A) \in ToSet(Plan(A))
         /\ \A l \in ToSet(settings.aggregates) : Eligible(A) # <<>> /\ AggregateOf(A, l).outcome = "wrote" =>
              \E ch \in ToSet(Plan(A)) : ch.loc = l /\ ch.doc = AggregateOf(A, l).doc
         /\ Eligible(A) # <<>> => \A l \in ToSet(settings.aggregates) : \A i \in ToPropose(A) :
              Merged(A, Products[i]).outcome = "wrote" => Location(Products[i]) # l
<1> DEFINE D == DocumentChanges(A)
           C == AggregateChanges(A)
           W == Writes(A)
           P == Plan(A)
<1>0. IsFiniteSet(A) /\ Filed /\ Reads /\ Documents /\ settings \in Settings /\ ~AggregatesRefused(A)
  BY DEF Proposing, AreFindings
<1>1. IsList(D) /\ DOMAIN D = DOMAIN W
  BY <1>0, DocumentsAmended
<1>2. IsList(C)
  BY <1>0, AggregatesAmended
<1>3. IsList(P) /\ Planned(P, index, disk)
  BY <1>0, PlanIsPlanned
<1>4. /\ ToSet(D) \cup ToSet(C) \subseteq ToSet(P)
      /\ \A ch \in ToSet(P) : ch \in ToSet(D) \/ ch \in ToSet(C) \/ ch = IndexChange(A)
      /\ IndexTouched(A) \/ ~UsesHub => ToSet(D) \cup ToSet(C) = {} \/ IndexChange(A) \in ToSet(P)
  BY <1>1, <1>2, PlanHas
<1>5. \A n \in DOMAIN W : D[n].loc = Location(W[n]) /\ D[n].doc = Merged(A, W[n]).doc
  BY DEF DocumentChanges
<1>6. /\ \A n \in DOMAIN W : \E i \in ToPropose(A) : W[n] = Products[i] /\ Merged(A, Products[i]).outcome = "wrote"
      /\ \A i \in ToPropose(A) : Merged(A, Products[i]).outcome = "wrote" => \E n \in DOMAIN W : W[n] = Products[i]
  BY WritesAre
<1>7. ToSet(D) = {D[n] : n \in DOMAIN D} /\ ToSet(C) = {C[n] : n \in DOMAIN C}
  BY DEF ToSet
<1>8. /\ \A n \in DOMAIN C : FromAggregate(A, C[n])
      /\ \A l \in ToSet(settings.aggregates) :
           Eligible(A) # <<>> /\ AggregateOf(A, l).outcome = "wrote" => \E n \in DOMAIN C : C[n].loc = l
  BY <1>0, AggregateChangeIs DEF FromAggregate
<1>9. IndexTouched(A) <=> \E n \in DOMAIN W : Indexed(W[n]) = {}
  BY DEF IndexTouched
<1>10. \A l \in ToSet(settings.aggregates) : Eligible(A) # <<>> => \A n \in DOMAIN D : D[n].loc # l
  <2> SUFFICES ASSUME NEW k \in DOMAIN settings.aggregates, Eligible(A) # <<>>, NEW n \in DOMAIN D
               PROVE  D[n].loc # settings.aggregates[k]
    BY DEF ToSet
  <2>1. ~AggregateRefused(A, settings.aggregates[k])
    BY <1>0 DEF AggregatesRefused
  <2> QED
    BY <2>1 DEF AggregateRefused
<1> HIDE DEF D, C, W, P
<1>11. ASSUME NEW ch \in ToSet(P) PROVE FromProduct(A, ch) \/ FromAggregate(A, ch) \/ ch = IndexChange(A)
  <2>1. CASE ch \in ToSet(D)
    <3>1. PICK n \in DOMAIN D : D[n] = ch
      BY <1>7, <2>1
    <3>2. PICK i \in ToPropose(A) : W[n] = Products[i] /\ Merged(A, Products[i]).outcome = "wrote"
      BY <1>1, <1>6, <3>1
    <3> QED
      BY <1>1, <1>5, <3>1, <3>2 DEF FromProduct
  <2>2. CASE ch \in ToSet(C)
    BY <1>7, <1>8, <2>2
  <2> QED
    BY <1>4, <2>1, <2>2
<1>12. ASSUME NEW i \in ToPropose(A), Merged(A, Products[i]).outcome = "wrote"
       PROVE  /\ \E ch \in ToSet(P) : ch.loc = Location(Products[i]) /\ ch.doc = Merged(A, Products[i]).doc
              /\ Indexed(Products[i]) = {} => IndexChange(A) \in ToSet(P)
              /\ Eligible(A) # <<>> => \A l \in ToSet(settings.aggregates) : Location(Products[i]) # l
  <2>1. PICK n \in DOMAIN W : W[n] = Products[i]
    BY <1>6, <1>12
  <2>2. D[n] \in ToSet(P) /\ D[n] \in ToSet(D) /\ D[n].loc = Location(Products[i]) /\ D[n].doc = Merged(A, Products[i]).doc
    BY <1>1, <1>4, <1>5, <1>7, <2>1
  <2>3. Indexed(Products[i]) = {} => IndexChange(A) \in ToSet(P)
    BY <1>4, <1>9, <2>1, <2>2
  <2>4. Eligible(A) # <<>> => \A l \in ToSet(settings.aggregates) : Location(Products[i]) # l
    BY <1>1, <1>10, <2>1, <2>2
  <2> QED
    BY <2>2, <2>3, <2>4
<1>13. ASSUME NEW l \in ToSet(settings.aggregates), Eligible(A) # <<>>, AggregateOf(A, l).outcome = "wrote"
       PROVE  \E ch \in ToSet(P) : ch.loc = l /\ ch.doc = AggregateOf(A, l).doc
  <2>1. PICK n \in DOMAIN C : C[n].loc = l
    BY <1>8, <1>13
  <2>2. C[n] \in ToSet(P) /\ C[n].doc = AggregateOf(A, l).doc
    BY <1>4, <1>7, <1>8, <2>1 DEF FromAggregate
  <2> QED
    BY <2>1, <2>2
<1> QED
  BY <1>3, <1>11, <1>12, <1>13 DEF P

\* Every aggregate has every claim.
LEMMA AggregateLeft ==
  ASSUME NEW A, Proposing(A), Eligible(A) # <<>>, NEW l \in ToSet(settings.aggregates)
  PROVE  HasStatements(Applied(Plan(A)).disk[l], EligibleClaims(A))
<1> DEFINE P == Plan(A)
           m == AggregateOf(A, l)
           after == Applied(P)
           claims == EligibleClaims(A)
<1>1. /\ IsList(P) /\ Planned(P, index, disk)
      /\ \A ch \in ToSet(P) : FromProduct(A, ch) \/ FromAggregate(A, ch) \/ ch = IndexChange(A)
      /\ m.outcome = "wrote" => \E ch \in ToSet(P) : ch.loc = l /\ ch.doc = m.doc
      /\ \A i \in ToPropose(A) : Merged(A, Products[i]).outcome = "wrote" => Location(Products[i]) # l
  BY ChangesAre
<1>2. l \in Locations /\ "index.json" \notin Locations
  BY HubAssumption DEF Proposing, ToSet
<1>3. /\ m = MergeOpenVEX(disk[l], claims, Today)
      /\ m.outcome = "wrote" => HasStatements(m.doc, claims)
      /\ m.outcome = "nothing" => HasStatements(disk[l], claims)
  BY <1>2, AggregateHasThem DEF Proposing
<1>4. m.outcome \notin {"declined", "unreadable"}
  <2>1. PICK i \in DOMAIN settings.aggregates : settings.aggregates[i] = l
    BY DEF ToSet
  <2> QED
    BY <2>1 DEF Proposing, AggregatesRefused, AggregateRefused
<1>5. m.outcome \in {"wrote", "nothing", "declined", "unreadable"}
  <2> HIDE DEF m, claims
  <2>1. m \in {Refusal("declined"), Refusal("unreadable"), Refusal("nothing")} \/ \E d : m = Wrote(d)
    BY <1>3 DEF MergeOpenVEX
  <2> QED
    BY <2>1 DEF Refusal, Wrote
<1>6. /\ \A ch \in ToSet(P) : ch.loc \in Locations => after.disk[ch.loc] = ch.doc
      /\ (\A ch \in ToSet(P) : ch.loc # l) => after.disk[l] = disk[l]
  BY <1>1, <1>2, AppliedAt
<1>7. CASE m.outcome = "wrote"
  <2>1. after.disk[l] = m.doc
    <3> HIDE DEF P, m, after
    <3> QED
      BY <1>1, <1>2, <1>6, <1>7
  <2> QED
    BY <1>3, <1>7, <2>1
<1>8. CASE m.outcome = "nothing"
  <2>1. ASSUME NEW ch \in ToSet(P) PROVE ch.loc # l
    <3>1. IndexChange(A).loc # l
      BY <1>2 DEF IndexChange
    <3>2. FromProduct(A, ch) => ch.loc # l
      BY <1>1 DEF FromProduct
    <3>3. FromAggregate(A, ch) => ch.loc # l
      BY <1>8 DEF FromAggregate
    <3> QED
      BY <1>1, <3>1, <3>2, <3>3
  <2>2. after.disk[l] = disk[l]
    <3> HIDE DEF P, after
    <3> QED
      BY <1>6, <2>1
  <2> QED
    BY <1>3, <1>8, <2>2
<1> QED
  BY <1>4, <1>5, <1>7, <1>8

\* The document of a product that is recorded has what is fresh.
LEMMA ProductLeft ==
  ASSUME NEW A, Proposing(A), NEW i \in ToPropose(A), Merged(A, Products[i]).outcome \in {"wrote", "nothing"}
  PROVE  HasIn(Applied(Plan(A)).disk[Location(Products[i])], Products[i], Fresh(A, Products[i]))
<1> DEFINE P == Plan(A)
           p == Products[i]
           l == Location(p)
           m == Merged(A, p)
           after == Applied(P)
           claims == Fresh(A, p)
<1>1. /\ IsList(P) /\ Planned(P, index, disk)
      /\ \A ch \in ToSet(P) : FromProduct(A, ch) \/ FromAggregate(A, ch) \/ ch = IndexChange(A)
      /\ m.outcome = "wrote" => \E ch \in ToSet(P) : ch.loc = l /\ ch.doc = m.doc
  BY ChangesAre
<1>2. p \in ToSet(Products) /\ Ensured(p) /\ l \in Locations /\ "index.json" \notin Locations
  BY ProductMerged, HubAssumption DEF Proposing, AreFindings
<1>3. /\ m.outcome = "wrote" => HasIn(m.doc, p, claims)
      /\ m.outcome = "nothing" => HasIn(disk[l], p, claims)
  BY ProductHasThem DEF Proposing
<1>4. /\ \A ch \in ToSet(P) : ch.loc \in Locations => after.disk[ch.loc] = ch.doc
      /\ (\A ch \in ToSet(P) : ch.loc # l) => after.disk[l] = disk[l]
  BY <1>1, <1>2, AppliedAt
<1> HIDE DEF P, after
<1>5. CASE m.outcome = "wrote"
  <2>1. after.disk[l] = m.doc
    <3> HIDE DEF m, l
    <3> QED
      BY <1>1, <1>2, <1>4, <1>5
  <2> QED
    BY <1>3, <1>5, <2>1 DEF after, P
<1>6. CASE m.outcome = "nothing"
  <2>1. HasIn(disk[l], p, claims)
    BY <1>3, <1>6
  <2>2. ASSUME NEW ch \in ToSet(P), ch.loc = l PROVE FromAggregate(A, ch)
    <3>1. IndexChange(A).loc = "index.json"
      BY DEF IndexChange
    <3>2. ~FromProduct(A, ch)
      <4> SUFFICES ASSUME NEW j \in ToPropose(A), ch.loc = Location(Products[j]), Merged(A, Products[j]).outcome = "wrote"
                   PROVE  FALSE
        BY DEF FromProduct
      <4>1. Products[j] \in ToSet(Products) /\ Ensured(Products[j])
        BY ProductMerged DEF Proposing, AreFindings
      <4>2. Products[j] = p
        BY <1>2, <2>2, <4>1, PlacesApart DEF Proposing
      <4> QED
        BY <1>6, <4>2
    <3> QED
      BY <1>1, <1>2, <2>2, <3>1, <3>2
  <2>3. CASE \A ch \in ToSet(P) : ch.loc # l
    BY <1>4, <2>1, <2>3 DEF after, P
  <2>4. CASE \E ch \in ToSet(P) : ch.loc = l
    <3>1. PICK ch \in ToSet(P) : ch.loc = l
      BY <2>4
    <3>2. FromAggregate(A, ch) /\ after.disk[l] = ch.doc
      BY <1>2, <1>4, <2>2, <3>1
    <3> DEFINE more == EligibleClaims(A)
               a == MergeOpenVEX(disk[l], more, Today)
    <3>3. Claimed(more) /\ a.outcome = "wrote" /\ after.disk[l] = a.doc
      <4>1. Claimed(EligibleClaims(A)) /\ AggregateOf(A, l) = a
        BY <1>2, <3>2, AggregateHasThem DEF Proposing, FromAggregate
      <4> QED
        BY <3>1, <3>2, <4>1 DEF FromAggregate
    <3> HIDE DEF more
    <3>4. CASE settings.format = "csaf"
      <4>1. disk[l].kind = "csaf"
        BY <2>1, <3>4 DEF HasIn, HasAdvisory
      <4>2. a = Refusal("declined")
        BY <4>1 DEF MergeOpenVEX
      <4> QED
        BY <3>3, <4>2 DEF Refusal
    <3>5. CASE settings.format # "csaf"
      <4>1. HasStatements(disk[l], claims)
        BY <2>1, <3>5 DEF HasIn
      <4>2. HasStatements(a.doc, claims)
        <5> DEFINE d == disk[l]
        <5>1. HasStatements(d, claims) /\ Claimed(more) /\ MergeOpenVEX(d, more, Today).outcome = "wrote"
          BY <3>3, <4>1
        <5> HIDE DEF d, claims
        <5>2. HasStatements(MergeOpenVEX(d, more, Today).doc, claims)
          BY <5>1, TodayIs, StatementsStayIn DEF Proposing
        <5> QED
          BY <5>2 DEF d
      <4>3. HasStatements(after.disk[l], claims)
        BY <3>3, <4>2
      <4> QED
        BY <3>5, <4>3 DEF HasIn, after, P
    <3> QED
      BY <3>4, <3>5
  <2> QED
    BY <2>3, <2>4
<1> QED
  BY <1>5, <1>6

\* What the hub says it goes on saying.
LEMMA NothingUnsaid ==
  ASSUME NEW A, Proposing(A), NEW l \in Locations
  PROVE  Reliable(Applied(Plan(A)).disk[l]) /\ Said(disk[l]) \subseteq Said(Applied(Plan(A)).disk[l])
<1> DEFINE P == Plan(A)
           after == Applied(P)
<1>1. IsList(P) /\ Planned(P, index, disk) /\ \A ch \in ToSet(P) : ReliableChange(ch)
  BY ChangesAre, PlanIsReliable DEF Proposing
<1>2. /\ \A ch \in ToSet(P) : ch.loc \in Locations => after.disk[ch.loc] = ch.doc
      /\ (\A ch \in ToSet(P) : ch.loc # l) => after.disk[l] = disk[l]
  BY <1>1, AppliedAt
<1>3. "index.json" \notin Locations /\ Reliable(disk[l])
  BY HubAssumption DEF Proposing, RelyOn
<1> HIDE DEF P, after
<1>4. CASE \A ch \in ToSet(P) : ch.loc # l
  BY <1>2, <1>3, <1>4 DEF after, P
<1>5. CASE \E ch \in ToSet(P) : ch.loc = l
  <2>1. PICK ch \in ToSet(P) : ch.loc = l
    BY <1>5
  <2>2. PICK n \in DOMAIN P : P[n] = ch
    BY <2>1 DEF ToSet
  <2>3. Extends(disk[l], ch.doc)
    BY <1>1, <1>3, <2>1, <2>2 DEF Planned, DocumentPlanned
  <2>4. Reliable(ch.doc) /\ after.disk[l] = ch.doc
    BY <1>1, <1>2, <1>3, <2>1 DEF ReliableChange
  <2> QED
    BY <2>3, <2>4 DEF Extends, after, P
<1> QED
  BY <1>4, <1>5

\* The index points at the document of a product that is recorded.
LEMMA FoundThere ==
  ASSUME NEW A, Proposing(A), NEW i \in ToPropose(A),
         Merged(A, Products[i]).outcome \in {"wrote", "nothing"}, ~Orphan(Products[i])
  PROVE  LET after == Applied(Plan(A)) IN
         Lookup(after.index, after.disk, Products[i]) = after.disk[Location(Products[i])]
<1> DEFINE P == Plan(A)
           p == Products[i]
           l == Location(p)
           m == Merged(A, p)
           after == Applied(P)
           ix == after.index
<1>1. /\ IsList(P) /\ Planned(P, index, disk)
      /\ \A ch \in ToSet(P) : FromProduct(A, ch) \/ FromAggregate(A, ch) \/ ch = IndexChange(A)
      /\ m.outcome = "wrote" /\ Indexed(p) = {} => IndexChange(A) \in ToSet(P)
  BY ChangesAre
<1>2. p \in ToSet(Products) /\ l \in Locations /\ Merges(disk[l], m)
  BY ProductMerged DEF Proposing, AreFindings
<1>3. IndexChange(A).loc = "index.json" /\ IndexChange(A).doc = IndexAfter(A) /\ "index.json" \notin Locations
  BY HubAssumption DEF IndexChange
<1>4. /\ IndexChange(A) \in ToSet(P) => ix = IndexAfter(A)
      /\ (\A ch \in ToSet(P) : ch.loc # "index.json") => ix = index
  BY <1>1, <1>3, AppliedAt
<1>5. IndexChange(A) \notin ToSet(P) => \A ch \in ToSet(P) : ch.loc # "index.json"
  <2> SUFFICES ASSUME NEW ch \in ToSet(P), ch # IndexChange(A) PROVE ch.loc \in Locations
    BY <1>3
  <2>1. CASE FromProduct(A, ch)
    BY <2>1, ProductMerged DEF FromProduct, Proposing, AreFindings
  <2>2. CASE FromAggregate(A, ch)
    BY <2>2, HubAssumption DEF FromAggregate, Proposing, ToSet
  <2> QED
    BY <1>1, <2>1, <2>2
<1>6. /\ IndexAfter(A) \in Seq(Filings) /\ PointsAt(IndexAfter(A), p)
      /\ index \in Seq(Filings) /\ (Indexed(p) # {} => PointsAt(index, p))
  <2>1. index \in Seq(Filings)
    BY DEF Proposing, Filing, Filed
  <2> QED
    BY <2>1, IndexFiles, IndexedAt DEF Proposing, AreFindings
<1>7. IndexChange(A) \notin ToSet(P) => Indexed(p) # {}
  <2> SUFFICES ASSUME IndexChange(A) \notin ToSet(P), Indexed(p) = {} PROVE FALSE
    OBVIOUS
  <2>1. m.outcome = "nothing"
    BY <1>1
  <2>2. disk[l] # NoDoc
    BY <1>2, <2>1 DEF Merges
  <2>3. Raw(l) # NoDoc
    BY <1>2, <2>2 DEF Proposing, Reads
  <2> QED
    BY <2>3 DEF Orphan
<1> HIDE DEF P, after, ix, p, l, m
<1>8. ix \in Seq(Filings) /\ PointsAt(ix, p)
  BY <1>4, <1>5, <1>6, <1>7
<1>9. ix # BadIndex
  BY <1>8, ReaderAssumption
<1>10. EntriesOf(ix, p) # {} /\ EntriesOf(ix, p) \subseteq 1..Len(ix) /\ Len(ix) \in Nat /\ \A n \in EntriesOf(ix, p) : ix[n].loc = l
  BY <1>8 DEF PointsAt, l
<1>11. ix # <<>>
  BY <1>10, NoList
<1>12. Max(EntriesOf(ix, p)) \in EntriesOf(ix, p)
  <2> DEFINE E == EntriesOf(ix, p)
             N == Len(ix)
  <2>1. E \subseteq Nat /\ N \in Nat /\ (\A n \in E : n <= N) /\ E # {}
    BY <1>10
  <2> HIDE DEF E, N
  <2>2. Max(E) \in E
    BY <2>1, GreatestNumber
  <2> QED
    BY <2>2 DEF E
<1>13. ix[Max(EntriesOf(ix, p))].loc = l
  BY <1>10, <1>12
<1>14. Lookup(ix, after.disk, p) = after.disk[l]
  BY <1>2, <1>9, <1>10, <1>11, <1>13 DEF Lookup, Opens
<1> QED
  BY <1>14 DEF P, after, ix, p, l

\* A document has what speaks to a finding's component.
Told(f) == \E x \in Said(Lookup(index, disk, f.product)) : SpeaksUp(x, f.product, f.joins, f.sub)

\* A finding is answered if a document the reader is led to speaks to it.
LEMMA Answers ==
  ASSUME NEW ix, NEW dk, NEW f, Reliable(Lookup(ix, dk, f.product))
  PROVE  /\ (\E x \in Said(Lookup(ix, dk, f.product)) : SpeaksUp(x, f.product, f.joins, f.sub)) => Answer(ix, dk, f) # {}
         /\ Answer(ix, dk, f) # {} => \E x \in Said(Lookup(ix, dk, f.product)) : SpeaksUp(x, f.product, f.joins, f.sub)
<1> DEFINE d == Lookup(ix, dk, f.product)
<1>1. Answer(ix, dk, f) = IF Lost(d) THEN {} ELSE Match(d, f.product, f.joins, f.sub)
  BY DEF Answer, Lost
<1>2. Reliable(d)
  OBVIOUS
<1> HIDE DEF d
<1>3. CASE Lost(d)
  <2>1. Said(d) = {}
    BY <1>3, KindsAre DEF Lost, Said, NoDoc, Unreadable
  <2> QED
    BY <1>1, <1>3, <2>1 DEF d
<1>4. CASE ~Lost(d)
  <2>1. d.kind \in {"openvex", "csaf"} /\ DatedAll(ReadStatements(d))
    BY <1>2, <1>4, DocumentReads DEF Reliable, IsDocument, Lost
  <2>2. IsList(ReadStatements(d))
    BY <2>1 DEF DatedAll
  <2>3. /\ (\E x \in Said(d) : SpeaksUp(x, f.product, f.joins, f.sub)) => Match(d, f.product, f.joins, f.sub) # {}
        /\ Match(d, f.product, f.joins, f.sub) # {} => \E x \in Said(d) : SpeaksUp(x, f.product, f.joins, f.sub)
    BY <2>1, <2>2, Heard
  <2> QED
    BY <1>1, <1>4, <2>3 DEF d
<1> QED
  BY <1>3, <1>4

\* What has the claims of a product speaks to each, unless by an @id alone.
LEMMA HasSpeaks ==
  ASSUME NEW e, NEW p, NEW claims, HasIn(e, p, claims), Claimed(claims), NEW n \in 1..Len(claims), ~ByIdAlone(e, claims[n])
  PROVE  \E x \in Said(e) : SpeaksUp(x, claims[n].product, claims[n].ids, claims[n].sub)
<1> DEFINE c == claims[n]
<1>1. IsClaim(c) /\ Reliable(e)
  BY DEF Claimed, HasIn, HasAdvisory, HasStatements
<1>2. \/ e.kind = "openvex" /\ ListCovers(e.statements, c)
      \/ e.kind = "csaf" /\ Sound(e) /\ Answered(e, c)
  BY DEF HasIn, HasAdvisory, HasStatements, Has
<1> HIDE DEF c
<1>3. CASE e.kind = "openvex" /\ ListCovers(e.statements, c)
  <2>1. IsList(e.statements)
    BY <1>1, <1>3, KindsAre DEF Reliable, IsDocument
  <2> QED
    BY <1>1, <1>3, <2>1, StatementSpeaks DEF c
<1>4. CASE e.kind = "csaf" /\ Sound(e) /\ Answered(e, c)
  BY <1>1, <1>4, AdvisorySpeaks DEF c
<1> QED
  BY <1>2, <1>3, <1>4

\* The findings of a scan, with what the hub answered at the time: what answered
\* is still there to be read.
IsFinding(f) == /\ f = [product |-> f.product, sub |-> f.sub, vuln |-> f.vuln, ids |-> f.ids, joins |-> f.joins,
                        ruledOut |-> f.ruledOut, why |-> f.why]
                /\ f.ids # {}
Scanned(A) == \A a \in A : IsFinding(a.f) /\ (a.vex # {} => Told(a.f))
ByEveryName(f) == [f EXCEPT !.joins = f.joins \cup f.ids]

\* A component that was spoken to by some of its names is spoken to by all.
LEMMA ByMoreNames ==
  ASSUME NEW f, IsFinding(f)
  PROVE  /\ ByEveryName(f).product = f.product /\ ByEveryName(f).sub = f.sub
         /\ ByEveryName(f).joins = f.joins \cup f.ids
         /\ \A x : SpeaksUp(x, f.product, f.joins, f.sub) \/ SpeaksUp(x, f.product, f.ids, f.sub)
                     => SpeaksUp(x, f.product, f.joins \cup f.ids, f.sub)
<1>1. "joins" \in DOMAIN f
  BY DEF IsFinding
<1>2. "product" \in DOMAIN f /\ "sub" \in DOMAIN f
  BY DEF IsFinding
<1>3. /\ ByEveryName(f).product = f.product /\ ByEveryName(f).sub = f.sub
      /\ ByEveryName(f).joins = f.joins \cup f.ids
  BY <1>1, <1>2 DEF ByEveryName
<1> QED
  BY <1>3 DEF SpeaksUp

\* What was covered is said where the product's document is.
LEMMA CoveredThere ==
  ASSUME NEW A, Proposing(A), NEW f, Told(f)
  PROVE  /\ Location(f.product) \in Locations
         /\ \E x \in Said(disk[Location(f.product)]) : SpeaksUp(x, f.product, f.joins, f.sub)
<1> DEFINE p == f.product
<1>1. PICK x \in Said(Lookup(index, disk, p)) : SpeaksUp(x, p, f.joins, f.sub)
  BY DEF Told
<1>2. Lookup(index, disk, p) # NoDoc
  BY <1>1, KindsAre DEF Said, NoDoc
<1>3. /\ Opens(index) /\ EntriesOf(index, p) # {}
      /\ index[Max(EntriesOf(index, p))].loc \in Locations
      /\ Lookup(index, disk, p) = disk[index[Max(EntriesOf(index, p))].loc]
  BY <1>2 DEF Lookup
<1>4. Indexed(p) = EntriesOf(index, p) /\ Indexed(p) # {}
  BY <1>3 DEF Proposing, Reads, Indexed
<1>5. PointsAt(index, p)
  BY <1>4, IndexedAt DEF Proposing
<1>6. Max(EntriesOf(index, p)) \in EntriesOf(index, p)
  <2> DEFINE E == EntriesOf(index, p)
             N == Len(index)
  <2>1. DOMAIN index = 1..Len(index) /\ Len(index) \in Nat
    BY ListHas DEF Proposing, Filed, IsIndex, IsList
  <2>2. E \subseteq Nat /\ N \in Nat /\ (\A n \in E : n <= N) /\ E # {}
    BY <1>3, <1>5, <2>1 DEF PointsAt
  <2> HIDE DEF E, N
  <2>3. Max(E) \in E
    BY <2>2, GreatestNumber
  <2> QED
    BY <2>3 DEF E
<1>7. index[Max(EntriesOf(index, p))].loc = Location(p)
  BY <1>5, <1>6 DEF PointsAt
<1> QED
  BY <1>1, <1>3, <1>7

\* A product that is recorded is one of those to propose.
LEMMA RecordedAre ==
  ASSUME NEW A, NEW p \in Recorded(A)
  PROVE  \E i \in ToPropose(A) : Products[i] = p
<1> DEFINE T == ToSet(Products)
           P == ToPropose(A)
<1>1. p \in ToSet(Proposed(A)) /\ P \subseteq DOMAIN Products
  BY DEF Recorded, ToPropose
<1>2. Products \in Seq(T) /\ Proposed(A) = Select(Products, P)
  BY ProductsAre DEF Proposed
<1> HIDE DEF T, P
<1>3. ToSet(Select(Products, P)) = {Products[i] : i \in P \cap DOMAIN Products}
  BY <1>2, Selected
<1> QED
  BY <1>1, <1>2, <1>3 DEF P

\* Each claim of a product that is recorded is answered, unless an @id alone
\* covers it.
LEMMA ClaimantAnswered ==
  ASSUME NEW A, Proposing(A), Scanned(A), NEW p \in Recorded(A), NEW a \in Claimants(A, p),
         ~ByIdAlone(Applied(Plan(A)).disk[Location(p)], a.f)
  PROVE  LET after == Applied(Plan(A)) IN Answer(after.index, after.disk, ByEveryName(a.f)) # {}
<1> DEFINE after == Applied(Plan(A))
           l == Location(p)
           c == ClaimOf(a)
           f == a.f
           e == ByEveryName(f)
           d == after.disk[l]
<1>1. PICK i \in ToPropose(A) : Products[i] = p
  BY RecordedAre
<1>2. Merged(A, p).outcome \in {"wrote", "nothing"} /\ ~Orphan(p)
  BY DEF Recorded
<1>3. a \in A /\ f.product = p /\ c \in ToSet(Claims(A, p))
  BY DEF Claimants
<1>4. c.ids = f.ids /\ c.product = f.product /\ c.sub = f.sub /\ (c.covered => a.vex # {})
  BY DEF ClaimOf
<1>5. IsFinding(f) /\ (a.vex # {} => Told(f))
  BY <1>3 DEF Scanned
<1>6. l \in Locations /\ p \in ToSet(Products)
  BY <1>1, ProductMerged DEF Proposing, AreFindings
<1>7. Lookup(after.index, after.disk, p) = d
  BY <1>1, <1>2, FoundThere
<1>8. Reliable(d) /\ Said(disk[l]) \subseteq Said(d)
  BY <1>6, NothingUnsaid
<1>9. c \in ToSet(Fresh(A, p)) \/ c.covered
  BY <1>3, ClaimsAreOfFindings DEF Proposing, AreFindings
<1>10. /\ e.product = p /\ e.sub = f.sub /\ e.joins = f.joins \cup f.ids
       /\ \A x : SpeaksUp(x, p, f.joins, f.sub) \/ SpeaksUp(x, p, f.ids, f.sub) => SpeaksUp(x, p, e.joins, f.sub)
  BY <1>3, <1>5, ByMoreNames
<1>11. HasIn(d, p, Fresh(A, p))
  BY <1>1, <1>2, ProductLeft
<1>12. Claimed(Fresh(A, p)) /\ IsList(Fresh(A, p))
  BY <1>6, TheyAreClaims, ClaimsAreOfFindings DEF Proposing, AreFindings
<1>16. ~ByIdAlone(d, c)
  <2>1. ~ByIdAlone(d, f)
    OBVIOUS
  <2> HIDE DEF d, c, f
  <2> QED
    BY <1>4, <2>1 DEF ByIdAlone, StatementCovers, NamesExactly, CoversComponent
<1> HIDE DEF after, l, c, f, e, d
<1>13. \E x \in Said(d) : SpeaksUp(x, p, e.joins, e.sub)
  <2>1. CASE c \in ToSet(Fresh(A, p))
    <3> DEFINE claims == Fresh(A, p)
    <3>1. PICK n \in 1..Len(claims) : claims[n] = c
      BY <1>12, <2>1, ListHas DEF ToSet, IsList
    <3>2. HasIn(d, p, claims) /\ Claimed(claims) /\ ~ByIdAlone(d, claims[n])
      BY <1>11, <1>12, <1>16, <3>1
    <3> HIDE DEF claims
    <3>3. \E x \in Said(d) : SpeaksUp(x, claims[n].product, claims[n].ids, claims[n].sub)
      BY <3>2, HasSpeaks
    <3>4. \E x \in Said(d) : SpeaksUp(x, p, f.ids, f.sub)
      BY <1>3, <1>4, <3>1, <3>3
    <3> QED
      BY <1>10, <3>4
  <2>2. CASE c.covered
    <3>1. \E x \in Said(disk[l]) : SpeaksUp(x, p, f.joins, f.sub)
      BY <1>3, <1>4, <1>5, <2>2, CoveredThere DEF l
    <3> QED
      BY <1>8, <1>10, <3>1
  <2> QED
    BY <1>9, <2>1, <2>2
<1>14. Reliable(Lookup(after.index, after.disk, e.product))
  BY <1>7, <1>8, <1>10
<1>15. Answer(after.index, after.disk, e) # {}
  BY <1>7, <1>10, <1>13, <1>14, Answers
<1> QED
  BY <1>15 DEF after, e, f

\* A plan that is written whole reads back.
LEMMA PlanRoundTrips ==
  ASSUME NEW A, Proposing(A), Scanned(A)
  PROVE  RoundTrips(A, Plan(A))
<1> DEFINE after == Applied(Plan(A))
<1>1. \A p \in Recorded(A) : \A a \in Claimants(A, p) : ~ByIdAlone(after.disk[Location(p)], a.f) =>
        Answer(after.index, after.disk, [a.f EXCEPT !.joins = a.f.joins \cup a.f.ids]) # {}
  BY ClaimantAnswered DEF ByEveryName
<1>2. ASSUME NEW p \in Recorded(A)
      PROVE  LET doc == after.disk[Location(p)] IN
             /\ settings.format = "csaf" => MergeCSAF(doc, p, Fresh(A, p), Today + 1).outcome = "nothing"
             /\ settings.format # "csaf" => MergeOpenVEX(doc, Fresh(A, p), Today + 1).outcome = "nothing"
  <2> DEFINE doc == after.disk[Location(p)]
             claims == Fresh(A, p)
  <2>1. PICK i \in ToPropose(A) : Products[i] = p
    BY RecordedAre
  <2>2. HasIn(doc, p, claims)
    BY <2>1, ProductLeft DEF Recorded
  <2>3. p \in ToSet(Products)
    BY <2>1, ProductMerged DEF Proposing, AreFindings
  <2>4. Claimed(claims)
    BY <2>3, TheyAreClaims DEF Proposing
  <2> HIDE DEF doc, claims
  <2>5. settings.format = "csaf" => MergeCSAF(doc, p, claims, Today + 1).outcome = "nothing"
    BY <2>2, <2>4, AdvisoryOnceMore DEF HasIn, Claimed
  <2>6. settings.format # "csaf" => MergeOpenVEX(doc, claims, Today + 1).outcome = "nothing"
    BY <2>2, <2>4, StatementsOnceMore DEF HasIn, Claimed
  <2> QED
    BY <2>5, <2>6 DEF doc, claims
<1>3. ASSUME NEW l \in ToSet(settings.aggregates), NEW c \in ToSet(EligibleClaims(A))
      PROVE  \E i \in DOMAIN after.disk[l].statements : StatementCovers(after.disk[l].statements[i], c)
  <2> DEFINE claims == EligibleClaims(A)
             d == after.disk[l]
  <2>1. /\ IsList(claims) /\ (Eligible(A) # <<>> <=> Len(claims) # 0)
    BY EligibleClaimsAre DEF Proposing, AreFindings
  <2>2. /\ Len(claims) \in Nat /\ \E n \in 1..Len(claims) : claims[n] = c
    BY <2>1, ListHas DEF ToSet, IsList
  <2>3. Eligible(A) # <<>>
    BY <2>1, <2>2
  <2>4. HasStatements(d, claims)
    BY <2>3, AggregateLeft
  <2> HIDE DEF claims, d
  <2>5. d.kind = "openvex" /\ ListCovers(d.statements, c)
    BY <2>2, <2>4 DEF HasStatements, Has
  <2> QED
    BY <2>5 DEF ListCovers, d
<1> HIDE DEF after
<1>4. RoundTrips(A, Plan(A))
  BY <1>1, <1>2, <1>3 DEF RoundTrips, after
<1> QED
  BY <1>4

-----------------------------------------------------------------------------
(* What a reader can rely on, at every step.                               *)

RInv ==
  /\ Filing(index) /\ RelyOn
  /\ phase = "writing" => \A ch \in ToSet(plan) : ReliableChange(ch)
  /\ phase = "scanned" => Scanned(findings)

\* What is not there, or cannot be read, misleads nobody.
LEMMA LostIsReliable == Reliable(NoDoc) /\ Reliable(Unreadable)
<1>1. IsDocument(NoDoc) /\ IsDocument(Unreadable)
  BY DEF IsDocument
<1> QED
  BY <1>1, KindsAre DEF Reliable, Theirs, Dated, DefinesWhatItLists

\* What a reader is led to is a document of the hub.
LEMMA LedTo ==
  ASSUME RelyOn, NEW p
  PROVE  Reliable(Lookup(index, disk, p))
<1>1. Lookup(index, disk, p) = NoDoc \/ \E l \in Locations : Lookup(index, disk, p) = disk[l]
  BY DEF Lookup
<1> QED
  BY <1>1, LostIsReliable DEF RelyOn

\* The hub is started with what can be relied on.
LEMMA InitRInv == Init => RInv
<1> SUFFICES ASSUME Init PROVE RInv
  OBVIOUS
<1>1. PICK h \in Hubs : index = h.index /\ disk = h.disk /\ (settings.hub \/ (h.index = <<>> /\ \A l \in Locations : h.disk[l] = NoDoc))
  BY DEF Init
<1>2. phase = "idle"
  BY DEF Init
<1>3. /\ IsIndex(h.index)
      /\ \A l \in Locations :
           /\ IsDocument(h.disk[l])
           /\ h.disk[l].kind = "csaf" /\ h.disk[l].id \in ToSet(Products) => WritersIds(h.disk[l])
  BY HubAssumption
<1>4. /\ h.index # BadIndex => OnePlaceEach(h.index)
      /\ \A l \in Locations : Dated(h.disk[l]) /\ DefinesWhatItLists(h.disk[l])
  BY ReaderAssumption
<1>5. RelyOn
  BY <1>1, <1>3, <1>4 DEF RelyOn, Reliable, Theirs
<1>6. ASSUME h.index # BadIndex PROVE h.index \in Seq(Filings)
  <2> DEFINE ix == h.index
             names == {ix[i].product : i \in DOMAIN ix}
  <2>1. IsList(ix) /\ \A i \in DOMAIN ix : ix[i] = [product |-> ix[i].product, loc |-> ix[i].loc]
                                            /\ ix[i].loc \in Locations \cup {Outside}
    BY <1>3, <1>6 DEF IsIndex
  <2>2. Len(ix) \in Nat /\ DOMAIN ix = 1..Len(ix) /\ ix = [i \in 1..Len(ix) |-> ix[i]]
    <3>1. ix \in Seq(ToSet(ix))
      BY <2>1 DEF IsList
    <3> QED
      BY <3>1, <2>1, ListHas, SeqDef
  <2>3. names \subseteq UNION {{k.index[i].product : i \in DOMAIN k.index} : k \in {k \in Hubs : k.index # BadIndex}}
    BY <1>6
  <2>4. \A i \in DOMAIN ix : ix[i] \in Filings
    <3> SUFFICES ASSUME NEW i \in DOMAIN ix PROVE ix[i] \in Filings
      OBVIOUS
    <3>1. ix[i].product \in names
      OBVIOUS
    <3>2. ix[i].product \in UNION {{k.index[j].product : j \in DOMAIN k.index} : k \in {k \in Hubs : k.index # BadIndex}}
      BY <2>3, <3>1
    <3> HIDE DEF ix
    <3> QED
      BY <2>1, <3>2 DEF Filings
  <2> HIDE DEF ix
  <2>5. ix \in [1..Len(ix) -> Filings]
    BY <2>2, <2>4
  <2>6. ix \in Seq(Filings)
    BY <2>2, <2>5, SeqDef
  <2> QED
    BY <2>6 DEF ix
<1>7. Filing(index)
  BY <1>1, <1>4, <1>6 DEF Filing
<1> QED
  BY <1>2, <1>5, <1>7 DEF RInv

\* A scan tells of what the documents say.
LEMMA ScanRelies ==
  ASSUME IInv, RInv, NEW F \in Scans, NEW lost, Scan(F, lost)
  PROVE  RInv'
<1>1. /\ findings' = Annotated(F, runs + 1, lost) /\ phase' = "scanned" /\ index' = index /\ disk' = disk
      /\ runs' = runs + 1
  BY DEF Scan
<1>2. Filing(index)' /\ RelyOn'
  BY <1>1 DEF RInv, Filing, RelyOn, Reliable
<1>3. ASSUME NEW a \in findings' PROVE IsFinding(a.f) /\ (a.vex # {} => Told(a.f)')
  <2>1. PICK f \in F : a = [f |-> f, vex |-> IF Given(runs + 1) /\ f.product \notin lost THEN Answer(index, disk, f) ELSE {}]
    BY <1>1, <1>3 DEF Annotated
  <2>2. a.f = f /\ (a.vex # {} => Answer(index, disk, f) # {})
    BY <2>1
  <2>3. IsFinding(f)
    BY ReaderAssumption DEF IsFinding
  <2>4. Reliable(Lookup(index, disk, f.product))
    BY LedTo DEF RInv
  <2>5. Answer(index, disk, f) # {} => Told(f)
    BY <2>4, Answers DEF Told
  <2>6. Told(f) => Told(f)'
    BY <1>1 DEF Told
  <2> QED
    BY <2>2, <2>3, <2>5, <2>6
<1>4. Scanned(findings)'
  BY <1>3 DEF Scanned
<1> QED
  BY <1>1, <1>2, <1>4 DEF RInv

\* What a document was told to say it still says.
LEMMA StillTold ==
  ASSUME index' = index, \A l \in Locations : Said(disk[l]) \subseteq Said(disk'[l]), NEW f, Told(f)
  PROVE  Told(f)'
<1> DEFINE p == f.product
<1>1. PICK x \in Said(Lookup(index, disk, p)) : SpeaksUp(x, p, f.joins, f.sub)
  BY DEF Told
<1>2. Lookup(index, disk, p) # NoDoc
  BY <1>1, KindsAre
<1>3. PICK l \in Locations : Lookup(index, disk, p) = disk[l] /\ Lookup(index', disk', p) = disk'[l]
  BY <1>2 DEF Lookup
<1>4. x \in Said(Lookup(index', disk', p))
  BY <1>1, <1>3
<1> QED
  BY <1>1, <1>4 DEF Told

\* The publisher dates its statement.
LEMMA StatementDated ==
  ASSUME NEW d, Reliable(d), d.kind = "openvex", NEW s \in Published, NEW ts \in Nat
  PROVE  Reliable(WithStatement(d, [s EXCEPT !.ts = ts]))
<1> DEFINE x == [s EXCEPT !.ts = ts]
           e == WithStatement(d, x)
<1>1. x.ts = ts
  <2>1. s = [ids |-> s.ids, also |-> s.also, products |-> s.products, status |-> s.status, why |-> s.why, ts |-> s.ts]
    BY ReaderAssumption
  <2>2. "ts" \in DOMAIN s
    BY <2>1
  <2> QED
    BY <2>2
<1>2. IsDocument(d) /\ d.ts \in Nat /\ \A i \in DOMAIN d.statements : d.statements[i].ts \in Nat
  BY DEF Reliable, Dated
<1>3. IsDocument(e) /\ e.kind = "openvex"
  BY <1>2, StatementPublished DEF SaysOn
<1>4. d = OpenVEX(d.ts, d.statements) /\ IsList(d.statements)
  BY <1>2, KindsAre DEF IsDocument
<1> DEFINE t == Append(d.statements, x)
<1>5. e.statements = t /\ e.ts = d.ts
  BY <1>4 DEF WithStatement, OpenVEX
<1>6. d.statements \in Seq(ToSet(d.statements)) /\ Len(d.statements) \in Nat /\ DOMAIN d.statements = 1..Len(d.statements)
  BY <1>4, ListHas DEF IsList
<1> HIDE DEF x
<1>7. \A i \in DOMAIN t : t[i] = x \/ (i \in DOMAIN d.statements /\ t[i] = d.statements[i])
  <2> DEFINE T == ToSet(d.statements) \cup {x}
  <2>1. d.statements \in Seq(T)
    BY <1>6 DEF T
  <2> HIDE DEF T
  <2>2. x \in T
    BY DEF T
  <2>3. /\ Len(t) = Len(d.statements) + 1
        /\ \A i \in 1..Len(d.statements) : t[i] = d.statements[i]
        /\ t[Len(d.statements) + 1] = x /\ DOMAIN t = 1..Len(t)
    BY <2>1, <2>2, <1>6, AppendProperties
  <2> QED
    BY <1>6, <2>3
<1>8. \A i \in DOMAIN t : t[i].ts \in Nat
  BY <1>1, <1>2, <1>7
<1> HIDE DEF e, t
<1> QED
  BY <1>2, <1>3, <1>5, <1>8 DEF Reliable, Theirs, Dated, DefinesWhatItLists, e, x

\* A statement of the publisher leaves a hub that can be relied on.
LEMMA PublishRelies ==
  ASSUME IInv, RInv, NEW s \in Published, NEW l \in Locations, Publish(s, l)
  PROVE  RInv'
<1> DEFINE x == [s EXCEPT !.ts = Today]
<1>1. /\ phase = "scanned" /\ phase' = phase /\ index' = index /\ findings' = findings /\ disk[l].kind = "openvex"
      /\ disk' = [disk EXCEPT ![l] = WithStatement(disk[l], x)]
  BY DEF Publish, WithStatement
<1>2. disk = [k \in Locations |-> disk[k]] /\ runs \in Nat
  BY DEF IInv, TypeOK
<1>3. Reliable(WithStatement(disk[l], x))
  BY <1>1, <1>2, TodayIs, StatementDated DEF RInv, RelyOn
<1>4. \A k \in Locations : Reliable(disk'[k])
  BY <1>1, <1>2, <1>3 DEF RInv, RelyOn
<1>5. RelyOn'
  BY <1>4 DEF RelyOn, Reliable
<1>6. \A k \in Locations : Said(disk[k]) \subseteq Said(disk'[k])
  BY <1>1, PublishKeeps
<1>7. ASSUME NEW a \in findings' PROVE IsFinding(a.f) /\ (a.vex # {} => Told(a.f)')
  BY <1>1, <1>6, StillTold DEF RInv, Scanned
<1> QED
  BY <1>1, <1>5, <1>7 DEF RInv, Scanned, Filing

\* What is proposed is proposed of what was scanned.
LEMMA ProposesOf ==
  ASSUME IInv, RInv, Propose, ~NothingToClaim(findings)
  PROVE  Proposing(findings) /\ Scanned(findings)
<1>1. phase = "scanned" /\ ~HubRefused /\ ~AggregatesRefused(findings)
  BY DEF Propose
<1>2. Filed /\ Reads /\ Documents
  BY <1>1, ScannedReads
<1>3. Scanned(findings)
  BY <1>1 DEF RInv
<1>4. AreFindings(findings)
  BY <1>3 DEF IInv, TypeOK, AreFindings, Scanned, IsFinding
<1> QED
  BY <1>1, <1>2, <1>3, <1>4 DEF Proposing, RInv, IInv, TypeOK

\* So does making a plan,
LEMMA ProposeRelies ==
  ASSUME IInv, RInv, Propose
  PROVE  RInv'
<1>1. /\ phase' = "writing" /\ index' = index /\ disk' = disk
      /\ plan' = IF NothingToClaim(findings) THEN <<>> ELSE Plan(findings)
  BY DEF Propose
<1>2. Filing(index)' /\ RelyOn'
  BY <1>1 DEF RInv, Filing, RelyOn, Reliable
<1>3. \A ch \in ToSet(plan') : ReliableChange(ch)
  <2>1. CASE NothingToClaim(findings)
    BY <1>1, <2>1 DEF ToSet
  <2>2. CASE ~NothingToClaim(findings)
    BY <1>1, <2>2, ProposesOf, PlanIsReliable DEF Proposing
  <2> QED
    BY <2>1, <2>2
<1> QED
  BY <1>1, <1>2, <1>3 DEF RInv

\* writing one of its files,
LEMMA WriteRelies ==
  ASSUME IInv, RInv, Write
  PROVE  RInv'
<1>1. /\ phase = "writing" /\ plan # <<>> /\ Put(Head(plan).loc, Head(plan).doc) /\ plan' = Tail(plan) /\ phase' = phase
  BY DEF Write
<1>2. IsList(plan) /\ disk = [l \in Locations |-> disk[l]]
  BY DEF IInv, TypeOK
<1>3. /\ plan \in Seq(ToSet(plan)) /\ Head(plan) \in ToSet(plan) /\ ToSet(Tail(plan)) \subseteq ToSet(plan)
  <2> DEFINE T == ToSet(plan)
             R == Tail(plan)
  <2>1. plan \in Seq(T)
    BY <1>2 DEF IsList
  <2> HIDE DEF T
  <2>2. R \in Seq(T) /\ Head(plan) \in T
    BY <1>1, <2>1, HeadTailProperties
  <2> HIDE DEF R
  <2>3. \A i \in DOMAIN R : R[i] \in T
    BY <2>2
  <2>4. ToSet(R) \subseteq T
    BY <2>3 DEF ToSet
  <2> QED
    BY <2>1, <2>2, <2>4 DEF T, R
<1>4. ReliableChange(Head(plan)) /\ \A ch \in ToSet(plan') : ReliableChange(ch)
  BY <1>1, <1>3 DEF RInv
<1>5. Filing(index')
  BY <1>1, <1>4 DEF Put, ReliableChange, RInv
<1>6. \A l \in Locations : Reliable(disk'[l])
  BY <1>1, <1>2, <1>4 DEF Put, ReliableChange, RInv, RelyOn
<1> QED
  BY <1>1, <1>4, <1>5, <1>6 DEF RInv, Filing, RelyOn, Reliable

\* cutting a file short,
LEMMA TearRelies ==
  ASSUME IInv, RInv, NEW part \in {NoDoc, Unreadable}, Tear(part)
  PROVE  RInv'
<1>1. /\ phase' = "idle" /\ (index' = index \/ index' = BadIndex)
  BY TearKeeps
<1>2. \A l \in Locations : disk'[l] = disk[l] \/ disk'[l] \in {NoDoc, Unreadable}
  BY DEF Tear, Put, IInv, TypeOK
<1>3. \A l \in Locations : Reliable(disk'[l])
  BY <1>2, LostIsReliable DEF RInv, RelyOn
<1> QED
  BY <1>1, <1>3 DEF RInv, Filing, RelyOn, Reliable

\* and ending a run.
LEMMA OthersRely ==
  ASSUME RInv, ProposeFailed \/ Written \/ Stop \/ UNCHANGED vars
  PROVE  RInv'
<1>1. index' = index /\ disk' = disk
  BY DEF ProposeFailed, Written, Stop, vars
<1>2. Filing(index)' /\ RelyOn'
  BY <1>1 DEF RInv, Filing, RelyOn, Reliable
<1>3. CASE ProposeFailed \/ Written \/ Stop
  <2>1. phase' \notin {"writing", "scanned"}
    BY <1>3 DEF ProposeFailed, Written, Stop
  <2> QED
    BY <1>2, <2>1 DEF RInv
<1>4. CASE UNCHANGED vars
  <2>1. phase' = phase /\ plan' = plan /\ findings' = findings
    BY <1>4 DEF vars
  <2>2. \A f : Told(f)' <=> Told(f)
    BY <1>1 DEF Told
  <2>3. phase' = "scanned" => Scanned(findings)'
    BY <2>1, <2>2 DEF RInv, Scanned
  <2>4. phase' = "writing" => \A ch \in ToSet(plan') : ReliableChange(ch)
    BY <2>1 DEF RInv
  <2> QED
    BY <1>2, <2>3, <2>4 DEF RInv
<1> QED
  BY <1>3, <1>4

\* Every step keeps it.
LEMMA NextRInv == IInv /\ RInv /\ [Next]_vars => RInv'
<1> SUFFICES ASSUME IInv, RInv, [Next]_vars PROVE RInv'
  OBVIOUS
<1>1. ASSUME NEW F \in Scans, NEW lost, Scan(F, lost) PROVE RInv'
  BY <1>1, ScanRelies
<1>2. ASSUME NEW s \in Published, NEW l \in Locations, Publish(s, l) PROVE RInv'
  BY <1>2, PublishRelies
<1>3. CASE Propose
  BY <1>3, ProposeRelies
<1>4. CASE Write
  BY <1>4, WriteRelies
<1>5. ASSUME NEW part \in {NoDoc, Unreadable}, Tear(part) PROVE RInv'
  BY <1>5, TearRelies
<1>6. CASE ProposeFailed \/ Written \/ Stop \/ UNCHANGED vars
  BY <1>6, OthersRely
<1> QED
  BY <1>1, <1>2, <1>3, <1>4, <1>5, <1>6 DEF Next

\* RInv always holds.
THEOREM SpecRInv == Spec => []RInv
BY InitRInv, NextRInv, SpecIInv, PTL DEF Spec

\* A plan is made by Propose alone.
LEMMA WhoProposes ==
  ASSUME [Next]_vars, phase = "scanned", phase' = "writing"
  PROVE  Propose
<1>1. \A F, lost : ~Scan(F, lost)
  BY DEF Scan
<1>2. \A s, l : ~Publish(s, l)
  BY DEF Publish
<1>3. \A part : ~Tear(part)
  BY DEF Tear
<1>4. ~ProposeFailed /\ ~Write /\ ~Written /\ ~Stop /\ vars' # vars
  BY DEF ProposeFailed, Write, Written, Stop, vars
<1> QED
  BY <1>1, <1>2, <1>3, <1>4 DEF Next

\* Without a claim there is nothing to record.
LEMMA NothingRoundTrips ==
  ASSUME NEW A, IsFiniteSet(A), NothingToClaim(A), NEW P
  PROVE  RoundTrips(A, P)
<1> DEFINE after == Applied(P)
<1>1. \A p \in ToSet(Products) : Claims(A, p) = <<>>
  BY DEF NothingToClaim, ToSet
<1>2. ToSet(<<>>) = {}
  BY DEF ToSet
<1>3. \A p \in ToSet(Products) : Fresh(A, p) = <<>>
  <2> SUFFICES ASSUME NEW p \in ToSet(Products) PROVE Fresh(A, p) = <<>>
    OBVIOUS
  <2>1. IsList(Fresh(A, p)) /\ ToSet(Fresh(A, p)) = {}
    BY <1>1, <1>2, ClaimsAreOfFindings
  <2> QED
    BY <2>1, EmptySeq DEF IsList
<1>4. Recorded(A) = {}
  <2> SUFFICES ASSUME NEW p \in Recorded(A) PROVE FALSE
    OBVIOUS
  <2>1. PICK i \in ToPropose(A) : Products[i] = p
    BY RecordedAre
  <2>2. p \in ToSet(Products) /\ Fresh(A, p) # <<>>
    BY <2>1, ProductsAre DEF ToPropose
  <2> QED
    BY <1>3, <2>2
<1>5. ToSet(EligibleClaims(A)) = {}
  BY <1>1, <1>2, EligibleClaimsAre
<1> QED
  BY <1>4, <1>5 DEF RoundTrips

\* What a run proposes, a reader finds: the plan that selectProposals makes leaves
\* a document that answers for each claim of a product it recorded, that gains
\* nothing from being proposed to again, and aggregates that hold every claim.
THEOREM RoundTripsHold == Spec => RoundTrip
<1> DEFINE R == phase = "scanned" /\ phase' = "writing" => RoundTrips(findings, plan')
<1>1. IInv /\ RInv /\ [Next]_vars => [R]_vars
  <2> SUFFICES ASSUME IInv, RInv, [Next]_vars, phase = "scanned", phase' = "writing" PROVE RoundTrips(findings, plan')
    OBVIOUS
  <2>1. Propose
    BY WhoProposes
  <2>2. plan' = IF NothingToClaim(findings) THEN <<>> ELSE Plan(findings)
    BY <2>1 DEF Propose
  <2>3. CASE NothingToClaim(findings)
    BY <2>3, NothingRoundTrips DEF IInv, TypeOK
  <2>4. CASE ~NothingToClaim(findings)
    <3>1. RoundTrips(findings, Plan(findings))
      BY <2>1, <2>4, ProposesOf, PlanRoundTrips
    <3> QED
      BY <2>2, <2>4, <3>1
  <2> QED
    BY <2>3, <2>4
<1>2. RoundTrip <=> [][R]_vars
  BY DEF RoundTrip
<1> HIDE DEF R
<1> QED
  BY <1>1, <1>2, SpecIInv, SpecRInv, PTL DEF Spec
=============================================================================
