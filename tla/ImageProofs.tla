------------------------------ MODULE ImageProofs ------------------------------
(***************************************************************************)
(* The files of an image, and which of them its programs load: what a path *)
(* of the scanned tree means, what an image's layers make of the tree and  *)
(* what its walks account for (ImageLayers), and that the closure of what  *)
(* its modules import is closed, every hole in it on record (ModuleGraph). *)
(*                                                                         *)
(* The tree.  An entry of a layer, written among the entries it fits       *)
(* behind, makes of the tree just what a union shows of it (EntryMade):    *)
(* the invariant holds the tree to the layers below with what was read of  *)
(* the current one over it.  What a walk left stays what a walk of the     *)
(* tree leaves, for the tree no longer changes.                            *)
(*                                                                         *)
(* The closure.  While its walk goes on it is closed up to its queue: what *)
(* the roots are and what a reached file imports is reached or queued.     *)
(* The walk ends with an empty queue.  Taints are only added, so a hole    *)
(* that is put on record when its file is reached stays there.             *)
(***************************************************************************)
EXTENDS ImageLayers, ModuleGraph, SequenceTheorems, FiniteSetTheorems, WellFoundedInduction, TLAPS

-----------------------------------------------------------------------------
(* Sequences                                                               *)

\* A set of numbers that holds 0 and what comes after each number it holds is
\* all of them.
LEMMA CountUp ==
  ASSUME NEW G, 0 \in G, \A n \in Nat : n \in G => n + 1 \in G
  PROVE  \A n \in Nat : n \in G
<1> DEFINE R == {ss \in Nat \X Nat : ss[1] < ss[2]}
           T == {n \in Nat : n \notin G}
<1>1. SUFFICES ASSUME T # {} PROVE FALSE
  OBVIOUS
<1>2. IsWellFoundedOn(R, Nat)
  BY NatLessThanWellFounded DEF OpToRel
<1> HIDE DEF R
<1>3. PICK x \in T : \A y \in T : <<y, x>> \notin R
  BY <1>1, <1>2, WFMin
<1> USE DEF R
<1>4. x \in Nat /\ x # 0
  OBVIOUS
<1>5. x - 1 \in Nat /\ x - 1 < x /\ (x - 1) + 1 = x
  BY <1>4
<1>6. x - 1 \notin T
  BY <1>3, <1>4, <1>5
<1> QED
  BY <1>4, <1>5, <1>6

\* The first of a sequence and what comes after it.
LEMMA HeadAndTail ==
  ASSUME NEW S, NEW s \in Seq(S), s # <<>>
  PROVE  /\ Len(s) \in Nat \ {0} /\ Head(s) = s[1] /\ Head(s) \in S
         /\ Tail(s) \in Seq(S) /\ Len(Tail(s)) = Len(s) - 1
         /\ \A i \in 1..(Len(s) - 1) : Tail(s)[i] = s[i + 1]
<1>1. Len(s) \in Nat \ {0}
  BY EmptySeq
<1>2. Head(s) = s[1]
  OBVIOUS
<1>3. /\ Head(s) \in S /\ Tail(s) \in Seq(S) /\ Len(Tail(s)) = Len(s) - 1
      /\ \A i \in 1..Len(Tail(s)) : Tail(s)[i] = s[i + 1]
  BY HeadTailProperties
<1> QED
  BY <1>1, <1>2, <1>3

\* The last of a sequence and what comes before it.
LEMMA FrontAndLast ==
  ASSUME NEW S, NEW s \in Seq(S), s # <<>>
  PROVE  /\ Len(s) \in Nat \ {0} /\ Last(s) = s[Len(s)] /\ Last(s) \in S
         /\ Front(s) \in Seq(S) /\ Len(Front(s)) = Len(s) - 1
         /\ \A i \in 1..(Len(s) - 1) : Front(s)[i] = s[i]
         /\ Append(Front(s), Last(s)) = s
<1>1. Len(s) \in Nat \ {0}
  BY EmptySeq
<1>2. Last(s) = s[Len(s)] /\ Last(s) \in S
  BY <1>1, ElementOfSeq DEF Last
<1>3. \A i \in 1..(Len(s) - 1) : s[i] \in S
  BY <1>1, ElementOfSeq
<1>4. /\ Front(s) \in Seq(S) /\ Len(Front(s)) = Len(s) - 1
      /\ \A i \in 1..(Len(s) - 1) : Front(s)[i] = s[i]
  <2> DEFINE m == Len(s) - 1
  <2>1. m \in Int /\ 1 \in Int /\ \A i \in 1..m : s[i] \in S
    BY <1>1, <1>3
  <2> HIDE DEF m
  <2>2. /\ SubSeq(s, 1, m) \in Seq(S) /\ Len(SubSeq(s, 1, m)) = IF 1 <= m THEN m - 1 + 1 ELSE 0
        /\ \A i \in 1..(m - 1 + 1) : SubSeq(s, 1, m)[i] = s[1 + i - 1]
    BY <2>1, SubSeqProperties
  <2>3. m \in Nat /\ m - 1 + 1 = m /\ \A i \in 1..m : 1 + i - 1 = i
    BY <1>1 DEF m
  <2>4. Front(s) = SubSeq(s, 1, m)
    BY DEF Front, m
  <2>5. Len(SubSeq(s, 1, m)) = m
    BY <2>2, <2>3
  <2>6. \A i \in 1..m : SubSeq(s, 1, m)[i] = s[i]
    BY <2>2, <2>3
  <2> QED
    BY <2>2, <2>4, <2>5, <2>6 DEF m
<1>5. Append(Front(s), Last(s)) = s
  BY <1>1, <1>2, <1>4, AppendProperties, SeqEqual
<1> QED
  BY <1>1, <1>2, <1>4, <1>5

\* One more at the end of a sequence.
LEMMA OneMore ==
  ASSUME NEW S, NEW s \in Seq(S), NEW e \in S
  PROVE  /\ Append(s, e) \in Seq(S) /\ Append(s, e) # <<>> /\ Len(Append(s, e)) = Len(s) + 1
         /\ \A i \in 1..Len(s) : Append(s, e)[i] = s[i]
         /\ Append(s, e)[Len(s) + 1] = e
         /\ Front(Append(s, e)) = s /\ Last(Append(s, e)) = e
<1>1. /\ Append(s, e) \in Seq(S) /\ Append(s, e) # <<>> /\ Len(Append(s, e)) = Len(s) + 1
      /\ \A i \in 1..Len(s) : Append(s, e)[i] = s[i]
      /\ Append(s, e)[Len(s) + 1] = e /\ Len(s) \in Nat
  BY AppendProperties, LenProperties
<1> DEFINE a == Append(s, e)
<1> HIDE DEF a
<1>2. a \in Seq(S) /\ a # <<>> /\ Len(a) = Len(s) + 1 /\ (\A i \in 1..Len(s) : a[i] = s[i]) /\ a[Len(s) + 1] = e
  BY <1>1 DEF a
<1>3. Front(a) \in Seq(S) /\ Len(Front(a)) = Len(s) /\ \A i \in 1..Len(s) : Front(a)[i] = s[i]
  BY <1>1, <1>2, FrontAndLast
<1>4. Front(a) = s
  BY <1>3, SeqEqual
<1>5. Last(a) = e
  BY <1>2, <1>1 DEF Last
<1> QED
  BY <1>1, <1>4, <1>5 DEF a

\* The first n of a sequence.
LEMMA FirstOf ==
  ASSUME NEW S, NEW s \in Seq(S), NEW n \in 0..Len(s)
  PROVE  /\ SubSeq(s, 1, n) \in Seq(S) /\ Len(SubSeq(s, 1, n)) = n
         /\ \A i \in 1..n : SubSeq(s, 1, n)[i] = s[i]
<1>1. Len(s) \in Nat /\ \A i \in 1..n : s[i] \in S
  BY LenProperties, ElementOfSeq
<1> QED
  BY <1>1, SubSeqProperties

\* A path is a prefix of another if it has the names that the other begins with.
LEMMA PrefixIs ==
  ASSUME NEW S, NEW p \in Seq(S), NEW q \in Seq(S)
  PROVE  /\ Len(p) \in Nat /\ Len(q) \in Nat
         /\ IsPrefix(p, q) <=> Len(p) <= Len(q) /\ \A i \in 1..Len(p) : p[i] = q[i]
         /\ IsPrefix(p, q) <=> Len(p) <= Len(q) /\ p = SubSeq(q, 1, Len(p))
<1>1. Len(p) \in Nat /\ Len(q) \in Nat
  BY LenProperties
<1>2. SubSeq(p, 1, Len(p)) = p
  BY SubSeqFull
<1>3. IsPrefix(p, q) <=> Len(p) <= Len(q) /\ p = SubSeq(q, 1, Len(p))
  BY <1>2 DEF IsPrefix
<1>4. ASSUME Len(p) <= Len(q) PROVE p = SubSeq(q, 1, Len(p)) <=> \A i \in 1..Len(p) : p[i] = q[i]
  <2>1. Len(p) \in 0..Len(q)
    BY <1>1, <1>4
  <2>2. /\ SubSeq(q, 1, Len(p)) \in Seq(S) /\ Len(SubSeq(q, 1, Len(p))) = Len(p)
        /\ \A i \in 1..Len(p) : SubSeq(q, 1, Len(p))[i] = q[i]
    BY <2>1, FirstOf
  <2> QED
    BY <2>2, SeqEqual
<1> QED
  BY <1>1, <1>3, <1>4

\* Above a path is what it begins with and is not.
LEMMA AbovePath ==
  ASSUME NEW S, NEW p \in Seq(S), NEW q \in Seq(S)
  PROVE  q \in Above(p) <=> IsStrictPrefix(q, p)
<1>1. Len(p) \in Nat /\ Len(q) \in Nat
  BY LenProperties
<1>2. \A n \in 0..(Len(p) - 1) : Len(SubSeq(p, 1, n)) = n
  BY <1>1, FirstOf
<1>3. IsPrefix(q, p) <=> Len(q) <= Len(p) /\ q = SubSeq(p, 1, Len(q))
  BY PrefixIs
<1>4. SubSeq(p, 1, Len(p)) = p
  BY SubSeqFull
<1>5. q \in Above(p) => IsStrictPrefix(q, p)
  BY <1>1, <1>2, <1>3 DEF Above, IsStrictPrefix
<1>6. ASSUME IsStrictPrefix(q, p) PROVE q \in Above(p)
  <2>1. Len(q) <= Len(p) /\ q = SubSeq(p, 1, Len(q)) /\ q # p
    BY <1>3, <1>6 DEF IsStrictPrefix
  <2>2. Len(q) # Len(p)
    BY <1>4, <2>1
  <2>3. Len(q) \in 0..(Len(p) - 1)
    BY <1>1, <2>1, <2>2
  <2> QED
    BY <2>1, <2>3 DEF Above
<1> QED
  BY <1>5, <1>6

\* What stands above a path are paths.
LEMMA AboveIsPath ==
  ASSUME NEW S, NEW p \in Seq(S)
  PROVE  Above(p) \subseteq Seq(S)
BY LenProperties, FirstOf DEF Above

\* What is joined to a sequence that is not empty does not change its first.
LEMMA HeadOfJoin ==
  ASSUME NEW S, NEW s \in Seq(S), NEW u \in Seq(S), s # <<>>
  PROVE  /\ s \o u \in Seq(S) /\ s \o u # <<>> /\ Head(s \o u) = Head(s)
         /\ Tail(s \o u) = Tail(s) \o u
<1> DEFINE d == s \o u
           e == Tail(s)
<1>1. /\ Len(s) \in Nat \ {0} /\ Head(s) = s[1] /\ e \in Seq(S) /\ Len(e) = Len(s) - 1
      /\ \A i \in 1..(Len(s) - 1) : e[i] = s[i + 1]
  BY HeadAndTail
<1>2. /\ Len(u) \in Nat /\ d \in Seq(S) /\ Len(d) = Len(s) + Len(u)
      /\ \A i \in 1..(Len(s) + Len(u)) : d[i] = IF i <= Len(s) THEN s[i] ELSE u[i - Len(s)]
  BY ConcatProperties, LenProperties
<1>3. /\ e \o u \in Seq(S) /\ Len(e \o u) = Len(e) + Len(u)
      /\ \A i \in 1..(Len(e) + Len(u)) : (e \o u)[i] = IF i <= Len(e) THEN e[i] ELSE u[i - Len(e)]
  BY <1>1, ConcatProperties
<1> DEFINE f == e \o u
<1> HIDE DEF d, e, f
<1>4. d # <<>>
  <2>1. Len(d) # 0 /\ Len(<<>>) = 0
    BY <1>1, <1>2, EmptySeq
  <2> QED
    BY <2>1
<1>5. /\ Head(d) = d[1] /\ Tail(d) \in Seq(S) /\ Len(Tail(d)) = Len(d) - 1
      /\ \A i \in 1..(Len(d) - 1) : Tail(d)[i] = d[i + 1]
  BY <1>2, <1>4, HeadAndTail
<1>6. d[1] = s[1]
  BY <1>1, <1>2
<1>7. ASSUME NEW i \in 1..(Len(d) - 1) PROVE Tail(d)[i] = f[i]
  <2> DEFINE j == i + 1
  <2>1. /\ j \in 1..(Len(s) + Len(u)) /\ i \in 1..(Len(e) + Len(u))
        /\ j <= Len(s) <=> i <= Len(e)
        /\ i <= Len(e) => i \in 1..(Len(s) - 1)
        /\ j - Len(s) = i - Len(e)
    BY <1>1, <1>2
  <2>2. Tail(d)[i] = d[j]
    BY <1>5
  <2> HIDE DEF j
  <2>3. d[j] = IF i <= Len(e) THEN s[j] ELSE u[i - Len(e)]
    BY <1>2, <2>1
  <2>4. i <= Len(e) => e[i] = s[j]
    BY <1>1, <2>1 DEF j
  <2>5. f[i] = IF i <= Len(e) THEN e[i] ELSE u[i - Len(e)]
    BY <1>3, <2>1 DEF f
  <2> QED
    BY <2>2, <2>3, <2>4, <2>5
<1>8. f \in Seq(S) /\ Len(f) = Len(d) - 1
  BY <1>1, <1>2, <1>3 DEF f
<1>9. Tail(d) = f
  BY <1>5, <1>7, <1>8, SeqEqual
<1> QED
  BY <1>1, <1>2, <1>4, <1>5, <1>6, <1>9 DEF d, e, f

\* A sequence joined to another is its first appended and the others joined.
LEMMA JoinByOne ==
  ASSUME NEW S, NEW s \in Seq(S), NEW u \in Seq(S), u # <<>>
  PROVE  /\ s \o u = Append(s, Head(u)) \o Tail(u)
         /\ IsPrefix(Append(s, Head(u)), s \o u)
<1> DEFINE c == Head(u)
           e == Tail(u)
           k == Append(s, c)
<1>1. /\ Len(u) \in Nat \ {0} /\ c = u[1] /\ c \in S /\ e \in Seq(S) /\ Len(e) = Len(u) - 1
      /\ \A i \in 1..(Len(u) - 1) : e[i] = u[i + 1]
  BY HeadAndTail
<1>2. /\ Len(s) \in Nat /\ k \in Seq(S) /\ Len(k) = Len(s) + 1 /\ k[Len(s) + 1] = c
      /\ \A i \in 1..Len(s) : k[i] = s[i]
  BY <1>1, OneMore, LenProperties
<1>3. k = s \o <<c>> /\ <<c>> \in Seq(S) /\ u = <<c>> \o e
  <2>1. k = s \o <<c>>
    BY <1>1, AppendIsConcat
  <2>2. 1 \in 1..Len(u) /\ Len(u) \in 1..Len(u)
    BY <1>1
  <2>3. SubSeq(u, 1, Len(u)) = <<u[1]>> \o SubSeq(u, 1 + 1, Len(u))
    BY <2>2, SubSeqRecursiveFirst
  <2>4. SubSeq(u, 1, Len(u)) = u /\ SubSeq(u, 1 + 1, Len(u)) = e
    BY <1>1, SubSeqFull, TailIsSubSeq
  <2> QED
    BY <1>1, <2>1, <2>3, <2>4
<1> HIDE DEF c, e, k
<1>4. s \o u = k \o e
  BY <1>1, <1>3, ConcatAssociative
<1>5. /\ k \o e \in Seq(S) /\ Len(k \o e) = Len(k) + Len(e)
      /\ \A i \in 1..(Len(k) + Len(e)) : (k \o e)[i] = IF i <= Len(k) THEN k[i] ELSE e[i - Len(k)]
  BY <1>1, <1>2, ConcatProperties
<1>6. IsPrefix(k, k \o e)
  <2>1. Len(k) \in Nat /\ Len(e) \in Nat
    BY <1>1, <1>2
  <2>2. Len(k) <= Len(k \o e) /\ \A i \in 1..Len(k) : k[i] = (k \o e)[i]
    BY <1>5, <2>1
  <2> QED
    BY <1>2, <1>5, <2>2, PrefixIs
<1> QED
  BY <1>4, <1>6 DEF c, e, k

-----------------------------------------------------------------------------
(* Texts of links                                                          *)

Texts == Seq(Names \cup {Up})

\* A function defined on the numbers up to N, each value by the one before it.
Steps(g, N, base, step) ==
  g = [n \in 0..N |-> IF n = 0 THEN base ELSE step[<<g[n - 1], n>>]]

\* Counting up to N, there is a function that starts at base and makes each value
\* of the one before it.
LEMMA StepsExist ==
  ASSUME NEW N \in Nat, NEW V, NEW base \in V, NEW step \in [V \X (1..N) -> V]
  PROVE  \E g \in [0..N -> V] : Steps(g, N, base, step)
<1> DEFINE one(g, n) == IF n = 0 THEN base ELSE step[<<g[n - 1], n>>]
           Solves(g, k) == g \in [0..k -> V] /\ \A n \in 0..k : g[n] = one(g, n)
           G == {k \in Nat : k <= N => \E g : Solves(g, k)}
<1>1. 0 \in G
  <2>1. Solves([n \in 0..0 |-> base], 0)
    OBVIOUS
  <2> QED
    BY <2>1
<1>2. ASSUME NEW k \in Nat, k \in G PROVE k + 1 \in G
  <2> SUFFICES ASSUME k + 1 <= N PROVE \E g : Solves(g, k + 1)
    OBVIOUS
  <2>1. PICK g : Solves(g, k)
    BY <1>2
  <2> DEFINE h == [n \in 0..(k + 1) |-> one(g, n)]
  <2>2. \A n \in 0..(k + 1) : n # 0 => n - 1 \in 0..k /\ n \in 1..N
    OBVIOUS
  <2>3. \A n \in 0..k : n \in 0..(k + 1) /\ h[n] = g[n]
    BY <2>1
  <2>4. \A n \in 0..(k + 1) : h[n] = one(h, n)
    BY <2>2, <2>3
  <2>5. h \in [0..(k + 1) -> V]
    BY <2>1, <2>2
  <2> HIDE DEF h
  <2> QED
    BY <2>4, <2>5
<1> HIDE DEF G
<1>3. N \in G
  BY <1>1, <1>2, CountUp
<1> USE DEF G
<1>4. PICK g : Solves(g, N)
  BY <1>3
<1>5. g = [n \in 0..N |-> one(g, n)]
  BY <1>4
<1> QED
  BY <1>4, <1>5 DEF Steps

\* out[n] is what the first n names of a link's text are cleaned to.
Cleans(abs, to, out) ==
  /\ out \in [0..Len(to) -> Texts]
  /\ out[0] = <<>>
  /\ \A n \in 1..Len(to) : out[n] = Cleaned(abs, out[n - 1], to[n])
  /\ Clean(abs, to) = out[Len(to)]

\* Texts are joined in any grouping.
LEMMA JoinedInTurn ==
  ASSUME NEW a \in Texts, NEW b \in Texts, NEW c \in Texts
  PROVE  (a \o b) \o c = a \o (b \o c)
BY ConcatAssociative DEF Texts

\* Taking in one more component leaves a text.
LEMMA CleanedIsText ==
  ASSUME NEW abs, NEW before \in Texts, NEW c \in Names \cup {Up}
  PROVE  Cleaned(abs, before, c) \in Texts
<1>1. Append(before, c) \in Texts /\ Append(before, Up) \in Texts
  BY OneMore DEF Texts
<1>2. before # <<>> => Front(before) \in Texts
  BY FrontAndLast DEF Texts
<1> QED
  BY <1>1, <1>2 DEF Cleaned

\* What Clean takes its last value of exists: a value after each component.
LEMMA CleaningExists ==
  ASSUME NEW abs, NEW to \in Texts
  PROVE  \E out : Cleans(abs, to, out)
<1> DEFINE N == Len(to)
           step == [x \in Texts \X (1..N) |-> Cleaned(abs, x[1], to[x[2]])]
           body(g) == [n \in 0..N |-> IF n = 0 THEN <<>> ELSE Cleaned(abs, g[n - 1], to[n])]
           out == CHOOSE g : g = body(g)
<1>1. N \in Nat /\ <<>> \in Texts /\ \A n \in 1..N : to[n] \in Names \cup {Up}
  BY LenProperties, EmptySeq, ElementOfSeq DEF Texts
<1>2. step \in [Texts \X (1..N) -> Texts]
  <2>1. \A x \in Texts \X (1..N) : Cleaned(abs, x[1], to[x[2]]) \in Texts
    BY <1>1, CleanedIsText
  <2> QED
    BY <2>1
<1>3. \A b \in Texts, n \in 1..N : step[<<b, n>>] = Cleaned(abs, b, to[n])
  OBVIOUS
<1> HIDE DEF step, N
<1>4. PICK g \in [0..N -> Texts] : Steps(g, N, <<>>, step)
  BY <1>1, <1>2, StepsExist
<1>5. \A n \in 0..N : n # 0 => g[n - 1] \in Texts /\ n \in 1..N
  BY <1>1, <1>4
<1>6. g = body(g)
  <2>1. \A n \in 0..N : g[n] = IF n = 0 THEN <<>> ELSE Cleaned(abs, g[n - 1], to[n])
    BY <1>3, <1>4, <1>5 DEF Steps
  <2> QED
    BY <1>4, <2>1
<1>7. out = body(out)
  <2> HIDE DEF body
  <2> QED
    BY <1>6
<1>8. out = g
  <2> DEFINE G == {n \in Nat : n <= N => out[n] = g[n]}
  <2> HIDE DEF out
  <2>1. 0 \in G
    BY <1>1, <1>6, <1>7
  <2>2. ASSUME NEW n \in Nat, n \in G PROVE n + 1 \in G
    <3> SUFFICES ASSUME n + 1 <= N PROVE out[n + 1] = g[n + 1]
      OBVIOUS
    <3> DEFINE k == n + 1
    <3>1. out[n] = g[n] /\ k \in 0..N /\ k # 0 /\ k - 1 = n
      BY <1>1, <2>2
    <3> HIDE DEF k
    <3>2. out[k] = Cleaned(abs, out[k - 1], to[k])
      BY <1>7, <3>1
    <3>3. g[k] = Cleaned(abs, g[k - 1], to[k])
      BY <1>6, <3>1
    <3>4. out[k] = g[k]
      BY <3>1, <3>2, <3>3
    <3> QED
      BY <3>4 DEF k
  <2> HIDE DEF G
  <2>3. \A n \in Nat : n \in G
    BY <2>1, <2>2, CountUp
  <2> USE DEF G
  <2>4. \A n \in 0..N : out[n] = g[n]
    BY <1>1, <2>3
  <2>5. out = [n \in 0..N |-> out[n]] /\ g = [n \in 0..N |-> g[n]]
    BY <1>4, <1>7
  <2> QED
    BY <2>4, <2>5
<1>9. Clean(abs, to) = out[N]
  BY DEF Clean, N
<1>10. g[0] = <<>> /\ \A n \in 1..N : g[n] = Cleaned(abs, g[n - 1], to[n])
  BY <1>1, <1>6
<1> HIDE DEF out
<1> QED
  BY <1>4, <1>8, <1>9, <1>10 DEF Cleans, N

\* Every ".." of a cleaned text comes before its names.
UpsFirst(c) == \A i \in 1..Len(c) : c[i] = Up => \A j \in 1..i : c[j] = Up

\* Taking in one more component keeps the ".."s first, and a rooted text without any.
LEMMA CleanedKeeps ==
  ASSUME NEW abs, NEW before \in Texts, NEW c \in Names \cup {Up}, UpsFirst(before)
  PROVE  /\ UpsFirst(Cleaned(abs, before, c))
         /\ abs /\ before \in Seq(Names) => Cleaned(abs, before, c) \in Seq(Names)
<1>0. Len(before) \in Nat
  BY LenProperties DEF Texts
<1>1. CASE c # Up
  <2>1. Cleaned(abs, before, c) = Append(before, c) /\ c \in Names
    BY <1>1 DEF Cleaned
  <2>2. /\ Len(Append(before, c)) = Len(before) + 1 /\ Append(before, c)[Len(before) + 1] = c
        /\ \A i \in 1..Len(before) : Append(before, c)[i] = before[i]
    BY OneMore DEF Texts
  <2>3. UpsFirst(Append(before, c))
    BY <1>0, <1>1, <2>2 DEF UpsFirst
  <2>4. before \in Seq(Names) => Append(before, c) \in Seq(Names)
    BY <2>1, OneMore
  <2> QED
    BY <2>1, <2>3, <2>4
<1>2. CASE c = Up /\ before # <<>> /\ Last(before) # Up
  <2>1. Cleaned(abs, before, c) = Front(before)
    BY <1>2 DEF Cleaned
  <2>2. Len(Front(before)) = Len(before) - 1 /\ \A i \in 1..(Len(before) - 1) : Front(before)[i] = before[i]
    BY <1>2, FrontAndLast DEF Texts
  <2>3. UpsFirst(Front(before))
    BY <1>0, <2>2 DEF UpsFirst
  <2>4. before \in Seq(Names) => Front(before) \in Seq(Names)
    BY <1>2, FrontAndLast
  <2> QED
    BY <2>1, <2>3, <2>4
<1>3. CASE c = Up /\ ~(before # <<>> /\ Last(before) # Up) /\ abs
  BY <1>3 DEF Cleaned
<1>4. CASE c = Up /\ ~(before # <<>> /\ Last(before) # Up) /\ ~abs
  <2>1. Cleaned(abs, before, c) = Append(before, Up)
    BY <1>4 DEF Cleaned
  <2>2. /\ Len(Append(before, Up)) = Len(before) + 1 /\ Append(before, Up)[Len(before) + 1] = Up
        /\ \A i \in 1..Len(before) : Append(before, Up)[i] = before[i]
    BY OneMore DEF Texts
  <2>3. \A i \in 1..Len(before) : before[i] = Up
    <3>1. CASE before = <<>>
      BY <3>1
    <3>2. CASE before # <<>>
      BY <1>0, <1>4, <3>2, FrontAndLast DEF Texts, UpsFirst
    <3> QED
      BY <3>1, <3>2
  <2> QED
    BY <1>0, <1>4, <2>1, <2>2, <2>3 DEF UpsFirst
<1> QED
  BY <1>1, <1>2, <1>3, <1>4

\* A cleaned text has its ".."s first; below the root it is a path of names
\* (path.Clean as rootfs.go uses it).
LEMMA CleanIs ==
  ASSUME NEW abs, NEW to \in Texts
  PROVE  /\ Clean(abs, to) \in Texts /\ UpsFirst(Clean(abs, to))
         /\ abs => Clean(abs, to) \in Seq(Names)
<1>1. PICK out : Cleans(abs, to, out)
  BY CleaningExists
<1> DEFINE N == Len(to)
           G == {n \in Nat : n <= N => UpsFirst(out[n]) /\ (abs => out[n] \in Seq(Names))}
<1>2. N \in Nat /\ (\A n \in 1..N : to[n] \in Names \cup {Up}) /\ out \in [0..N -> Texts]
  BY <1>1, LenProperties, ElementOfSeq DEF Texts, Cleans
<1>3. 0 \in G
  <2>1. out[0] = <<>>
    BY <1>1 DEF Cleans
  <2>2. <<>> \in Seq(Names) /\ Len(<<>>) = 0
    BY EmptySeq
  <2>3. UpsFirst(<<>>)
    BY <2>2 DEF UpsFirst
  <2> QED
    BY <2>1, <2>2, <2>3
<1>4. ASSUME NEW n \in Nat, n \in G PROVE n + 1 \in G
  <2> SUFFICES ASSUME n + 1 <= N
               PROVE  UpsFirst(out[n + 1]) /\ (abs => out[n + 1] \in Seq(Names))
    OBVIOUS
  <2>1. n + 1 \in 1..N /\ n + 1 - 1 = n /\ n \in 0..N
    BY <1>2
  <2>2. out[n + 1] = Cleaned(abs, out[n], to[n + 1])
    BY <1>1, <2>1 DEF Cleans
  <2> QED
    BY <1>2, <1>4, <2>1, <2>2, CleanedKeeps
<1> HIDE DEF G
<1>5. N \in G
  BY <1>2, <1>3, <1>4, CountUp
<1> QED
  BY <1>1, <1>2, <1>5 DEF Cleans, G

\* Names alone are clean, whatever is joined to them.
LEMMA NamesAreClean ==
  ASSUME NEW abs, NEW start \in Seq(Names), NEW c \in Texts, NEW out, Cleans(abs, start \o c, out)
  PROVE  out[Len(start)] = start
<1> DEFINE G == {n \in Nat : n <= Len(start) => out[n] = SubSeq(start, 1, n)}
<1>1. /\ start \in Texts /\ Len(start) \in Nat /\ Len(c) \in Nat
      /\ Len(start \o c) = Len(start) + Len(c)
      /\ \A i \in 1..Len(start) : (start \o c)[i] = start[i] /\ start[i] \in Names
  <2>1. start \in Texts
    BY SeqMonotonic DEF Texts
  <2> QED
    BY <2>1, LenProperties, ConcatProperties, ElementOfSeq DEF Texts
<1>2. 0 \in G
  <2>1. out[0] = <<>>
    BY DEF Cleans
  <2>2. SubSeq(start, 1, 0) = <<>>
    BY SubSeqEmpty
  <2> QED
    BY <2>1, <2>2
<1>3. ASSUME NEW n \in Nat, n \in G PROVE n + 1 \in G
  <2> SUFFICES ASSUME n + 1 <= Len(start) PROVE out[n + 1] = SubSeq(start, 1, n + 1)
    OBVIOUS
  <2>1. n + 1 \in 1..Len(start \o c) /\ n + 1 \in 1..Len(start) /\ n + 1 - 1 = n
    BY <1>1
  <2>2. out[n + 1] = Cleaned(abs, out[n], (start \o c)[n + 1])
    BY <2>1 DEF Cleans
  <2>3. out[n + 1] = Append(SubSeq(start, 1, n), start[n + 1])
    BY <1>1, <1>3, <2>1, <2>2, RootFSAssumption DEF Cleaned
  <2> DEFINE u == SubSeq(start, 1, n)
             v == SubSeq(start, 1, n + 1)
  <2>4. u \in Seq(Names) /\ Len(u) = n /\ \A i \in 1..n : u[i] = start[i]
    BY <1>1, FirstOf
  <2>5. v \in Seq(Names) /\ Len(v) = n + 1 /\ \A i \in 1..(n + 1) : v[i] = start[i]
    BY <1>1, FirstOf
  <2> HIDE DEF u, v
  <2>6. /\ Append(u, start[n + 1]) \in Seq(Names) /\ Len(Append(u, start[n + 1])) = n + 1
        /\ \A i \in 1..n : Append(u, start[n + 1])[i] = u[i]
        /\ Append(u, start[n + 1])[n + 1] = start[n + 1]
    BY <1>1, <2>1, <2>4, OneMore
  <2>7. \A i \in 1..(n + 1) : Append(u, start[n + 1])[i] = v[i]
    BY <2>4, <2>5, <2>6
  <2>8. Append(u, start[n + 1]) = v
    BY <2>5, <2>6, <2>7, SeqEqual
  <2> QED
    BY <2>3, <2>8 DEF u, v
<1> HIDE DEF G
<1>4. Len(start) \in G
  BY <1>1, <1>2, <1>3, CountUp
<1> USE DEF G
<1> QED
  BY <1>1, <1>4, SubSeqFull

\* Cleaning a path of names leaves it as it is.
LEMMA CleanNames ==
  ASSUME NEW abs, NEW s \in Seq(Names)
  PROVE  Clean(abs, s) = s
<1>1. s \in Texts /\ <<>> \in Texts /\ s \o <<>> = s
  BY SeqMonotonic, EmptySeq, ConcatEmptySeq DEF Texts
<1>2. PICK out : Cleans(abs, s, out)
  BY <1>1, CleaningExists
<1>3. out[Len(s)] = s
  BY <1>1, <1>2, NamesAreClean
<1> QED
  BY <1>2, <1>3 DEF Cleans

\* One directory up; the root has none above it.
Parent(p) == IF p = <<>> THEN <<>> ELSE Front(p)

\* As text, ".." after names takes away the last of them.
LEMMA CleanUp ==
  ASSUME NEW start \in Seq(Names), NEW c \in Texts, c # <<>>, Head(c) = Up
  PROVE  Clean(TRUE, start \o c) = Clean(TRUE, Parent(start) \o Tail(c))
<1> DEFINE up == Parent(start)
           rest == Tail(c)
           s1 == start \o c
           s2 == up \o rest
<1>1. /\ Len(c) \in Nat \ {0} /\ c[1] = Up /\ rest \in Texts /\ Len(rest) = Len(c) - 1
      /\ \A i \in 1..Len(rest) : rest[i] = c[i + 1]
  BY HeadAndTail DEF Texts
<1>2. up \in Seq(Names)
  BY FrontAndLast, EmptySeq DEF Parent
<1>3. start \in Texts /\ up \in Texts
  BY <1>2, SeqMonotonic DEF Texts
<1> DEFINE n1 == Len(start)
           n2 == Len(up)
<1> HIDE DEF up, rest
<1>4. n1 \in Nat /\ n2 \in Nat
  BY <1>2, LenProperties
<1>5. /\ s1 \in Texts /\ Len(s1) = n1 + Len(c)
      /\ \A i \in 1..(n1 + Len(c)) : s1[i] = IF i <= n1 THEN start[i] ELSE c[i - n1]
  BY <1>3, ConcatProperties DEF Texts
<1>6. /\ s2 \in Texts /\ Len(s2) = n2 + Len(rest)
      /\ \A i \in 1..(n2 + Len(rest)) : s2[i] = IF i <= n2 THEN up[i] ELSE rest[i - n2]
  BY <1>1, <1>3, ConcatProperties DEF Texts
<1>7. PICK o1 : Cleans(TRUE, s1, o1)
  BY <1>5, CleaningExists
<1>8. PICK o2 : Cleans(TRUE, s2, o2)
  BY <1>6, CleaningExists
<1>9. o1[n1] = start /\ o2[n2] = up
  BY <1>1, <1>2, <1>7, <1>8, NamesAreClean
<1> HIDE DEF s1, s2, n1, n2
<1>10. o1[n1 + 1] = up
  <2> DEFINE k == n1 + 1
  <2>1. k \in 1..Len(s1) /\ k \in 1..(n1 + Len(c)) /\ k - 1 = n1 /\ ~(k <= n1) /\ k - n1 = 1
    BY <1>1, <1>4, <1>5
  <2> HIDE DEF k
  <2>2. s1[k] = Up
    BY <1>1, <1>5, <2>1
  <2>3. o1[k] = Cleaned(TRUE, start, Up)
    BY <1>7, <1>9, <2>1, <2>2 DEF Cleans
  <2>4. start # <<>> => Last(start) # Up
    BY FrontAndLast, RootFSAssumption
  <2> QED
    BY <2>3, <2>4 DEF Cleaned, up, Parent, k
<1> DEFINE G == {n \in Nat : n <= Len(rest) => o1[n1 + 1 + n] = o2[n2 + n]}
<1>11. 0 \in G
  BY <1>4, <1>9, <1>10
<1>12. ASSUME NEW n \in Nat, n \in G PROVE n + 1 \in G
  <2> SUFFICES ASSUME n + 1 <= Len(rest) PROVE o1[n1 + 1 + (n + 1)] = o2[n2 + (n + 1)]
    OBVIOUS
  <2> DEFINE k1 == n1 + 1 + (n + 1)
             k2 == n2 + (n + 1)
  <2>1. /\ k1 \in 1..Len(s1) /\ k1 - 1 = n1 + 1 + n /\ ~(k1 <= n1) /\ k1 - n1 = n + 2
        /\ k2 \in 1..Len(s2) /\ k2 - 1 = n2 + n /\ ~(k2 <= n2) /\ k2 - n2 = n + 1
        /\ n + 1 \in 1..Len(rest) /\ n + 1 + 1 = n + 2 /\ n <= Len(rest)
    BY <1>1, <1>4, <1>5, <1>6
  <2> HIDE DEF k1, k2
  <2>2. s1[k1] = c[n + 2]
    BY <1>5, <2>1
  <2>3. s2[k2] = rest[n + 1]
    BY <1>6, <2>1
  <2>4. rest[n + 1] = c[n + 2]
    BY <1>1, <2>1
  <2>5. o1[k1] = Cleaned(TRUE, o1[k1 - 1], s1[k1]) /\ o2[k2] = Cleaned(TRUE, o2[k2 - 1], s2[k2])
    BY <1>7, <1>8, <2>1 DEF Cleans
  <2>6. o1[k1 - 1] = o2[k2 - 1]
    BY <1>12, <2>1
  <2>7. o1[k1] = o2[k2]
    BY <2>2, <2>3, <2>4, <2>5, <2>6
  <2> QED
    BY <2>7 DEF k1, k2
<1> HIDE DEF G
<1>13. Len(rest) \in G
  <2>1. \A n \in Nat : n \in G
    BY <1>11, <1>12, CountUp
  <2> QED
    BY <1>1, <2>1
<1> USE DEF G
<1>14. o1[n1 + 1 + Len(rest)] = o2[n2 + Len(rest)]
  BY <1>1, <1>13
<1>15. n1 + 1 + Len(rest) = Len(s1) /\ n2 + Len(rest) = Len(s2)
  BY <1>1, <1>4, <1>5, <1>6
<1>16. Clean(TRUE, s1) = o1[Len(s1)] /\ Clean(TRUE, s2) = o2[Len(s2)]
  BY <1>7, <1>8 DEF Cleans
<1>17. Clean(TRUE, s1) = Clean(TRUE, s2)
  BY <1>14, <1>15, <1>16
<1> QED
  BY <1>17 DEF s1, s2, up, rest

-----------------------------------------------------------------------------
(* Resolution                                                              *)

\* A tree whose links have texts.
Typed(t) ==
  /\ <<>> \notin DOMAIN t
  /\ \A p \in DOMAIN t : t[p].kind = "link" => t[p].abs \in BOOLEAN /\ t[p].to \in Texts

At(resolved, rest, hops) == [resolved |-> resolved, rest |-> rest, hops |-> hops]

\* The run of Resolve's loop from every cursor.
Body(t, run) ==
  [s \in Cursor |-> IF s.hops > MaxSymlinkHops THEN {}
                    ELSE IF s.rest = <<>> THEN {s.resolved} ELSE run[Turn(t, s)]]
Ends(t) == CHOOSE run : run = Body(t, run)

\* Resolving is turning from the root with all of the name still to go.
LEMMA ResolveIs ==
  ASSUME NEW t, NEW name
  PROVE  Resolve(t, name) = Ends(t)[At(<<>>, name, 0)]
BY DEF Resolve, Ends, Body, At

\* A cursor is where it stands, what is left of the name and the links followed.
LEMMA CursorIs ==
  ASSUME NEW s
  PROVE  /\ s \in Cursor => /\ s.resolved \in Seq(Names) /\ s.rest \in Texts /\ s.hops \in Nat
                            /\ s = At(s.resolved, s.rest, s.hops)
         /\ \A r \in Seq(Names), x \in Texts, h \in Nat : At(r, x, h) \in Cursor
BY DEF Cursor, At, Texts

\* One turn keeps to cursors: a name or ".." is used up, or a link is followed.
LEMMA TurnIs ==
  ASSUME NEW t, Typed(t), NEW r \in Seq(Names), NEW x \in Texts, x # <<>>, NEW h \in Nat
  PROVE  LET c == Head(x)
             k == Append(r, c)
             s == Turn(t, At(r, x, h))
         IN /\ c = Up => s = At(Parent(r), Tail(x), h)
            /\ c # Up /\ ~IsKind(t, k, "link") => s = At(k, Tail(x), h)
            /\ c # Up /\ IsKind(t, k, "link") =>
                 s = At(IF t[k].abs THEN <<>> ELSE r, Clean(t[k].abs, t[k].to) \o Tail(x), h + 1)
            /\ s \in Cursor
            /\ Tail(x) \in Texts /\ Len(Tail(x)) = Len(x) - 1
<1> DEFINE c == Head(x)
           k == Append(r, c)
           s == Turn(t, At(r, x, h))
<1>1. c \in Names \cup {Up} /\ Tail(x) \in Texts /\ Len(Tail(x)) = Len(x) - 1
  BY HeadAndTail DEF Texts
<1>2. Parent(r) \in Seq(Names)
  BY FrontAndLast, EmptySeq DEF Parent
<1>3. c # Up => k \in Seq(Names)
  BY <1>1, OneMore
<1>4. c = Up => s = At(Parent(r), Tail(x), h)
  BY DEF Turn, At, Parent
<1>5. c # Up /\ ~IsKind(t, k, "link") => s = At(k, Tail(x), h)
  BY DEF Turn, At
<1>6. c # Up /\ IsKind(t, k, "link") =>
        s = At(IF t[k].abs THEN <<>> ELSE r, Clean(t[k].abs, t[k].to) \o Tail(x), h + 1)
  BY DEF Turn, At, Followed
<1>7. IsKind(t, k, "link") => Clean(t[k].abs, t[k].to) \in Texts
  BY CleanIs DEF IsKind, Typed
<1>8. IsKind(t, k, "link") => Clean(t[k].abs, t[k].to) \o Tail(x) \in Texts
  BY <1>1, <1>7, ConcatProperties DEF Texts
<1>9. (IF t[k].abs THEN <<>> ELSE r) \in Seq(Names)
  BY EmptySeq
<1> HIDE DEF c, k, s
<1>10. s \in Cursor
  <2>1. \A q \in Seq(Names), y \in Texts, g \in Nat : At(q, y, g) \in Cursor
    BY CursorIs
  <2>2. CASE c = Up
    BY <1>1, <1>2, <1>4, <2>1, <2>2
  <2>3. CASE c # Up /\ ~IsKind(t, k, "link")
    BY <1>1, <1>3, <1>5, <2>1, <2>3
  <2>4. CASE c # Up /\ IsKind(t, k, "link")
    <3>1. h + 1 \in Nat
      OBVIOUS
    <3> QED
      BY <1>6, <1>8, <1>9, <2>1, <2>4, <3>1
  <2> QED
    BY <2>2, <2>3, <2>4
<1> QED
  BY <1>1, <1>4, <1>5, <1>6, <1>10 DEF c, k, s

\* A turn makes a cursor of a cursor: it uses up a component or counts a link.
LEMMA TurnCursor ==
  ASSUME NEW t, Typed(t), NEW s \in Cursor, s.rest # <<>>
  PROVE  /\ Turn(t, s) \in Cursor
         /\ \/ Turn(t, s).hops = s.hops /\ Len(Turn(t, s).rest) = Len(s.rest) - 1
            \/ Turn(t, s).hops = s.hops + 1
<1> DEFINE r == s.resolved
           x == s.rest
           h == s.hops
<1>1. r \in Seq(Names) /\ x \in Texts /\ h \in Nat /\ s = At(r, x, h)
  BY CursorIs
<1> HIDE DEF r, x, h
<1> DEFINE c == Head(x)
           k == Append(r, c)
<1>2. x # <<>>
  BY DEF x
<1>3. /\ c = Up => Turn(t, s) = At(Parent(r), Tail(x), h)
      /\ c # Up /\ ~IsKind(t, k, "link") => Turn(t, s) = At(k, Tail(x), h)
      /\ c # Up /\ IsKind(t, k, "link") =>
           Turn(t, s) = At(IF t[k].abs THEN <<>> ELSE r, Clean(t[k].abs, t[k].to) \o Tail(x), h + 1)
      /\ Turn(t, s) \in Cursor
      /\ Len(Tail(x)) = Len(x) - 1
  BY <1>1, <1>2, TurnIs
<1> HIDE DEF c, k
<1>4. Turn(t, s).hops = h + 1 \/ (Turn(t, s).hops = h /\ Len(Turn(t, s).rest) = Len(x) - 1)
  <2>2. CASE c = Up
    <3>1. Turn(t, s) = At(Parent(r), Tail(x), h)
      BY <1>3, <2>2
    <3>2. Turn(t, s).hops = h /\ Turn(t, s).rest = Tail(x)
      BY <3>1 DEF At
    <3> QED
      BY <1>3, <3>2
  <2>3. CASE c # Up /\ ~IsKind(t, k, "link")
    <3>1. Turn(t, s) = At(k, Tail(x), h)
      BY <1>3, <2>3
    <3>2. Turn(t, s).hops = h /\ Turn(t, s).rest = Tail(x)
      BY <3>1 DEF At
    <3> QED
      BY <1>3, <3>2
  <2>4. CASE c # Up /\ IsKind(t, k, "link")
    BY <1>3, <2>4 DEF At
  <2> QED
    BY <2>2, <2>3, <2>4
<1> QED
  BY <1>3, <1>4 DEF x, h

\* The runs of the loop end: a cursor's value is the one at the end of its chain.
LEMMA EndsExist ==
  ASSUME NEW t, Typed(t)
  PROVE  Ends(t) = Body(t, Ends(t))
<1> DEFINE Final(s) == s.hops > MaxSymlinkHops \/ s.rest = <<>>
           Value(s) == IF s.hops > MaxSymlinkHops THEN {} ELSE {s.resolved}
           Chains(s) == {c \in Seq(Cursor) :
                           /\ c # <<>> /\ c[1] = s /\ Final(c[Len(c)])
                           /\ \A i \in 1..(Len(c) - 1) : ~Final(c[i]) /\ c[i + 1] = Turn(t, c[i])}
           g == [s \in Cursor |-> UNION {Value(c[Len(c)]) : c \in Chains(s)}]
<1>1. ASSUME NEW s \in Cursor, Final(s) PROVE g[s] = Value(s)
  <2>1. <<s>> \in Chains(s)
    <3>1. <<s>> \in Seq(Cursor) /\ <<s>> # <<>> /\ Len(<<s>>) = 1 /\ <<s>>[1] = s
      OBVIOUS
    <3>2. \A i \in 1..(Len(<<s>>) - 1) : FALSE
      BY <3>1
    <3> HIDE DEF Final
    <3> QED
      BY <1>1, <3>1, <3>2
  <2>2. ASSUME NEW c \in Chains(s) PROVE c[Len(c)] = s
    <3>1. Len(c) \in Nat \ {0}
      BY EmptySeq
    <3>2. ~(1 \in 1..(Len(c) - 1))
      BY <1>1
    <3> QED
      BY <3>1, <3>2
  <2>3. {Value(c[Len(c)]) : c \in Chains(s)} = {Value(s)}
    <3> HIDE DEF Chains, Value
    <3>1. Len(<<s>>) = 1 /\ <<s>>[1] = s
      OBVIOUS
    <3> QED
      BY <2>1, <2>2, <3>1
  <2> HIDE DEF Chains, Value
  <2> QED
    BY <2>3
<1>2. ASSUME NEW s \in Cursor, ~Final(s) PROVE g[s] = g[Turn(t, s)]
  <2> DEFINE u == Turn(t, s)
  <2>1. u \in Cursor
    BY <1>2, TurnCursor
  <2> HIDE DEF u
  <2>2. ASSUME NEW c \in Chains(s) PROVE Tail(c) \in Chains(u) /\ Tail(c)[Len(Tail(c))] = c[Len(c)]
    <3>1. /\ Len(c) \in Nat \ {0} /\ Tail(c) \in Seq(Cursor) /\ Len(Tail(c)) = Len(c) - 1
          /\ \A i \in 1..(Len(c) - 1) : Tail(c)[i] = c[i + 1]
      BY HeadAndTail
    <3>2. Len(c) # 1
      BY <1>2
    <3>3. 1 \in 1..(Len(c) - 1)
      BY <3>1, <3>2
    <3>4. Tail(c)[1] = u
      BY <3>1, <3>3 DEF u
    <3>5. Tail(c)[Len(Tail(c))] = c[Len(c)]
      <4> DEFINE n == Len(c) - 1
      <4>1. n \in 1..(Len(c) - 1) /\ n + 1 = Len(c) /\ Len(Tail(c)) = n
        BY <3>1, <3>3
      <4> HIDE DEF n
      <4> QED
        BY <3>1, <4>1
    <3>6. Tail(c) # <<>>
      <4>1. Len(Tail(c)) # 0 /\ Len(<<>>) = 0
        BY <3>1, <3>3, EmptySeq
      <4> QED
        BY <4>1
    <3>7. ASSUME NEW i \in 1..(Len(Tail(c)) - 1)
          PROVE  ~Final(Tail(c)[i]) /\ Tail(c)[i + 1] = Turn(t, Tail(c)[i])
      <4> DEFINE j == i + 1
      <4>1. i \in 1..(Len(c) - 1) /\ j \in 1..(Len(c) - 1)
        BY <3>1
      <4>2. Tail(c)[i] = c[j] /\ Tail(c)[j] = c[j + 1]
        BY <3>1, <4>1
      <4> HIDE DEF j
      <4>3. ~Final(c[j]) /\ c[j + 1] = Turn(t, c[j])
        BY <4>1
      <4> HIDE DEF Final
      <4> QED
        BY <4>2, <4>3 DEF j
    <3> HIDE DEF Final
    <3>8. Final(c[Len(c)])
      OBVIOUS
    <3> QED
      BY <3>1, <3>4, <3>5, <3>6, <3>7, <3>8
  <2>3. ASSUME NEW c \in Chains(u)
        PROVE  <<s>> \o c \in Chains(s) /\ (<<s>> \o c)[Len(<<s>> \o c)] = c[Len(c)]
    <3> DEFINE d == <<s>> \o c
    <3>1. <<s>> \in Seq(Cursor) /\ Len(<<s>>) = 1 /\ <<s>>[1] = s /\ Len(c) \in Nat \ {0}
      BY EmptySeq
    <3>2. /\ d \in Seq(Cursor) /\ Len(d) = 1 + Len(c)
          /\ \A i \in 1..(1 + Len(c)) : d[i] = IF i <= 1 THEN s ELSE c[i - 1]
      BY <3>1, ConcatProperties
    <3> HIDE DEF d
    <3>3. d[1] = s /\ d # <<>>
      BY <3>1, <3>2
    <3>4. d[Len(d)] = c[Len(c)]
      <4> DEFINE n == Len(d)
      <4>1. n \in 1..(1 + Len(c)) /\ ~(n <= 1) /\ n - 1 = Len(c)
        BY <3>1, <3>2
      <4> HIDE DEF n
      <4>2. d[n] = c[Len(c)]
        BY <3>2, <4>1
      <4> QED
        BY <4>2 DEF n
    <3>5. ASSUME NEW i \in 1..(Len(d) - 1) PROVE ~Final(d[i]) /\ d[i + 1] = Turn(t, d[i])
      <4> DEFINE j == i + 1
      <4>1. i \in 1..(1 + Len(c)) /\ j \in 1..(1 + Len(c)) /\ ~(j <= 1) /\ j - 1 = i
        BY <3>1, <3>2
      <4>2. d[j] = c[i]
        BY <3>2, <4>1
      <4>3. CASE i = 1
        <5>1. d[i] = s /\ c[1] = u
          BY <3>3, <4>3
        <5> QED
          BY <1>2, <4>2, <4>3, <5>1 DEF u
      <4>4. CASE i # 1
        <5> DEFINE l == i - 1
        <5>1. l \in 1..(Len(c) - 1) /\ ~(i <= 1) /\ l + 1 = i
          BY <3>1, <3>2, <4>4
        <5>2. d[i] = c[l]
          BY <3>2, <4>1, <5>1
        <5> HIDE DEF l
        <5>3. ~Final(c[l]) /\ c[l + 1] = Turn(t, c[l])
          BY <5>1
        <5> HIDE DEF Final
        <5> QED
          BY <4>2, <5>1, <5>2, <5>3
      <4> QED
        BY <4>3, <4>4
    <3> HIDE DEF Final
    <3>6. Final(c[Len(c)])
      OBVIOUS
    <3>7. d \in Chains(s)
      BY <3>2, <3>3, <3>4, <3>5, <3>6
    <3> HIDE DEF Chains
    <3> QED
      BY <3>4, <3>7 DEF d
  <2>4. {Value(c[Len(c)]) : c \in Chains(s)} = {Value(c[Len(c)]) : c \in Chains(u)}
    <3> HIDE DEF Chains, Value
    <3> QED
      BY <2>2, <2>3
  <2>5. g[s] = UNION {Value(c[Len(c)]) : c \in Chains(s)} /\ g[u] = UNION {Value(c[Len(c)]) : c \in Chains(u)}
    <3> HIDE DEF Chains, Value
    <3> QED
      BY <2>1
  <2> HIDE DEF g, Chains, Value
  <2> QED
    BY <2>4, <2>5 DEF u
<1>3. g = Body(t, g)
  <2>1. g = [s \in Cursor |-> g[s]]
    <3> HIDE DEF Chains, Value
    <3> QED
      OBVIOUS
  <2> HIDE DEF g
  <2>2. \A s \in Cursor : g[s] = IF s.hops > MaxSymlinkHops THEN {}
                                 ELSE IF s.rest = <<>> THEN {s.resolved} ELSE g[Turn(t, s)]
    BY <1>1, <1>2
  <2> QED
    BY <2>1, <2>2 DEF Body
<1> HIDE DEF g
<1> QED
  BY <1>3 DEF Ends

\* What the loop ends with, one turn at a time.
LEMMA EndsIs ==
  ASSUME NEW t, Typed(t), NEW s \in Cursor
  PROVE  Ends(t)[s] = IF s.hops > MaxSymlinkHops THEN {}
                      ELSE IF s.rest = <<>> THEN {s.resolved} ELSE Ends(t)[Turn(t, s)]
<1> DEFINE e == Ends(t)
<1>1. e = Body(t, e)
  BY EndsExist
<1> HIDE DEF e
<1>2. e[s] = Body(t, e)[s]
  BY <1>1
<1> QED
  BY <1>2 DEF Body, e

\* What holds of a cursor where the loop stops, and of one whose next it holds of,
\* holds of every cursor: only so many links are followed, and between two of them
\* the rest gets shorter.
LEMMA TurnInduction ==
  ASSUME NEW t, Typed(t), NEW G,
         \A s \in Cursor : s.hops > MaxSymlinkHops \/ s.rest = <<>> \/ Turn(t, s) \in G => s \in G
  PROVE  \A s \in Cursor : s \in G
<1> DEFINE H == {n \in Nat : \A s \in Cursor : s.hops + n > MaxSymlinkHops => s \in G}
<1>0. MaxSymlinkHops \in Nat /\ \A s \in Cursor : s.hops \in Nat /\ s.rest \in Texts /\ Len(s.rest) \in Nat
  BY RootFSAssumption, CursorIs, LenProperties DEF Texts
<1>1. 0 \in H
  BY <1>0
<1>2. ASSUME NEW n \in Nat, n \in H PROVE n + 1 \in H
  <2> DEFINE K == {k \in Nat : \A s \in Cursor : s.hops + (n + 1) > MaxSymlinkHops /\ Len(s.rest) = k => s \in G}
  <2>1. 0 \in K
    <3>1. \A s \in Cursor : Len(s.rest) = 0 => s.rest = <<>>
      BY <1>0, EmptySeq DEF Texts
    <3> QED
      BY <3>1
  <2>2. ASSUME NEW k \in Nat, k \in K PROVE k + 1 \in K
    <3> SUFFICES ASSUME NEW s \in Cursor, s.hops + (n + 1) > MaxSymlinkHops, Len(s.rest) = k + 1
                 PROVE  s \in G
      OBVIOUS
    <3>1. s.rest # <<>>
      OBVIOUS
    <3> DEFINE u == Turn(t, s)
    <3>2. u \in Cursor /\ ((u.hops = s.hops /\ Len(u.rest) = Len(s.rest) - 1) \/ u.hops = s.hops + 1)
      BY <3>1, TurnCursor
    <3> HIDE DEF u
    <3>3. CASE u.hops = s.hops /\ Len(u.rest) = Len(s.rest) - 1
      BY <1>0, <2>2, <3>2, <3>3 DEF u
    <3>4. CASE u.hops = s.hops + 1
      <4>1. u.hops + n > MaxSymlinkHops
        BY <1>0, <3>4
      <4> QED
        BY <1>2, <3>2, <4>1 DEF u
    <3> QED
      BY <3>2, <3>3, <3>4
  <2> HIDE DEF K
  <2>3. \A k \in Nat : k \in K
    BY <2>1, <2>2, CountUp
  <2> USE DEF K
  <2> QED
    BY <1>0, <2>3
<1> HIDE DEF H
<1>3. \A n \in Nat : n \in H
  BY <1>1, <1>2, CountUp
<1>4. MaxSymlinkHops + 1 \in H
  BY <1>0, <1>3
<1> USE DEF H
<1> QED
  BY <1>0, <1>4

\* What a path begins with, itself included.
LEMMA UpTo ==
  ASSUME NEW S, NEW p \in Seq(S), NEW q \in Seq(S)
  PROVE  q \in Above(p) \cup {p} <=> IsPrefix(q, p)
<1>1. IsPrefix(p, p)
  BY PrefixIs
<1> QED
  BY <1>1, AbovePath DEF IsStrictPrefix

\* Above a child of p are p and what is above it.
LEMMA AboveAppend ==
  ASSUME NEW S, NEW p \in Seq(S), NEW c \in S
  PROVE  Above(Append(p, c)) = Above(p) \cup {p}
<1> DEFINE k == Append(p, c)
<1>1. k \in Seq(S) /\ Len(p) \in Nat /\ Len(k) = Len(p) + 1 /\ \A i \in 1..Len(p) : k[i] = p[i]
  BY OneMore, LenProperties
<1> HIDE DEF k
<1>2. ASSUME NEW n \in 0..Len(p) PROVE SubSeq(k, 1, n) = SubSeq(p, 1, n)
  <2>1. n \in 0..Len(k)
    BY <1>1
  <2>2. /\ SubSeq(k, 1, n) \in Seq(S) /\ Len(SubSeq(k, 1, n)) = n
        /\ \A i \in 1..n : SubSeq(k, 1, n)[i] = k[i]
    BY <1>1, <2>1, FirstOf
  <2>3. /\ SubSeq(p, 1, n) \in Seq(S) /\ Len(SubSeq(p, 1, n)) = n
        /\ \A i \in 1..n : SubSeq(p, 1, n)[i] = p[i]
    BY FirstOf
  <2>4. \A i \in 1..n : SubSeq(k, 1, n)[i] = SubSeq(p, 1, n)[i]
    BY <1>1, <2>2, <2>3
  <2> QED
    BY <2>2, <2>3, <2>4, SeqEqual
<1>3. 0..(Len(k) - 1) = 0..Len(p) /\ 0..Len(p) = 0..(Len(p) - 1) \cup {Len(p)}
  BY <1>1
<1>4. Above(k) = {SubSeq(p, 1, n) : n \in 0..Len(p)}
  BY <1>2, <1>3 DEF Above
<1>5. Above(k) = {SubSeq(p, 1, n) : n \in 0..(Len(p) - 1)} \cup {SubSeq(p, 1, Len(p))}
  BY <1>3, <1>4
<1> QED
  BY <1>5, SubSeqFull DEF Above, k

\* Above a path are its parent and what is above that.
LEMMA AboveFront ==
  ASSUME NEW S, NEW p \in Seq(S), p # <<>>
  PROVE  Above(p) = Above(Front(p)) \cup {Front(p)}
<1> DEFINE f == Front(p)
           e == Last(p)
<1>1. f \in Seq(S) /\ e \in S /\ p = Append(f, e)
  BY FrontAndLast
<1> HIDE DEF f, e
<1>2. Above(p) = Above(f) \cup {f}
  BY <1>1, AboveAppend
<1> QED
  BY <1>2 DEF f

\* Nothing is above the root.
LEMMA AboveRoot == Above(<<>>) = {}
<1>1. Len(<<>>) = 0
  BY EmptySeq
<1> QED
  BY <1>1 DEF Above

\* No name on the way to p is a link.
Plain(t, p) == \A q \in Above(p) \cup {p} : ~IsKind(t, q, "link")

\* The way to the root is plain, and so is that to the parent and to a child that is
\* no link.
LEMMA PlainIs ==
  ASSUME NEW t, Typed(t)
  PROVE  /\ Plain(t, <<>>)
         /\ \A r \in Seq(Names) : Plain(t, r) => Plain(t, Parent(r))
         /\ \A r \in Seq(Names), c \in Names :
              Plain(t, r) /\ ~IsKind(t, Append(r, c), "link") => Plain(t, Append(r, c))
<1>1. Plain(t, <<>>)
  BY AboveRoot DEF Plain, Typed, IsKind
<1>2. ASSUME NEW r \in Seq(Names), Plain(t, r) PROVE Plain(t, Parent(r))
  <2>1. CASE r = <<>>
    BY <1>2, <2>1 DEF Parent
  <2>2. CASE r # <<>>
    <3>1. Above(r) = Above(Front(r)) \cup {Front(r)}
      BY <2>2, AboveFront
    <3> QED
      BY <1>2, <2>2, <3>1 DEF Plain, Parent
  <2> QED
    BY <2>1, <2>2
<1>3. ASSUME NEW r \in Seq(Names), NEW c \in Names, Plain(t, r), ~IsKind(t, Append(r, c), "link")
      PROVE  Plain(t, Append(r, c))
  <2>1. Above(Append(r, c)) = Above(r) \cup {r}
    BY AboveAppend
  <2> QED
    BY <1>3, <2>1 DEF Plain
<1> QED
  BY <1>1, <1>2, <1>3

\* A cursor's next one, by its parts.
LEMMA NextOf ==
  ASSUME NEW t, Typed(t), NEW s \in Cursor, s.rest # <<>>
  PROVE  LET c == Head(s.rest)
             k == Append(s.resolved, c)
         IN /\ Tail(s.rest) \in Texts /\ Turn(t, s) \in Cursor
            /\ \/ c = Up /\ Turn(t, s) = At(Parent(s.resolved), Tail(s.rest), s.hops)
               \/ /\ c \in Names /\ ~IsKind(t, k, "link")
                  /\ Turn(t, s) = At(k, Tail(s.rest), s.hops)
               \/ /\ c \in Names /\ IsKind(t, k, "link")
                  /\ t[k].to \in Texts /\ Clean(t[k].abs, t[k].to) \in Texts
                  /\ Turn(t, s) = At(IF t[k].abs THEN <<>> ELSE s.resolved,
                                     Clean(t[k].abs, t[k].to) \o Tail(s.rest), s.hops + 1)
<1> DEFINE r == s.resolved
           x == s.rest
           h == s.hops
<1>1. r \in Seq(Names) /\ x \in Texts /\ h \in Nat /\ s = At(r, x, h) /\ x # <<>>
  BY CursorIs
<1> HIDE DEF r, x, h
<1> DEFINE c == Head(x)
           k == Append(r, c)
           u == Turn(t, s)
<1>2. c \in Names \cup {Up}
  BY <1>1, HeadAndTail DEF Texts
<1>3. /\ c = Up => u = At(Parent(r), Tail(x), h)
      /\ c # Up /\ ~IsKind(t, k, "link") => u = At(k, Tail(x), h)
      /\ c # Up /\ IsKind(t, k, "link") =>
           u = At(IF t[k].abs THEN <<>> ELSE r, Clean(t[k].abs, t[k].to) \o Tail(x), h + 1)
      /\ u \in Cursor /\ Tail(x) \in Texts
  BY <1>1, TurnIs
<1>4. IsKind(t, k, "link") => t[k].to \in Texts /\ Clean(t[k].abs, t[k].to) \in Texts
  BY CleanIs DEF IsKind, Typed
<1> HIDE DEF c, k, u
<1>5. /\ Tail(x) \in Texts /\ u \in Cursor
      /\ \/ c = Up /\ u = At(Parent(r), Tail(x), h)
         \/ c \in Names /\ ~IsKind(t, k, "link") /\ u = At(k, Tail(x), h)
         \/ /\ c \in Names /\ IsKind(t, k, "link")
            /\ t[k].to \in Texts /\ Clean(t[k].abs, t[k].to) \in Texts
            /\ u = At(IF t[k].abs THEN <<>> ELSE r, Clean(t[k].abs, t[k].to) \o Tail(x), h + 1)
  BY <1>2, <1>3, <1>4
<1> QED
  BY <1>5 DEF c, k, u, r, x, h

\* What a turn does does not depend on how many links were followed.
Alike(t, r, x, h, g) ==
  \E q \in Seq(Names), w \in Texts, d \in {0, 1} :
    Turn(t, At(r, x, h)) = At(q, w, h + d) /\ Turn(t, At(r, x, g)) = At(q, w, g + d)

\* How many links were followed decides nothing about a turn but its own count.
LEMMA TurnAlike ==
  ASSUME NEW t, Typed(t), NEW r \in Seq(Names), NEW x \in Texts, x # <<>>, NEW h \in Nat, NEW g \in Nat
  PROVE  Alike(t, r, x, h, g)
<1> DEFINE c == Head(x)
           k == Append(r, c)
           u == Turn(t, At(r, x, h))
           v == Turn(t, At(r, x, g))
<1>1. /\ c = Up => u = At(Parent(r), Tail(x), h)
      /\ c # Up /\ ~IsKind(t, k, "link") => u = At(k, Tail(x), h)
      /\ c # Up /\ IsKind(t, k, "link") =>
           u = At(IF t[k].abs THEN <<>> ELSE r, Clean(t[k].abs, t[k].to) \o Tail(x), h + 1)
      /\ u \in Cursor
  BY TurnIs
<1>2. /\ c = Up => v = At(Parent(r), Tail(x), g)
      /\ c # Up /\ ~IsKind(t, k, "link") => v = At(k, Tail(x), g)
      /\ c # Up /\ IsKind(t, k, "link") =>
           v = At(IF t[k].abs THEN <<>> ELSE r, Clean(t[k].abs, t[k].to) \o Tail(x), g + 1)
  BY TurnIs
<1> HIDE DEF c, k, u, v
<1> SUFFICES \E q \in Seq(Names), w \in Texts, d \in {0, 1} :
               u = At(q, w, h + d) /\ v = At(q, w, g + d)
  BY DEF u, v, Alike
<1>3. h + 0 = h /\ g + 0 = g
  OBVIOUS
<1>4. \A q, w, f : At(q, w, f) \in Cursor => q \in Seq(Names) /\ w \in Texts
  BY DEF Cursor, At, Texts
<1>5. CASE c = Up
  <2>1. u = At(Parent(r), Tail(x), h) /\ v = At(Parent(r), Tail(x), g)
    BY <1>1, <1>2, <1>5
  <2>2. Parent(r) \in Seq(Names) /\ Tail(x) \in Texts
    BY <1>1, <1>4, <2>1
  <2>3. u = At(Parent(r), Tail(x), h + 0) /\ v = At(Parent(r), Tail(x), g + 0)
    BY <1>3, <2>1
  <2> QED
    BY <2>2, <2>3, Zenon
<1>6. CASE c # Up /\ ~IsKind(t, k, "link")
  <2>1. u = At(k, Tail(x), h) /\ v = At(k, Tail(x), g)
    BY <1>1, <1>2, <1>6
  <2>2. k \in Seq(Names) /\ Tail(x) \in Texts
    BY <1>1, <1>4, <2>1
  <2>3. u = At(k, Tail(x), h + 0) /\ v = At(k, Tail(x), g + 0)
    BY <1>3, <2>1
  <2> QED
    BY <2>2, <2>3, Zenon
<1>7. CASE c # Up /\ IsKind(t, k, "link")
  <2> DEFINE a == IF t[k].abs THEN <<>> ELSE r
             b == Clean(t[k].abs, t[k].to) \o Tail(x)
  <2>1. u = At(a, b, h + 1) /\ v = At(a, b, g + 1)
    BY <1>1, <1>2, <1>7
  <2> HIDE DEF a, b
  <2>2. a \in Seq(Names) /\ b \in Texts
    BY <1>1, <1>4, <2>1
  <2> QED
    BY <2>1, <2>2, Zenon
<1> QED
  BY <1>5, <1>6, <1>7

\* TurnIs of a cursor by its parts.
LEMMA NextIs ==
  ASSUME NEW t, Typed(t), NEW z \in Cursor, z.rest # <<>>
  PROVE  LET c == Head(z.rest)
             k == Append(z.resolved, c)
             u == Turn(t, z)
         IN /\ c = Up => u = At(Parent(z.resolved), Tail(z.rest), z.hops)
            /\ c # Up /\ ~IsKind(t, k, "link") => u = At(k, Tail(z.rest), z.hops)
            /\ c # Up /\ IsKind(t, k, "link") =>
                 u = At(IF t[k].abs THEN <<>> ELSE z.resolved,
                        Clean(t[k].abs, t[k].to) \o Tail(z.rest), z.hops + 1)
<1> DEFINE a == z.resolved
           b == z.rest
           n == z.hops
<1>1. a \in Seq(Names) /\ b \in Texts /\ b # <<>> /\ n \in Nat /\ z = At(a, b, n)
  BY CursorIs
<1> HIDE DEF a, b, n
<1>2. LET c == Head(b)
          k == Append(a, c)
          u == Turn(t, At(a, b, n))
      IN /\ c = Up => u = At(Parent(a), Tail(b), n)
         /\ c # Up /\ ~IsKind(t, k, "link") => u = At(k, Tail(b), n)
         /\ c # Up /\ IsKind(t, k, "link") =>
              u = At(IF t[k].abs THEN <<>> ELSE a, Clean(t[k].abs, t[k].to) \o Tail(b), n + 1)
  BY <1>1, TurnIs
<1>3. LET c == Head(b)
          k == Append(a, c)
          u == Turn(t, z)
      IN /\ c = Up => u = At(Parent(a), Tail(b), n)
         /\ c # Up /\ ~IsKind(t, k, "link") => u = At(k, Tail(b), n)
         /\ c # Up /\ IsKind(t, k, "link") =>
              u = At(IF t[k].abs THEN <<>> ELSE a, Clean(t[k].abs, t[k].to) \o Tail(b), n + 1)
  BY <1>1, <1>2
<1> QED
  BY <1>3 DEF a, b, n

\* A name leads to one place at most.
LEMMA OneEnd ==
  ASSUME NEW t, Typed(t), NEW s \in Cursor
  PROVE  \E r \in Seq(Names) : Ends(t)[s] \subseteq {r}
<1> DEFINE G == {z \in Cursor : \E r \in Seq(Names) : Ends(t)[z] \subseteq {r}}
<1>1. ASSUME NEW z \in Cursor, z.hops > MaxSymlinkHops \/ z.rest = <<>> \/ Turn(t, z) \in G
      PROVE  z \in G
  <2>1. z.resolved \in Seq(Names) /\ <<>> \in Seq(Names)
    BY CursorIs, EmptySeq
  <2>2. Ends(t)[z] = IF z.hops > MaxSymlinkHops THEN {}
                     ELSE IF z.rest = <<>> THEN {z.resolved} ELSE Ends(t)[Turn(t, z)]
    BY EndsIs
  <2>3. CASE z.hops > MaxSymlinkHops \/ z.rest = <<>>
    BY <2>1, <2>2, <2>3
  <2>4. CASE ~(z.hops > MaxSymlinkHops \/ z.rest = <<>>)
    BY <1>1, <2>2, <2>4
  <2> QED
    BY <2>3, <2>4
<1> HIDE DEF G
<1>2. s \in G
  BY <1>1, TurnInduction
<1> QED
  BY <1>2 DEF G

\* Where a cursor leads, no name on the way is a link.
LEMMA EndsArePlain ==
  ASSUME NEW t, Typed(t), NEW s \in Cursor, Plain(t, s.resolved), NEW p \in Ends(t)[s]
  PROVE  Plain(t, p)
<1> DEFINE G == {z \in Cursor : Plain(t, z.resolved) => \A q \in Ends(t)[z] : Plain(t, q)}
<1>1. ASSUME NEW z \in Cursor, z.hops > MaxSymlinkHops \/ z.rest = <<>> \/ Turn(t, z) \in G
      PROVE  z \in G
  <2> SUFFICES ASSUME Plain(t, z.resolved) PROVE \A q \in Ends(t)[z] : Plain(t, q)
    OBVIOUS
  <2>1. Ends(t)[z] = IF z.hops > MaxSymlinkHops THEN {}
                     ELSE IF z.rest = <<>> THEN {z.resolved} ELSE Ends(t)[Turn(t, z)]
    BY EndsIs
  <2>2. CASE z.hops > MaxSymlinkHops \/ z.rest = <<>>
    BY <2>1, <2>2
  <2>3. CASE ~(z.hops > MaxSymlinkHops \/ z.rest = <<>>)
    <3> DEFINE c == Head(z.rest)
               k == Append(z.resolved, c)
               u == Turn(t, z)
    <3>1. \/ c = Up /\ u = At(Parent(z.resolved), Tail(z.rest), z.hops)
          \/ c \in Names /\ ~IsKind(t, k, "link") /\ u = At(k, Tail(z.rest), z.hops)
          \/ u = At(IF t[k].abs THEN <<>> ELSE z.resolved,
                    Clean(t[k].abs, t[k].to) \o Tail(z.rest), z.hops + 1)
      BY <2>3, NextOf
    <3> HIDE DEF u
    <3>2. u.resolved = Parent(z.resolved) \/ u.resolved = <<>> \/ u.resolved = z.resolved
          \/ (c \in Names /\ ~IsKind(t, k, "link") /\ u.resolved = k)
      <4> HIDE DEF c, k
      <4>1. CASE c = Up /\ u = At(Parent(z.resolved), Tail(z.rest), z.hops)
        BY <4>1 DEF At
      <4>2. CASE c \in Names /\ ~IsKind(t, k, "link") /\ u = At(k, Tail(z.rest), z.hops)
        BY <4>2 DEF At
      <4>3. CASE u = At(IF t[k].abs THEN <<>> ELSE z.resolved,
                        Clean(t[k].abs, t[k].to) \o Tail(z.rest), z.hops + 1)
        BY <4>3 DEF At
      <4> QED
        BY <3>1, <4>1, <4>2, <4>3
    <3>3. z.resolved \in Seq(Names)
      BY CursorIs
    <3>4. Plain(t, u.resolved)
      BY <3>2, <3>3, PlainIs
    <3>5. u \in G
      BY <1>1, <2>3 DEF u
    <3>6. Ends(t)[z] = Ends(t)[u]
      BY <2>1, <2>3 DEF u
    <3> QED
      BY <3>4, <3>5, <3>6
  <2> QED
    BY <2>2, <2>3
<1> HIDE DEF G
<1>2. s \in G
  BY <1>1, TurnInduction
<1> QED
  BY <1>2 DEF G

\* A cursor that leads somewhere leads there also when fewer links were followed.
LEMMA FewerHops ==
  ASSUME NEW t, Typed(t), NEW r \in Seq(Names), NEW x \in Texts, NEW h \in Nat, NEW g \in 0..h,
         Ends(t)[At(r, x, h)] # {}
  PROVE  Ends(t)[At(r, x, g)] = Ends(t)[At(r, x, h)]
<1> DEFINE G == {z \in Cursor : Ends(t)[z] # {} =>
                   \A f \in 0..z.hops : Ends(t)[At(z.resolved, z.rest, f)] = Ends(t)[z]}
<1>1. ASSUME NEW z \in Cursor, z.hops > MaxSymlinkHops \/ z.rest = <<>> \/ Turn(t, z) \in G
      PROVE  z \in G
  <2> SUFFICES ASSUME Ends(t)[z] # {}, NEW f \in 0..z.hops
               PROVE  Ends(t)[At(z.resolved, z.rest, f)] = Ends(t)[z]
    OBVIOUS
  <2> DEFINE y == At(z.resolved, z.rest, f)
  <2>1. Ends(t)[z] = IF z.hops > MaxSymlinkHops THEN {}
                     ELSE IF z.rest = <<>> THEN {z.resolved} ELSE Ends(t)[Turn(t, z)]
    BY EndsIs
  <2>2. /\ z.resolved \in Seq(Names) /\ z.rest \in Texts /\ z.hops \in Nat
        /\ z = At(z.resolved, z.rest, z.hops) /\ f \in Nat
    BY CursorIs
  <2>3. /\ y \in Cursor /\ y.resolved = z.resolved /\ y.rest = z.rest /\ y.hops = f
        /\ ~(z.hops > MaxSymlinkHops) /\ ~(f > MaxSymlinkHops)
    <3>1. y \in Cursor
      BY <2>2, CursorIs
    <3>2. y.resolved = z.resolved /\ y.rest = z.rest /\ y.hops = f
      BY DEF At
    <3>3. ~(z.hops > MaxSymlinkHops)
      BY <2>1
    <3> HIDE DEF y
    <3> QED
      BY <2>2, <3>1, <3>2, <3>3, RootFSAssumption
  <2>4. Ends(t)[y] = IF y.hops > MaxSymlinkHops THEN {}
                     ELSE IF y.rest = <<>> THEN {y.resolved} ELSE Ends(t)[Turn(t, y)]
    BY <2>3, EndsIs
  <2>5. CASE z.rest = <<>>
    <3> HIDE DEF y
    <3>1. Ends(t)[y] = Ends(t)[z]
      BY <2>1, <2>3, <2>4, <2>5
    <3> QED
      BY <3>1 DEF y
  <2>6. CASE z.rest # <<>>
    <3> DEFINE u == Turn(t, z)
               v == Turn(t, y)
    <3>1. u \in Cursor /\ u \in G
      BY <1>1, <2>3, <2>6, TurnCursor
    <3>2. PICK q \in Seq(Names), w \in Texts, d \in {0, 1} :
            u = At(q, w, z.hops + d) /\ v = At(q, w, f + d)
      <4> DEFINE a == z.resolved
                 b == z.rest
                 n == z.hops
      <4>1. a \in Seq(Names) /\ b \in Texts /\ b # <<>> /\ n \in Nat /\ z = At(a, b, n)
        BY <2>2, <2>6
      <4> HIDE DEF a, b, n
      <4>2. Alike(t, a, b, n, f)
        BY <2>2, <4>1, TurnAlike
      <4>3. u = Turn(t, At(a, b, n)) /\ v = Turn(t, At(a, b, f)) /\ z.hops = n
        BY <4>1 DEF a, b, n
      <4> HIDE DEF u, v
      <4>4. PICK q \in Seq(Names), w \in Texts, d \in {0, 1} :
              u = At(q, w, n + d) /\ v = At(q, w, f + d)
        BY <4>2, <4>3, Zenon DEF Alike
      <4>5. u = At(q, w, z.hops + d)
        BY <4>3, <4>4
      <4> QED
        BY <4>4, <4>5, Zenon
    <3>3. Ends(t)[z] = Ends(t)[u] /\ Ends(t)[y] = Ends(t)[v]
      BY <2>1, <2>3, <2>4, <2>6
    <3> HIDE DEF u, v, y
    <3>4. u.hops = z.hops + d /\ u.resolved = q /\ u.rest = w
      BY <3>2 DEF At
    <3>5. f + d \in 0..u.hops
      BY <2>2, <3>4
    <3>6. Ends(t)[At(u.resolved, u.rest, f + d)] = Ends(t)[u]
      BY <3>1, <3>3, <3>5
    <3>7. Ends(t)[v] = Ends(t)[u]
      BY <3>2, <3>4, <3>6
    <3> QED
      BY <3>3, <3>7 DEF y
  <2> QED
    BY <2>5, <2>6
<1> HIDE DEF G
<1>2. At(r, x, h) \in G
  BY <1>1, TurnInduction, CursorIs
<1>3. At(r, x, h).hops = h /\ At(r, x, h).resolved = r /\ At(r, x, h).rest = x
  BY DEF At
<1> QED
  BY <1>2, <1>3 DEF G

\* What is left after a name goes on from the place the name leads to.
LEMMA RestGoesOn ==
  ASSUME NEW t, Typed(t), NEW r \in Seq(Names), NEW y \in Texts, NEW x \in Texts, NEW h \in Nat,
         NEW p \in Ends(t)[At(r, y, h)]
  PROVE  \E g \in Nat : g >= h /\ Ends(t)[At(r, y \o x, h)] = Ends(t)[At(p, x, g)]
<1> DEFINE onto(z) == At(z.resolved, z.rest \o x, z.hops)
           G == {z \in Cursor : \A q \in Ends(t)[z] :
                   \E g \in Nat : g >= z.hops /\ Ends(t)[onto(z)] = Ends(t)[At(q, x, g)]}
<1>1. ASSUME NEW z \in Cursor, z.hops > MaxSymlinkHops \/ z.rest = <<>> \/ Turn(t, z) \in G
      PROVE  z \in G
  <2> SUFFICES ASSUME NEW q \in Ends(t)[z]
               PROVE  \E g \in Nat : g >= z.hops /\ Ends(t)[onto(z)] = Ends(t)[At(q, x, g)]
    OBVIOUS
  <2> DEFINE a == z.resolved
             b == z.rest
             n == z.hops
             o == onto(z)
  <2>1. a \in Seq(Names) /\ b \in Texts /\ n \in Nat /\ z = At(a, b, n)
    BY CursorIs
  <2>2. Ends(t)[z] = IF n > MaxSymlinkHops THEN {}
                     ELSE IF b = <<>> THEN {a} ELSE Ends(t)[Turn(t, z)]
    BY EndsIs
  <2>3. o = At(a, b \o x, n) /\ b \o x \in Texts
    BY <2>1, ConcatProperties DEF Texts
  <2> HIDE DEF a, b, n, o
  <2>4. ~(n > MaxSymlinkHops)
    BY <2>2
  <2>5. CASE b = <<>>
    <3>1. q = a
      BY <2>2, <2>4, <2>5
    <3>2. b \o x = x
      BY <2>5, ConcatEmptySeq DEF Texts
    <3>3. Ends(t)[o] = Ends(t)[At(q, x, n)] /\ n >= n
      BY <2>1, <2>3, <3>1, <3>2
    <3> QED
      BY <2>1, <3>3 DEF o, n
  <2>6. CASE b # <<>>
    <3> DEFINE u == Turn(t, z)
    <3>1. u \in Cursor /\ u \in G /\ q \in Ends(t)[u]
      BY <1>1, <2>2, <2>4, <2>6, TurnCursor DEF b, n
    <3>2. o \in Cursor /\ o.hops = n /\ o.rest = b \o x
      BY <2>1, <2>3, CursorIs DEF At
    <3>3. b \o x # <<>> /\ Head(b \o x) = Head(b) /\ Tail(b \o x) = Tail(b) \o x
      BY <2>1, <2>6, HeadOfJoin DEF Texts
    <3>4. Ends(t)[o] = Ends(t)[Turn(t, o)]
      BY <2>4, <3>2, <3>3, EndsIs
    <3>5. Turn(t, o) = onto(u) /\ u.hops >= n
      <4> DEFINE c == Head(b)
                 k == Append(a, c)
                 e == Clean(t[k].abs, t[k].to)
                 m == IF t[k].abs THEN <<>> ELSE a
      <4>1. /\ c = Up => u = At(Parent(a), Tail(b), n)
            /\ c # Up /\ ~IsKind(t, k, "link") => u = At(k, Tail(b), n)
            /\ c # Up /\ IsKind(t, k, "link") => u = At(m, e \o Tail(b), n + 1)
            /\ Tail(b) \in Texts
        BY <2>1, <2>6, TurnIs
      <4>2. /\ c = Up => Turn(t, o) = At(Parent(a), Tail(b) \o x, n)
            /\ c # Up /\ ~IsKind(t, k, "link") => Turn(t, o) = At(k, Tail(b) \o x, n)
            /\ c # Up /\ IsKind(t, k, "link") => Turn(t, o) = At(m, e \o (Tail(b) \o x), n + 1)
        <5> DEFINE w == b \o x
        <5>1. w \in Texts /\ w # <<>> /\ Head(w) = Head(b) /\ Tail(w) = Tail(b) \o x /\ o = At(a, w, n)
          BY <2>3, <3>3
        <5> HIDE DEF w
        <5>2. Head(w) = Up => Turn(t, At(a, w, n)) = At(Parent(a), Tail(w), n)
          BY <2>1, <5>1, TurnIs
        <5>3. Head(w) # Up /\ ~IsKind(t, Append(a, Head(w)), "link") =>
                Turn(t, At(a, w, n)) = At(Append(a, Head(w)), Tail(w), n)
          BY <2>1, <5>1, TurnIs
        <5>4. Head(w) # Up /\ IsKind(t, Append(a, Head(w)), "link") =>
                Turn(t, At(a, w, n)) =
                  At(IF t[Append(a, Head(w))].abs THEN <<>> ELSE a,
                     Clean(t[Append(a, Head(w))].abs, t[Append(a, Head(w))].to) \o Tail(w), n + 1)
          BY <2>1, <5>1, TurnIs
        <5> QED
          BY <5>1, <5>2, <5>3, <5>4
      <4>3. IsKind(t, k, "link") => e \in Texts
        BY CleanIs DEF IsKind, Typed
      <4> HIDE DEF u, c, k, e, m
      <4>4. CASE c = Up
        <5>1. u.resolved = Parent(a) /\ u.rest = Tail(b) /\ u.hops = n
          BY <4>1, <4>4 DEF At
        <5> QED
          BY <2>1, <4>2, <4>4, <5>1
      <4>5. CASE c # Up /\ ~IsKind(t, k, "link")
        <5>1. u.resolved = k /\ u.rest = Tail(b) /\ u.hops = n
          BY <4>1, <4>5 DEF At
        <5> QED
          BY <2>1, <4>2, <4>5, <5>1
      <4>6. CASE c # Up /\ IsKind(t, k, "link")
        <5>1. (e \o Tail(b)) \o x = e \o (Tail(b) \o x)
          <6>1. e \in Texts /\ Tail(b) \in Texts /\ x \in Texts
            BY <4>1, <4>3, <4>6
          <6> QED
            BY <6>1, JoinedInTurn
        <5>2. u = At(m, e \o Tail(b), n + 1) /\ Turn(t, o) = At(m, (e \o Tail(b)) \o x, n + 1)
          BY <4>1, <4>2, <4>6, <5>1
        <5>3. u.resolved = m /\ u.rest = e \o Tail(b) /\ u.hops = n + 1
          BY <5>2 DEF At
        <5>4. u.hops >= n
          BY <2>1, <5>3
        <5> QED
          BY <5>2, <5>3, <5>4, Zenon
      <4> QED
        BY <4>4, <4>5, <4>6
    <3>6. PICK g \in Nat : g >= u.hops /\ Ends(t)[onto(u)] = Ends(t)[At(q, x, g)]
      BY <3>1
    <3> HIDE DEF u
    <3>7. u.hops \in Nat /\ g >= n
      BY <2>1, <3>1, <3>5, <3>6, CursorIs
    <3> HIDE DEF onto
    <3>8. Ends(t)[o] = Ends(t)[At(q, x, g)]
      BY <3>4, <3>5, <3>6
    <3> QED
      BY <3>6, <3>7, <3>8 DEF o, n
  <2> QED
    BY <2>5, <2>6
<1> HIDE DEF G
<1>2. At(r, y, h) \in G
  BY <1>1, TurnInduction, CursorIs
<1>3. At(r, y, h).hops = h /\ onto(At(r, y, h)) = At(r, y \o x, h)
  BY DEF At
<1> HIDE DEF onto
<1> QED
  BY <1>2, <1>3 DEF G

\* Names that lead along no link lead where they say.
LEMMA NamesWalked ==
  ASSUME NEW t, Typed(t), NEW r \in Seq(Names), NEW y \in Seq(Names), NEW x \in Texts, NEW h \in Nat,
         Plain(t, r \o y)
  PROVE  Ends(t)[At(r, y \o x, h)] = Ends(t)[At(r \o y, x, h)]
<1> DEFINE G == {n \in Nat : \A a, b \in Seq(Names) : Len(b) = n /\ Plain(t, a \o b) =>
                   Ends(t)[At(a, b \o x, h)] = Ends(t)[At(a \o b, x, h)]}
<1>1. 0 \in G
  <2> SUFFICES ASSUME NEW a \in Seq(Names), NEW b \in Seq(Names), Len(b) = 0
               PROVE  Ends(t)[At(a, b \o x, h)] = Ends(t)[At(a \o b, x, h)]
    OBVIOUS
  <2>1. b = <<>>
    BY EmptySeq
  <2>2. b \o x = x /\ a \o b = a
    BY <2>1, ConcatEmptySeq DEF Texts
  <2> QED
    BY <2>2
<1>2. ASSUME NEW n \in Nat, n \in G PROVE n + 1 \in G
  <2> SUFFICES ASSUME NEW a \in Seq(Names), NEW b \in Seq(Names), Len(b) = n + 1, Plain(t, a \o b)
               PROVE  Ends(t)[At(a, b \o x, h)] = Ends(t)[At(a \o b, x, h)]
    OBVIOUS
  <2> DEFINE c == Head(b)
             k == Append(a, c)
             d == Tail(b)
             s == At(a, b \o x, h)
  <2>1. b # <<>> /\ b \in Texts
    BY EmptySeq, SeqMonotonic DEF Texts
  <2>2. c \in Names /\ d \in Seq(Names) /\ Len(d) = n /\ k \in Seq(Names) /\ c # Up
    BY <2>1, HeadAndTail, OneMore, RootFSAssumption
  <2>3. b \o x \in Texts /\ b \o x # <<>> /\ Head(b \o x) = c /\ Tail(b \o x) = d \o x
    BY <2>1, ConcatProperties, HeadOfJoin DEF Texts
  <2>4. a \o b = k \o d /\ IsPrefix(k, a \o b) /\ a \o b \in Seq(Names)
    BY <2>1, JoinByOne, ConcatProperties
  <2>5. ~IsKind(t, k, "link")
    BY <2>2, <2>4, UpTo DEF Plain
  <2>6. s \in Cursor /\ s.hops = h /\ s.rest = b \o x /\ s.resolved = a
    BY <2>3, CursorIs DEF At
  <2>7. Turn(t, s) = At(k, d \o x, h)
    <3> DEFINE w == b \o x
    <3>1. w \in Texts /\ w # <<>> /\ Head(w) = c /\ Tail(w) = d \o x
      BY <2>3
    <3> HIDE DEF w
    <3>2. Head(w) # Up /\ ~IsKind(t, Append(a, Head(w)), "link") =>
            Turn(t, At(a, w, h)) = At(Append(a, Head(w)), Tail(w), h)
      BY <3>1, TurnIs
    <3>3. Turn(t, At(a, w, h)) = At(k, d \o x, h)
      BY <2>2, <2>5, <3>1, <3>2
    <3> QED
      BY <3>3 DEF w
  <2>8. Ends(t)[s] = IF h > MaxSymlinkHops THEN {} ELSE Ends(t)[At(k, d \o x, h)]
    BY <2>3, <2>6, <2>7, EndsIs
  <2>9. Ends(t)[At(k, d \o x, h)] = Ends(t)[At(k \o d, x, h)]
    BY <1>2, <2>2, <2>4
  <2>10. CASE h > MaxSymlinkHops
    <3> DEFINE v == At(a \o b, x, h)
    <3>1. v \in Cursor /\ v.hops = h
      BY <2>4, CursorIs DEF At
    <3> HIDE DEF v
    <3>2. Ends(t)[v] = {}
      BY <2>10, <3>1, EndsIs
    <3> QED
      BY <2>8, <2>10, <3>2 DEF v
  <2>11. CASE ~(h > MaxSymlinkHops)
    BY <2>4, <2>8, <2>9, <2>11
  <2> QED
    BY <2>10, <2>11
<1> HIDE DEF G
<1>3. Len(y) \in G
  BY <1>1, <1>2, CountUp, LenProperties
<1> QED
  BY <1>3 DEF G

\* The same from the root.
LEMMA WalkedFromRoot ==
  ASSUME NEW t, Typed(t), NEW y \in Seq(Names), NEW x \in Texts, Plain(t, y)
  PROVE  Resolve(t, y \o x) = Ends(t)[At(y, x, 0)]
<1> DEFINE root == <<>>
<1>1. root \in Seq(Names) /\ root \o y = y /\ 0 \in Nat
  BY EmptySeq, ConcatEmptySeq
<1>2. Resolve(t, y \o x) = Ends(t)[At(root, y \o x, 0)]
  BY ResolveIs
<1> HIDE DEF root
<1>3. Plain(t, root \o y)
  BY <1>1
<1>4. Ends(t)[At(root, y \o x, 0)] = Ends(t)[At(root \o y, x, 0)]
  <2>1. root \in Seq(Names) /\ 0 \in Nat
    BY <1>1
  <2> DEFINE zero == 0
  <2>2. zero \in Nat
    OBVIOUS
  <2> HIDE DEF zero
  <2>3. Ends(t)[At(root, y \o x, zero)] = Ends(t)[At(root \o y, x, zero)]
    BY <2>1, <2>2, <1>3, NamesWalked
  <2> QED
    BY <2>3 DEF zero
<1> QED
  BY <1>1, <1>2, <1>4

\* A text taken from a place leads where it leads as text joined to the place, if
\* no name of the place is a link.
LEMMA JoinedText ==
  ASSUME NEW t, Typed(t), NEW start \in Seq(Names), Plain(t, start), NEW c \in Texts, UpsFirst(c)
  PROVE  Ends(t)[At(start, c, 0)] = Resolve(t, Clean(TRUE, start \o c))
<1> DEFINE G == {n \in Nat : \A a \in Seq(Names), b \in Texts :
                   Plain(t, a) /\ UpsFirst(b) /\ Len(b) = n =>
                     Ends(t)[At(a, b, 0)] = Resolve(t, Clean(TRUE, a \o b))}
<1>0. ASSUME NEW a \in Seq(Names), NEW b \in Seq(Names), Plain(t, a)
      PROVE  Ends(t)[At(a, b, 0)] = Resolve(t, Clean(TRUE, a \o b))
  <2>1. a \o b \in Seq(Names) /\ b \in Texts /\ <<>> \in Seq(Names)
    BY ConcatProperties, SeqMonotonic, EmptySeq DEF Texts
  <2>2. Clean(TRUE, a \o b) = a \o b
    BY <2>1, CleanNames
  <2>3. Resolve(t, a \o b) = Ends(t)[At(a, b, 0)]
    BY <1>0, <2>1, WalkedFromRoot
  <2> QED
    BY <2>2, <2>3
<1>1. 0 \in G
  <2> SUFFICES ASSUME NEW a \in Seq(Names), NEW b \in Texts, Plain(t, a), Len(b) = 0
               PROVE  Ends(t)[At(a, b, 0)] = Resolve(t, Clean(TRUE, a \o b))
    OBVIOUS
  <2>1. b = <<>> /\ b \in Seq(Names)
    BY EmptySeq DEF Texts
  <2> QED
    BY <1>0, <2>1
<1>2. ASSUME NEW n \in Nat, n \in G PROVE n + 1 \in G
  <2> SUFFICES \A a \in Seq(Names), b \in Texts :
                 Plain(t, a) /\ UpsFirst(b) /\ Len(b) = n + 1 =>
                   Ends(t)[At(a, b, 0)] = Resolve(t, Clean(TRUE, a \o b))
    <3>1. n + 1 \in Nat
      OBVIOUS
    <3> QED
      BY <3>1, Zenon
  <2> SUFFICES ASSUME NEW a \in Seq(Names), NEW b \in Texts, Plain(t, a), UpsFirst(b), Len(b) = n + 1
               PROVE  Ends(t)[At(a, b, 0)] = Resolve(t, Clean(TRUE, a \o b))
    BY Zenon
  <2>1. /\ b # <<>> /\ Head(b) = b[1] /\ Tail(b) \in Texts /\ Len(Tail(b)) = n
        /\ \A i \in 1..n : Tail(b)[i] = b[i + 1]
    <3>1. b # <<>>
      BY EmptySeq
    <3>2. n + 1 - 1 = n
      OBVIOUS
    <3> QED
      BY <3>1, <3>2, HeadAndTail DEF Texts
  <2>2. CASE Head(b) = Up
    <3> DEFINE s == At(a, b, 0)
               d == Tail(b)
    <3>1. s \in Cursor /\ s.hops = 0 /\ s.rest = b
      BY CursorIs DEF At
    <3>2. Turn(t, s) = At(Parent(a), d, 0)
      BY <2>1, <2>2, TurnIs
    <3>3. Ends(t)[s] = Ends(t)[At(Parent(a), d, 0)]
      <4>1. ~(s.hops > MaxSymlinkHops)
        BY <3>1, RootFSAssumption
      <4> QED
        BY <2>1, <3>1, <3>2, <4>1, EndsIs
    <3>4. Parent(a) \in Seq(Names) /\ Plain(t, Parent(a))
      BY FrontAndLast, EmptySeq, PlainIs DEF Parent
    <3>5. UpsFirst(d)
      <4> SUFFICES ASSUME NEW i \in 1..Len(d), d[i] = Up, NEW j \in 1..i PROVE d[j] = Up
        BY DEF UpsFirst
      <4>1. i \in 1..n /\ j \in 1..n /\ i + 1 \in 1..Len(b) /\ j + 1 \in 1..(i + 1)
        BY <2>1
      <4>2. b[i + 1] = Up
        BY <2>1, <4>1
      <4>3. b[j + 1] = Up
        BY <4>1, <4>2 DEF UpsFirst
      <4> QED
        BY <2>1, <4>1, <4>3
    <3>6. Ends(t)[At(Parent(a), d, 0)] = Resolve(t, Clean(TRUE, Parent(a) \o d))
      BY <1>2, <2>1, <3>4, <3>5
    <3>7. Clean(TRUE, a \o b) = Clean(TRUE, Parent(a) \o d)
      BY <2>1, <2>2, CleanUp
    <3> QED
      BY <3>3, <3>6, <3>7
  <2>3. CASE Head(b) # Up
    <3>1. \A i \in 1..Len(b) : b[i] # Up
      <4>1. \A i \in 1..Len(b) : 1 \in 1..i
        OBVIOUS
      <4> QED
        BY <2>1, <2>3, <4>1 DEF UpsFirst
    <3>2. \A i \in 1..Len(b) : b[i] \in Names
      BY <3>1, ElementOfSeq DEF Texts
    <3>3. b \in Seq(Names)
      <4>1. b = [i \in 1..(n + 1) |-> b[i]]
        BY LenProperties DEF Texts
      <4>2. b \in [1..(n + 1) -> Names]
        BY <3>2, <4>1
      <4> QED
        BY <4>2, SeqDef
    <3> QED
      BY <1>0, <3>3
  <2> QED
    BY <2>2, <2>3
<1> HIDE DEF G
<1>3. Len(c) \in G
  BY <1>1, <1>2, CountUp, LenProperties DEF Texts
<1> QED
  BY <1>3 DEF G

\* What a node lies in is a directory, up to the root.
LEMMA TreeIs ==
  ASSUME NEW t, NEW data, IsTree(t, data)
  PROVE  /\ Typed(t)
         /\ \A p \in DOMAIN t : p \in Seq(Names) /\ p # <<>> /\ \A q \in Above(p) : IsDir(t, q)
<1>1. Typed(t)
  <2> SUFFICES ASSUME NEW p \in DOMAIN t, t[p].kind = "link"
               PROVE  t[p].abs \in BOOLEAN /\ t[p].to \in Texts
    BY DEF Typed, IsTree
  <2>1. t[p] \in Nodes(data)
    BY DEF IsTree
  <2> QED
    BY <2>1 DEF Nodes, Texts
<1> DEFINE G == {n \in Nat : \A p \in DOMAIN t : Len(p) = n => \A q \in Above(p) : IsDir(t, q)}
<1>2. \A p \in DOMAIN t : p \in Seq(Names) /\ p # <<>> /\ IsDir(t, Front(p))
  BY DEF IsTree
<1>3. 0 \in G
  BY <1>2, EmptySeq
<1>4. ASSUME NEW n \in Nat, n \in G PROVE n + 1 \in G
  <2> SUFFICES ASSUME NEW p \in DOMAIN t, Len(p) = n + 1, NEW q \in Above(p) PROVE IsDir(t, q)
    OBVIOUS
  <2>1. p \in Seq(Names) /\ p # <<>> /\ IsDir(t, Front(p)) /\ Len(Front(p)) = n
    BY <1>2, FrontAndLast
  <2>2. q = Front(p) \/ q \in Above(Front(p))
    BY <2>1, AboveFront
  <2>3. CASE q = Front(p)
    BY <2>1, <2>3
  <2>4. CASE q \in Above(Front(p))
    <3>1. Front(p) # <<>>
      BY <2>4, AboveRoot
    <3>2. Front(p) \in DOMAIN t
      BY <2>1, <3>1 DEF IsDir, IsKind
    <3> QED
      BY <1>4, <2>1, <2>4, <3>2
  <2> QED
    BY <2>2, <2>3, <2>4
<1> HIDE DEF G
<1>5. \A p \in DOMAIN t : Len(p) \in G
  <2>1. \A n \in Nat : n \in G
    BY <1>3, <1>4, CountUp
  <2> QED
    BY <1>2, <2>1, LenProperties
<1> QED
  BY <1>1, <1>2, <1>5 DEF G

\* Nothing above a node is a link.
LEMMA NodeIsPlain ==
  ASSUME NEW t, NEW data, IsTree(t, data), NEW p \in DOMAIN t
  PROVE  p \in Seq(Names) /\ p # <<>> /\ Front(p) \in Seq(Names) /\ Plain(t, Front(p))
<1>1. p \in Seq(Names) /\ p # <<>> /\ \A q \in Above(p) : IsDir(t, q)
  BY TreeIs
<1>2. Above(p) = Above(Front(p)) \cup {Front(p)} /\ Front(p) \in Seq(Names)
  BY <1>1, AboveFront, FrontAndLast
<1>3. \A q \in Above(p) : ~IsKind(t, q, "link")
  <2>1. <<>> \notin DOMAIN t
    BY DEF IsTree
  <2> QED
    BY <1>1, <2>1 DEF IsDir, IsKind
<1> QED
  BY <1>1, <1>2, <1>3 DEF Plain

\* From the root a name resolves to one place at most, and the way there is plain.
LEMMA RootCursor ==
  ASSUME NEW t, Typed(t), NEW name \in Texts
  PROVE  /\ At(<<>>, name, 0) \in Cursor /\ Plain(t, <<>>)
         /\ \E r \in Seq(Names) : Resolve(t, name) \subseteq {r}
         /\ \A p \in Resolve(t, name) : p \in Seq(Names) /\ Plain(t, p) /\ Resolve(t, name) = {p}
<1> DEFINE s == At(<<>>, name, 0)
<1>1. s \in Cursor /\ s.resolved = <<>>
  <2>1. <<>> \in Seq(Names) /\ 0 \in Nat
    BY EmptySeq
  <2> QED
    BY <2>1, CursorIs DEF At
<1>2. Plain(t, <<>>)
  BY PlainIs
<1>3. Resolve(t, name) = Ends(t)[s]
  BY ResolveIs
<1> HIDE DEF s
<1>4. PICK r \in Seq(Names) : Ends(t)[s] \subseteq {r}
  BY <1>1, OneEnd
<1>5. \A p \in Ends(t)[s] : Plain(t, p)
  BY <1>1, <1>2, EndsArePlain
<1> QED
  BY <1>1, <1>2, <1>3, <1>4, <1>5 DEF s

\* What ResolvesPlainly says, of any tree and any name.
LEMMA PlainlyResolved ==
  ASSUME NEW t, NEW data, IsTree(t, data), NEW name \in Seq(Names), NEW p \in Resolve(t, name)
  PROVE  /\ \A q \in Above(p) \cup {p} : ~IsKind(t, q, "link")
         /\ name # <<>> => \A parent \in Resolve(t, Front(name)) :
                             Resolve(t, Append(parent, Last(name))) = {p}
         /\ IsKind(t, name, "link") =>
              LET link == t[name]
                  start == IF link.abs THEN <<>> ELSE Front(name)
              IN Resolve(t, Clean(TRUE, start \o Clean(link.abs, link.to))) = {p}
<1>0. Typed(t) /\ name \in Texts /\ <<>> \in Seq(Names) /\ 0 \in Nat
  BY TreeIs, SeqMonotonic, EmptySeq DEF Texts
<1>1. Resolve(t, name) = {p} /\ Plain(t, p) /\ Plain(t, <<>>)
  BY <1>0, RootCursor
<1> DEFINE y == Front(name)
           c == Last(name)
           x == <<c>>
<1>2. ASSUME name # <<>>
      PROVE  y \in Seq(Names) /\ y \in Texts /\ c \in Names /\ c # Up /\ x \in Texts /\ name = y \o x
  <2>1. y \in Seq(Names) /\ c \in Names /\ name = Append(y, c)
    BY <1>2, FrontAndLast
  <2>2. y \in Texts /\ x \in Texts /\ c # Up
    BY <2>1, SeqMonotonic, RootFSAssumption DEF Texts
  <2> QED
    BY <2>1, <2>2, AppendIsConcat
<1> HIDE DEF y, c, x
<1>3. ASSUME name # <<>>, NEW parent \in Resolve(t, y) PROVE Resolve(t, Append(parent, c)) = {p}
  <2>1. parent \in Seq(Names) /\ Plain(t, parent)
    BY <1>0, <1>2, <1>3, RootCursor
  <2>2. PICK g \in Nat : Ends(t)[At(<<>>, y \o x, 0)] = Ends(t)[At(parent, x, g)]
    <3>1. parent \in Ends(t)[At(<<>>, y, 0)]
      BY <1>3, ResolveIs
    <3> DEFINE root == <<>>
    <3>2. root \in Seq(Names) /\ parent \in Ends(t)[At(root, y, 0)]
      BY <1>0, <3>1
    <3> HIDE DEF root
    <3>3. \E g \in Nat : g >= 0 /\ Ends(t)[At(root, y \o x, 0)] = Ends(t)[At(parent, x, g)]
      BY <1>0, <1>2, <1>3, <3>2, RestGoesOn
    <3> QED
      BY <3>3 DEF root
  <2>3. Ends(t)[At(parent, x, g)] = {p}
    BY <1>1, <1>2, <1>3, <2>2, ResolveIs
  <2>4. Ends(t)[At(parent, x, 0)] = {p}
    <3>1. 0 \in 0..g /\ Ends(t)[At(parent, x, g)] # {}
      BY <2>3
    <3>2. Ends(t)[At(parent, x, 0)] = Ends(t)[At(parent, x, g)]
      BY <1>0, <1>2, <1>3, <2>1, <3>1, FewerHops
    <3> QED
      BY <2>3, <3>2
  <2>5. Resolve(t, parent \o x) = Ends(t)[At(parent, x, 0)]
    BY <1>0, <1>2, <1>3, <2>1, WalkedFromRoot
  <2>6. Append(parent, c) = parent \o x
    BY <1>2, <1>3, <2>1, AppendIsConcat DEF x
  <2> QED
    BY <2>4, <2>5, <2>6
<1>4. ASSUME IsKind(t, name, "link")
      PROVE  LET link == t[name]
                 start == IF link.abs THEN <<>> ELSE y
             IN Resolve(t, Clean(TRUE, start \o Clean(link.abs, link.to))) = {p}
  <2> DEFINE link == t[name]
             start == IF link.abs THEN <<>> ELSE y
             e == Clean(link.abs, link.to)
  <2>1. name # <<>> /\ Plain(t, y)
    BY <1>4, NodeIsPlain DEF IsKind, y
  <2>2. y \in Seq(Names) /\ c \in Names /\ c # Up /\ x \in Texts /\ name = y \o x /\ Append(y, c) = name
    BY <1>2, <2>1, AppendIsConcat DEF x
  <2>3. link.to \in Texts
    BY <1>0, <1>4 DEF IsKind, Typed
  <2>4. e \in Texts /\ UpsFirst(e) /\ start \in Seq(Names) /\ Plain(t, start)
    BY <1>0, <1>1, <2>1, <2>2, <2>3, CleanIs
  <2>5. Resolve(t, y \o x) = Ends(t)[At(y, x, 0)]
    BY <1>0, <2>1, <2>2, WalkedFromRoot
  <2>6. Ends(t)[At(y, x, 0)] = Ends(t)[At(start, e, 1)]
    <3> DEFINE s == At(y, x, 0)
    <3>1. s \in Cursor /\ s.hops = 0 /\ s.rest = x
      BY <1>0, <2>2, CursorIs DEF At
    <3>2. x # <<>> /\ Head(x) = c /\ Tail(x) = <<>>
      BY DEF x
    <3>3. Turn(t, s) = At(IF t[Append(y, Head(x))].abs THEN <<>> ELSE y,
                          Clean(t[Append(y, Head(x))].abs, t[Append(y, Head(x))].to) \o Tail(x), 0 + 1)
      <4>1. Head(x) # Up /\ IsKind(t, Append(y, Head(x)), "link")
        BY <1>4, <2>2, <3>2
      <4> QED
        BY <1>0, <2>2, <3>2, <4>1, TurnIs
    <3>4. e \o <<>> = e
      BY <2>4, ConcatEmptySeq DEF Texts
    <3>5. Turn(t, s) = At(start, e, 1)
      <4>1. Append(y, Head(x)) = name /\ 0 + 1 = 1
        BY <2>2, <3>2
      <4>2. Turn(t, s) = At(start, e \o <<>>, 0 + 1)
        BY <3>2, <3>3, <4>1
      <4> HIDE DEF s, start, e
      <4> QED
        BY <3>4, <4>1, <4>2
    <3>6. ~(s.hops > MaxSymlinkHops)
      BY <3>1, RootFSAssumption
    <3> HIDE DEF s
    <3>7. Ends(t)[s] = Ends(t)[Turn(t, s)]
      BY <1>0, <3>1, <3>2, <3>6, EndsIs
    <3> QED
      BY <3>5, <3>7 DEF s
  <2>7. Ends(t)[At(start, e, 1)] = {p}
    BY <1>1, <2>2, <2>5, <2>6
  <2> HIDE DEF e, start, link
  <2>8. Ends(t)[At(start, e, 0)] = {p}
    <3>1. 0 \in 0..1 /\ 1 \in Nat /\ Ends(t)[At(start, e, 1)] # {}
      BY <2>7
    <3>2. Ends(t)[At(start, e, 0)] = Ends(t)[At(start, e, 1)]
      BY <1>0, <2>4, <3>1, FewerHops
    <3> QED
      BY <2>7, <3>2
  <2>9. Resolve(t, Clean(TRUE, start \o e)) = {p}
    BY <1>0, <2>4, <2>8, JoinedText
  <2> QED
    BY <2>9 DEF e, start, link
<1> QED
  BY <1>1, <1>3, <1>4 DEF Plain, y, c

-----------------------------------------------------------------------------
(* What a walk accounts for                                                *)

\* Some number of a set of them is the least.
LEMMA LeastOf ==
  ASSUME NEW P, P \subseteq Nat, P # {}
  PROVE  \E x \in P : \A y \in P : x <= y
<1> DEFINE R == {ss \in Nat \X Nat : ss[1] < ss[2]}
<1>1. IsWellFoundedOn(R, Nat)
  BY NatLessThanWellFounded DEF OpToRel
<1> HIDE DEF R
<1>2. PICK x \in P : \A y \in P : <<y, x>> \notin R
  BY <1>1, WFMin
<1>3. ASSUME NEW y \in P PROVE x <= y
  <2>1. x \in Nat /\ y \in Nat
    OBVIOUS
  <2>2. <<y, x>> \in R <=> y < x
    BY <2>1 DEF R
  <2> QED
    BY <1>2, <2>1, <2>2
<1> QED
  BY <1>3

\* Once a text has come to a name, names are all that is left of it.
LEMMA TextParts ==
  ASSUME NEW c \in Texts, UpsFirst(c), c # <<>>
  PROVE  /\ Tail(c) \in Texts /\ UpsFirst(Tail(c))
         /\ Head(c) # Up => c \in Seq(Names) /\ Tail(c) \in Seq(Names)
<1>1. /\ Len(c) \in Nat \ {0} /\ Head(c) = c[1] /\ Tail(c) \in Texts /\ Len(Tail(c)) = Len(c) - 1
      /\ \A i \in 1..(Len(c) - 1) : Tail(c)[i] = c[i + 1]
  BY HeadAndTail DEF Texts
<1>2. UpsFirst(Tail(c))
  <2> SUFFICES ASSUME NEW i \in 1..Len(Tail(c)), Tail(c)[i] = Up, NEW j \in 1..i PROVE Tail(c)[j] = Up
    BY DEF UpsFirst
  <2>1. i \in 1..(Len(c) - 1) /\ j \in 1..(Len(c) - 1) /\ i + 1 \in 1..Len(c) /\ j + 1 \in 1..(i + 1)
    BY <1>1
  <2>2. c[i + 1] = Up
    BY <1>1, <2>1
  <2>3. c[j + 1] = Up
    BY <2>1, <2>2 DEF UpsFirst
  <2> QED
    BY <1>1, <2>1, <2>3
<1>3. ASSUME Head(c) # Up PROVE c \in Seq(Names)
  <2>1. \A i \in 1..Len(c) : c[i] # Up
    <3>1. \A i \in 1..Len(c) : 1 \in 1..i
      OBVIOUS
    <3> QED
      BY <1>1, <1>3, <3>1 DEF UpsFirst
  <2>2. \A i \in 1..Len(c) : c[i] \in Names
    BY <2>1, ElementOfSeq DEF Texts
  <2>3. c \in [1..Len(c) -> Names]
    <3>1. c = [i \in 1..Len(c) |-> c[i]]
      BY LenProperties DEF Texts
    <3> QED
      BY <2>2, <3>1
  <2> QED
    BY <1>1, <2>3, SeqDef
<1>4. ASSUME Head(c) # Up PROVE Tail(c) \in Seq(Names)
  BY <1>3, <1>4, HeadAndTail
<1> QED
  BY <1>1, <1>2, <1>3, <1>4

\* Names after a cleaned text make a cleaned text.
LEMMA TextJoined ==
  ASSUME NEW a \in Texts, UpsFirst(a), NEW b \in Seq(Names)
  PROVE  a \o b \in Texts /\ UpsFirst(a \o b)
<1>1. b \in Texts
  BY SeqMonotonic DEF Texts
<1>2. /\ a \o b \in Texts /\ Len(a \o b) = Len(a) + Len(b) /\ Len(a) \in Nat /\ Len(b) \in Nat
      /\ \A i \in 1..(Len(a) + Len(b)) : (a \o b)[i] = IF i <= Len(a) THEN a[i] ELSE b[i - Len(a)]
  BY <1>1, ConcatProperties, LenProperties DEF Texts
<1>3. \A i \in 1..Len(b) : b[i] # Up
  BY ElementOfSeq, RootFSAssumption
<1> DEFINE d == a \o b
<1> HIDE DEF d
<1>4. ASSUME NEW i \in 1..Len(d), d[i] = Up, NEW j \in 1..i PROVE d[j] = Up
  <2>1. i \in 1..(Len(a) + Len(b)) /\ j \in 1..(Len(a) + Len(b))
    BY <1>2 DEF d
  <2>2. CASE i <= Len(a)
    <3>1. d[i] = a[i] /\ d[j] = a[j] /\ i \in 1..Len(a)
      BY <1>2, <2>1, <2>2 DEF d
    <3> QED
      BY <1>4, <3>1 DEF UpsFirst
  <2>3. CASE ~(i <= Len(a))
    <3>1. d[i] = b[i - Len(a)] /\ i - Len(a) \in 1..Len(b)
      BY <1>2, <2>1, <2>3 DEF d
    <3> QED
      BY <1>3, <1>4, <3>1
  <2> QED
    BY <2>2, <2>3
<1> QED
  BY <1>2, <1>4 DEF UpsFirst, d

\* A path of names is a cleaned text.
LEMMA NamesAreText ==
  ASSUME NEW c \in Seq(Names)
  PROVE  c \in Texts /\ UpsFirst(c)
<1>1. \A i \in 1..Len(c) : c[i] # Up
  BY ElementOfSeq, RootFSAssumption
<1> QED
  BY <1>1, SeqMonotonic DEF Texts, UpsFirst

\* What is seen of a tree is a tree, and what is in it is searchable.
LEMMA FoundIs ==
  ASSUME NEW t, NEW den, Typed(t)
  PROVE  /\ Typed(Found(t, den))
         /\ DOMAIN Found(t, den) = {p \in DOMAIN t : Searchable(den, p)}
         /\ \A p \in DOMAIN Found(t, den) : Found(t, den)[p] = t[p]
BY DEF Found, Restrict, Typed

\* What lies under an unsearchable place does so, name after name.
LEMMA LostBelow ==
  ASSUME NEW t, NEW den, Typed(t), NEW s \in Cursor, ~Searchable(den, s.resolved), s.rest \in Seq(Names),
         NEW h \in Ends(Found(t, den))[s]
  PROVE  ~Searchable(den, h)
<1> DEFINE f == Found(t, den)
           G == {z \in Cursor : ~Searchable(den, z.resolved) /\ z.rest \in Seq(Names) =>
                                  \A p \in Ends(f)[z] : ~Searchable(den, p)}
<1>1. /\ Typed(f)
      /\ DOMAIN f = {p \in DOMAIN t : Searchable(den, p)}
  BY FoundIs
<1> HIDE DEF f
<1>2. ASSUME NEW z \in Cursor, z.hops > MaxSymlinkHops \/ z.rest = <<>> \/ Turn(f, z) \in G
      PROVE  z \in G
  <2> SUFFICES ASSUME ~Searchable(den, z.resolved), z.rest \in Seq(Names), NEW p \in Ends(f)[z]
               PROVE  ~Searchable(den, p)
    OBVIOUS
  <2>1. Ends(f)[z] = IF z.hops > MaxSymlinkHops THEN {}
                     ELSE IF z.rest = <<>> THEN {z.resolved} ELSE Ends(f)[Turn(f, z)]
    BY <1>1, EndsIs
  <2>2. CASE z.hops > MaxSymlinkHops \/ z.rest = <<>>
    BY <2>1, <2>2
  <2>3. CASE ~(z.hops > MaxSymlinkHops \/ z.rest = <<>>)
    <3> DEFINE a == z.resolved
               b == z.rest
               n == z.hops
               k == Append(a, Head(b))
               u == Turn(f, z)
    <3>1. a \in Seq(Names) /\ b \in Texts /\ n \in Nat /\ z = At(a, b, n)
      BY CursorIs
    <3>2. b \in Seq(Names) /\ b # <<>> /\ Head(b) \in Names /\ Head(b) # Up /\ Tail(b) \in Seq(Names)
      BY <2>3, HeadAndTail, RootFSAssumption
    <3> HIDE DEF a, b, n, u
    <3>3. Above(k) = Above(a) \cup {a}
      BY <3>1, <3>2, AboveAppend
    <3>4. ~Searchable(den, k)
      BY <3>3 DEF Searchable, a
    <3>5. ~IsKind(f, k, "link")
      BY <1>1, <3>4 DEF IsKind
    <3>6. Turn(f, At(a, b, n)) = At(k, Tail(b), n)
      BY <1>1, <3>1, <3>2, <3>5, TurnIs
    <3>7. u.resolved = k /\ u.rest = Tail(b) /\ u \in G
      BY <1>2, <2>3, <3>1, <3>6 DEF u, At
    <3>8. Ends(f)[z] = Ends(f)[u]
      BY <2>1, <2>3 DEF u
    <3> HIDE DEF k
    <3> QED
      BY <3>2, <3>4, <3>7, <3>8
  <2> QED
    BY <2>2, <2>3
<1> HIDE DEF G
<1>3. s \in G
  BY <1>1, <1>2, TurnInduction
<1> QED
  BY <1>3 DEF G, f

\* A name leads where it leads in truth, or into an unsearchable directory.
LEMMA FoundOrLost ==
  ASSUME NEW t, NEW den, Typed(t), NEW s \in Cursor, UpsFirst(s.rest)
  PROVE  \/ Ends(Found(t, den))[s] = Ends(t)[s]
         \/ \A h \in Ends(Found(t, den))[s] : ~Searchable(den, h)
<1> DEFINE f == Found(t, den)
           G == {z \in Cursor : UpsFirst(z.rest) =>
                                  \/ Ends(f)[z] = Ends(t)[z]
                                  \/ \A h \in Ends(f)[z] : ~Searchable(den, h)}
<1>1. /\ Typed(f)
      /\ DOMAIN f = {p \in DOMAIN t : Searchable(den, p)}
      /\ \A p \in DOMAIN f : f[p] = t[p]
  BY FoundIs
<1>2. ASSUME NEW z \in Cursor, ~Searchable(den, z.resolved), z.rest \in Seq(Names), NEW h \in Ends(f)[z]
      PROVE  ~Searchable(den, h)
  BY <1>2, LostBelow
<1> HIDE DEF f
<1>3. ASSUME NEW z \in Cursor, z.hops > MaxSymlinkHops \/ z.rest = <<>> \/ Turn(t, z) \in G
      PROVE  z \in G
  <2> SUFFICES ASSUME UpsFirst(z.rest)
               PROVE  \/ Ends(f)[z] = Ends(t)[z]
                      \/ \A h \in Ends(f)[z] : ~Searchable(den, h)
    OBVIOUS
  <2>1. Ends(f)[z] = IF z.hops > MaxSymlinkHops THEN {}
                     ELSE IF z.rest = <<>> THEN {z.resolved} ELSE Ends(f)[Turn(f, z)]
    BY <1>1, EndsIs
  <2>2. Ends(t)[z] = IF z.hops > MaxSymlinkHops THEN {}
                     ELSE IF z.rest = <<>> THEN {z.resolved} ELSE Ends(t)[Turn(t, z)]
    BY EndsIs
  <2>3. CASE z.hops > MaxSymlinkHops \/ z.rest = <<>>
    BY <2>1, <2>2, <2>3
  <2>4. CASE ~(z.hops > MaxSymlinkHops \/ z.rest = <<>>)
    <3> DEFINE a == z.resolved
               b == z.rest
               n == z.hops
               c == Head(b)
               k == Append(a, c)
               u == Turn(t, z)
               v == Turn(f, z)
    <3>1. a \in Seq(Names) /\ b \in Texts /\ n \in Nat /\ z = At(a, b, n) /\ b # <<>> /\ UpsFirst(b)
      BY <2>4, CursorIs
    <3>2. /\ Tail(b) \in Texts /\ UpsFirst(Tail(b)) /\ c \in Names \cup {Up}
          /\ c # Up => Tail(b) \in Seq(Names)
      BY <3>1, TextParts, HeadAndTail DEF Texts
    <3>3. /\ c = Up => u = At(Parent(a), Tail(b), n)
          /\ c # Up /\ ~IsKind(t, k, "link") => u = At(k, Tail(b), n)
          /\ c # Up /\ IsKind(t, k, "link") =>
               u = At(IF t[k].abs THEN <<>> ELSE a, Clean(t[k].abs, t[k].to) \o Tail(b), n + 1)
      BY <2>4, NextIs
    <3>4. /\ c = Up => v = At(Parent(a), Tail(b), n)
          /\ c # Up /\ ~IsKind(f, k, "link") => v = At(k, Tail(b), n)
          /\ c # Up /\ IsKind(f, k, "link") =>
               v = At(IF f[k].abs THEN <<>> ELSE a, Clean(f[k].abs, f[k].to) \o Tail(b), n + 1)
      BY <1>1, <2>4, NextIs
    <3>5. u \in Cursor /\ v \in Cursor /\ u \in G
      BY <1>1, <1>3, <2>4, TurnCursor
    <3>6. Ends(f)[z] = Ends(f)[v] /\ Ends(t)[z] = Ends(t)[u]
      BY <2>1, <2>2, <2>4
    <3>7. IsKind(t, k, "link") => Clean(t[k].abs, t[k].to) \in Texts /\ UpsFirst(Clean(t[k].abs, t[k].to))
      BY CleanIs DEF IsKind, Typed
    <3>8. IsKind(f, k, "link") => IsKind(t, k, "link") /\ f[k] = t[k]
      BY <1>1 DEF IsKind
    <3> HIDE DEF a, b, n, c, k, u, v
    <3>9. UpsFirst(u.rest)
      <4>1. CASE c = Up \/ ~IsKind(t, k, "link")
        <5>1. u.rest = Tail(b)
          BY <3>3, <4>1 DEF At
        <5> QED
          BY <3>2, <5>1
      <4>2. CASE c # Up /\ IsKind(t, k, "link")
        <5>1. u = At(IF t[k].abs THEN <<>> ELSE a, Clean(t[k].abs, t[k].to) \o Tail(b), n + 1)
          BY <3>3, <4>2
        <5>2. u.rest = Clean(t[k].abs, t[k].to) \o Tail(b)
          BY <5>1 DEF At
        <5>3. UpsFirst(Clean(t[k].abs, t[k].to) \o Tail(b))
          BY <3>2, <3>7, <4>2, TextJoined
        <5> QED
          BY <5>2, <5>3
      <4> QED
        BY <4>1, <4>2
    <3>10. CASE u = v
      BY <3>5, <3>6, <3>9, <3>10
    <3>11. CASE c # Up /\ IsKind(t, k, "link") /\ ~IsKind(f, k, "link")
      <4>1. v = At(k, Tail(b), n)
        BY <3>4, <3>11
      <4>2. ~Searchable(den, k)
        BY <1>1, <3>11 DEF IsKind
      <4>3. v.resolved = k /\ v.rest \in Seq(Names)
        BY <3>2, <3>11, <4>1 DEF At
      <4>4. \A h \in Ends(f)[v] : ~Searchable(den, h)
        BY <1>2, <3>5, <4>2, <4>3
      <4> QED
        BY <3>6, <4>4
    <3>12. CASE c = Up
      BY <3>3, <3>4, <3>10, <3>12
    <3>13. CASE c # Up /\ ~IsKind(t, k, "link")
      BY <3>3, <3>4, <3>8, <3>10, <3>13
    <3>14. CASE c # Up /\ IsKind(t, k, "link") /\ IsKind(f, k, "link")
      BY <3>3, <3>4, <3>8, <3>10, <3>14
    <3> QED
      BY <3>11, <3>12, <3>13, <3>14
  <2> QED
    BY <2>3, <2>4
<1> HIDE DEF G
<1>4. s \in G
  BY <1>3, TurnInduction
<1> QED
  BY <1>4 DEF G, f

\* The name a place has under the walk's base has the name of what is above it
\* for a prefix.
LEMMA TreeNames ==
  ASSUME NEW base \in Seq(Names), NEW host \in Seq(Names), NEW d \in Seq(Names), NEW q \in Seq(Names),
         IsPrefix(host, d), IsPrefix(d, q)
  PROVE  /\ TreeName(base, host, d) \in Seq(Names) /\ TreeName(base, host, q) \in Seq(Names)
         /\ IsPrefix(TreeName(base, host, d), TreeName(base, host, q))
         /\ IsPrefix(base, TreeName(base, host, q))
<1> DEFINE m == Len(host)
           x == SubSeq(d, m + 1, Len(d))
           y == SubSeq(q, m + 1, Len(q))
<1>1. /\ m \in Nat /\ Len(d) \in Nat /\ Len(q) \in Nat /\ Len(base) \in Nat
      /\ m <= Len(d) /\ Len(d) <= Len(q) /\ \A i \in 1..Len(d) : d[i] = q[i]
  BY PrefixIs
<1>2. /\ x \in Seq(Names) /\ Len(x) = Len(d) - m
      /\ \A i \in 1..(Len(d) - m) : x[i] = d[m + i]
  <2> DEFINE a == m + 1
             b == Len(d)
  <2>1. a \in Int /\ b \in Int /\ \A i \in a..b : d[i] \in Names
    BY <1>1, ElementOfSeq
  <2>2. b - a + 1 = Len(d) - m /\ (IF a <= b THEN b - a + 1 ELSE 0) = Len(d) - m
    BY <1>1
  <2>3. \A i \in 1..(Len(d) - m) : a + i - 1 = m + i
    BY <1>1
  <2> HIDE DEF a, b
  <2>4. /\ SubSeq(d, a, b) \in Seq(Names) /\ Len(SubSeq(d, a, b)) = IF a <= b THEN b - a + 1 ELSE 0
        /\ \A i \in 1..(b - a + 1) : SubSeq(d, a, b)[i] = d[a + i - 1]
    BY <2>1, SubSeqProperties
  <2> QED
    BY <2>2, <2>3, <2>4 DEF a, b
<1>3. /\ y \in Seq(Names) /\ Len(y) = Len(q) - m
      /\ \A i \in 1..(Len(q) - m) : y[i] = q[m + i]
  <2> DEFINE a == m + 1
             b == Len(q)
  <2>1. a \in Int /\ b \in Int /\ \A i \in a..b : q[i] \in Names
    BY <1>1, ElementOfSeq
  <2>2. b - a + 1 = Len(q) - m /\ (IF a <= b THEN b - a + 1 ELSE 0) = Len(q) - m
    BY <1>1
  <2>3. \A i \in 1..(Len(q) - m) : a + i - 1 = m + i
    BY <1>1
  <2> HIDE DEF a, b
  <2>4. /\ SubSeq(q, a, b) \in Seq(Names) /\ Len(SubSeq(q, a, b)) = IF a <= b THEN b - a + 1 ELSE 0
        /\ \A i \in 1..(b - a + 1) : SubSeq(q, a, b)[i] = q[a + i - 1]
    BY <2>1, SubSeqProperties
  <2> QED
    BY <2>2, <2>3, <2>4 DEF a, b
<1> DEFINE bx == base \o x
           by == base \o y
<1>4. TreeName(base, host, d) = bx /\ TreeName(base, host, q) = by
  BY DEF TreeName
<1> HIDE DEF x, y, m
<1>5. /\ bx \in Seq(Names) /\ Len(bx) = Len(base) + Len(x)
      /\ \A i \in 1..(Len(base) + Len(x)) : bx[i] = IF i <= Len(base) THEN base[i] ELSE x[i - Len(base)]
  BY <1>2, ConcatProperties
<1>6. /\ by \in Seq(Names) /\ Len(by) = Len(base) + Len(y)
      /\ \A i \in 1..(Len(base) + Len(y)) : by[i] = IF i <= Len(base) THEN base[i] ELSE y[i - Len(base)]
  BY <1>3, ConcatProperties
<1> HIDE DEF bx, by
<1>7. ASSUME NEW i \in 1..(Len(d) - m) PROVE x[i] = y[i]
  <2>1. i \in 1..(Len(q) - m) /\ m + i \in 1..Len(d)
    BY <1>1
  <2> QED
    BY <1>1, <1>2, <1>3, <2>1
<1>8. Len(bx) <= Len(by) /\ \A i \in 1..Len(bx) : bx[i] = by[i]
  <2>1. Len(x) <= Len(y) /\ Len(x) \in Nat /\ Len(y) \in Nat
    BY <1>1, <1>2, <1>3
  <2>2. ASSUME NEW i \in 1..Len(bx) PROVE bx[i] = by[i]
    <3>1. i \in 1..(Len(base) + Len(x)) /\ i \in 1..(Len(base) + Len(y))
      BY <1>1, <1>5, <2>1
    <3>2. CASE i <= Len(base)
      BY <1>5, <1>6, <3>1, <3>2
    <3>3. CASE ~(i <= Len(base))
      <4>1. i - Len(base) \in 1..(Len(d) - m)
        BY <1>1, <1>2, <3>1, <3>3
      <4>2. x[i - Len(base)] = y[i - Len(base)]
        BY <1>7, <4>1
      <4> QED
        BY <1>5, <1>6, <3>1, <3>3, <4>2
    <3> QED
      BY <3>2, <3>3
  <2> QED
    BY <1>1, <1>5, <1>6, <2>1, <2>2
<1>9. Len(base) <= Len(by) /\ \A i \in 1..Len(base) : base[i] = by[i]
  <2>1. Len(y) \in Nat
    BY <1>1, <1>3
  <2>2. Len(base) <= Len(by) /\ \A i \in 1..Len(base) : i \in 1..(Len(base) + Len(y)) /\ i <= Len(base)
    BY <1>1, <1>6, <2>1
  <2> QED
    BY <1>6, <2>2
<1> QED
  BY <1>4, <1>5, <1>6, <1>8, <1>9, PrefixIs

\* A prefix of a prefix is a prefix, and stays a strict one.
LEMMA PrefixTrans ==
  ASSUME NEW S, NEW p \in Seq(S), NEW q \in Seq(S), NEW r \in Seq(S), IsPrefix(p, q), IsPrefix(q, r)
  PROVE  IsPrefix(p, r) /\ (p # q \/ q # r => p # r)
<1>1. /\ Len(p) \in Nat /\ Len(q) \in Nat /\ Len(r) \in Nat /\ Len(p) <= Len(q) /\ Len(q) <= Len(r)
      /\ (\A i \in 1..Len(p) : p[i] = q[i]) /\ (\A i \in 1..Len(q) : q[i] = r[i])
  BY PrefixIs
<1>2. Len(p) <= Len(r) /\ \A i \in 1..Len(p) : p[i] = r[i]
  BY <1>1
<1>3. ASSUME p = r PROVE p = q /\ q = r
  <2>1. Len(p) = Len(q) /\ Len(q) = Len(r)
    BY <1>1, <1>3
  <2> QED
    BY <1>1, <2>1, SeqEqual
<1> QED
  BY <1>2, <1>3, PrefixIs

\* What a walk of base from host leaves out lies under one of the gaps it notes.
LEMMA SkippedLemma ==
  ASSUME NEW t, NEW data, IsTree(t, data), NEW den, NEW base \in Seq(Names),
         NEW host \in Resolve(Found(t, den), base), NEW truth \in Resolve(t, base),
         NEW q \in Subtree(t, truth)
  PROVE  \/ TreeName(base, truth, q) \in {TreeName(base, host, v) : v \in Visited(t, den, host)}
         \/ \E name \in Gaps(t, den, base, host) : IsPrefix(name, TreeName(base, truth, q))
<1> DEFINE f == Found(t, den)
<1>0. Typed(t) /\ Typed(f) /\ base \in Texts /\ UpsFirst(base) /\ <<>> \in Seq(Names)
  BY TreeIs, FoundIs, NamesAreText, EmptySeq
<1>1. truth \in Seq(Names) /\ host \in Seq(Names) /\ Resolve(t, base) = {truth}
  <2>1. \A p \in Resolve(t, base) : p \in Seq(Names) /\ Plain(t, p) /\ Resolve(t, base) = {p}
    BY <1>0, RootCursor
  <2> HIDE DEF f
  <2>2. \A p \in Resolve(f, base) : p \in Seq(Names) /\ Plain(f, p) /\ Resolve(f, base) = {p}
    BY <1>0, RootCursor
  <2> QED
    BY <2>1, <2>2 DEF f
<1>2. q \in Seq(Names) /\ q \in DOMAIN t \cup {<<>>} /\ IsPrefix(truth, q)
  BY <1>0, TreeIs DEF Subtree
<1>3. CASE ~Searchable(den, host)
  <2>1. base \in Gaps(t, den, base, host)
    BY <1>3 DEF Gaps
  <2>2. IsPrefix(base, TreeName(base, truth, q))
    BY <1>1, <1>2, PrefixIs, TreeNames
  <2> QED
    BY <2>1, <2>2
<1>4. CASE Searchable(den, host)
  <2>1. host = truth
    <3> DEFINE s == At(<<>>, base, 0)
    <3>1. s \in Cursor /\ s.rest = base
      BY <1>0, RootCursor DEF At
    <3>2. Resolve(t, base) = Ends(t)[s] /\ Resolve(f, base) = Ends(f)[s]
      BY ResolveIs
    <3> HIDE DEF s
    <3>3. Ends(f)[s] = Ends(t)[s] \/ \A h \in Ends(f)[s] : ~Searchable(den, h)
      BY <1>0, <3>1, FoundOrLost
    <3> QED
      BY <1>1, <1>4, <3>2, <3>3
  <2> DEFINE Bad == {d \in Above(q) : IsPrefix(host, d) /\ ~Listable(den, d)}
  <2>2. CASE Bad = {}
    <3>1. q \in Visited(t, den, host)
      BY <1>4, <2>1, <2>2 DEF Visited
    <3> QED
      BY <2>1, <3>1
  <2>3. CASE Bad # {}
    <3>0. Above(q) \subseteq Seq(Names) /\ \A d \in Above(q) : Len(d) \in Nat
      BY <1>2, AboveIsPath, LenProperties
    <3>1. PICK d \in Bad : \A e \in Bad : Len(d) <= Len(e)
      <4> DEFINE P == {Len(e) : e \in Bad}
      <4>1. P \subseteq Nat /\ P # {}
        BY <2>3, <3>0
      <4> HIDE DEF P
      <4>2. PICK x \in P : \A y \in P : x <= y
        BY <4>1, LeastOf
      <4> HIDE DEF Bad
      <4> QED
        BY <4>2 DEF P
    <3>2. d \in Seq(Names) /\ d \in Above(q) /\ IsPrefix(host, d) /\ ~Listable(den, d)
      BY <3>0, <3>1
    <3>3. IsStrictPrefix(d, q)
      BY <1>2, <3>2, AbovePath
    <3>4. IsDir(t, d)
      <4>1. q # <<>>
        BY <3>2, AboveRoot
      <4> QED
        BY <1>2, <3>2, <4>1, TreeIs
    <3>5. d \in Subtree(t, host)
      BY <3>2, <3>4 DEF Subtree, IsDir, IsKind
    <3>6. ASSUME NEW e \in Above(d), IsPrefix(host, e) PROVE Listable(den, e)
      <4>1. e \in Seq(Names) /\ IsStrictPrefix(e, d)
        BY <3>2, AboveIsPath, AbovePath
      <4>2. IsStrictPrefix(e, q)
        BY <1>2, <3>2, <3>3, <4>1, PrefixTrans DEF IsStrictPrefix
      <4>3. e \in Above(q)
        BY <1>2, <4>1, <4>2, AbovePath
      <4>4. Len(e) \in Nat /\ Len(d) \in Nat /\ Len(e) < Len(d)
        <5>1. Len(e) \in Nat /\ Len(d) \in Nat /\ Len(e) <= Len(d) /\ \A i \in 1..Len(e) : e[i] = d[i]
          BY <3>2, <4>1, PrefixIs DEF IsStrictPrefix
        <5>2. Len(e) # Len(d)
          BY <3>2, <4>1, <5>1, SeqEqual DEF IsStrictPrefix
        <5> QED
          BY <5>1, <5>2
      <4> QED
        BY <3>1, <3>6, <4>3, <4>4
    <3>7. d \in Visited(t, den, host)
      BY <1>4, <3>5, <3>6 DEF Visited
    <3>8. TreeName(base, host, d) \in Gaps(t, den, base, host)
      BY <3>2, <3>4, <3>7 DEF Gaps
    <3>9. IsPrefix(TreeName(base, host, d), TreeName(base, host, q))
      BY <1>1, <1>2, <3>2, <3>3, TreeNames DEF IsStrictPrefix
    <3> QED
      BY <2>1, <3>8, <3>9
  <2> QED
    BY <2>2, <2>3
<1> QED
  BY <1>3, <1>4

-----------------------------------------------------------------------------
(* Changes to a tree                                                       *)

\* The place above a path lies between it and whatever is above it.
LEMMA FrontIs ==
  ASSUME NEW p \in Seq(Names), p # <<>>
  PROVE  /\ Front(p) \in Seq(Names) /\ Front(p) \in Above(p) /\ IsStrictPrefix(Front(p), p)
         /\ \A q \in Seq(Names) : IsStrictPrefix(q, p) <=> IsPrefix(q, Front(p))
         /\ \A q \in Seq(Names) : IsPrefix(q, Front(p)) => IsPrefix(q, p)
<1>1. Front(p) \in Seq(Names) /\ Above(p) = Above(Front(p)) \cup {Front(p)}
  BY AboveFront, FrontAndLast
<1>2. IsStrictPrefix(Front(p), p)
  BY <1>1, AbovePath
<1>3. \A q \in Seq(Names) : IsStrictPrefix(q, p) <=> IsPrefix(q, Front(p))
  <2> DEFINE f == Front(p)
  <2> HIDE DEF f
  <2>1. \A q \in Seq(Names) : q \in Above(f) \cup {f} <=> IsPrefix(q, f)
    <3>1. f \in Seq(Names)
      BY <1>1 DEF f
    <3> QED
      BY <3>1, UpTo
  <2>2. \A q \in Seq(Names) : q \in Above(p) <=> IsStrictPrefix(q, p)
    BY AbovePath
  <2> QED
    BY <1>1, <2>1, <2>2 DEF f
<1> QED
  BY <1>1, <1>2, <1>3 DEF IsStrictPrefix

\* What is left of a tree is a tree if with each node it leaves the directory
\* that the node lies in.
LEMMA LeftIsTree ==
  ASSUME NEW t, NEW data, IsTree(t, data), NEW S \in SUBSET DOMAIN t,
         \A q \in S : Front(q) = <<>> \/ Front(q) \in S
  PROVE  /\ IsTree(Restrict(t, S), data) /\ DOMAIN Restrict(t, S) = S
         /\ \A q \in S : Restrict(t, S)[q] = t[q]
<1> DEFINE u == Restrict(t, S)
<1>1. DOMAIN u = S /\ \A q \in S : u[q] = t[q]
  BY DEF Restrict
<1>2. S \subseteq Seq(Names) \ {<<>>} /\ \A q \in S : t[q] \in Nodes(data) /\ IsDir(t, Front(q))
  BY DEF IsTree
<1> HIDE DEF u
<1>3. \A q \in S : IsDir(u, Front(q))
  <2> SUFFICES ASSUME NEW q \in S, Front(q) # <<>> PROVE u[Front(q)].kind = "dir" /\ Front(q) \in S
    BY <1>1 DEF IsDir, IsKind
  <2>1. Front(q) \in S /\ t[Front(q)].kind = "dir"
    BY <1>2 DEF IsDir, IsKind
  <2> QED
    BY <1>1, <2>1
<1>4. IsTree(u, data)
  <2>1. u \in [DOMAIN u -> Nodes(data)]
    BY <1>1, <1>2 DEF u, Restrict
  <2> QED
    BY <1>1, <1>2, <1>3, <2>1 DEF IsTree
<1> QED
  BY <1>1, <1>4 DEF u

\* Removing a subtree leaves a tree with all the other nodes (os.RemoveAll in
\* extract.go).
LEMMA RemoveAllIs ==
  ASSUME NEW t, NEW data, IsTree(t, data), NEW p \in Seq(Names)
  PROVE  /\ IsTree(RemoveAll(t, p), data)
         /\ DOMAIN RemoveAll(t, p) = {q \in DOMAIN t : ~IsPrefix(p, q)}
         /\ \A q \in DOMAIN RemoveAll(t, p) : RemoveAll(t, p)[q] = t[q]
<1> DEFINE S == {q \in DOMAIN t : ~IsPrefix(p, q)}
<1>1. \A q \in DOMAIN t : q \in Seq(Names) /\ q # <<>> /\ (Front(q) = <<>> \/ Front(q) \in DOMAIN t)
  BY DEF IsTree, IsDir, IsKind
<1>2. \A q \in S : Front(q) = <<>> \/ Front(q) \in S
  BY <1>1, FrontIs
<1>3. S \in SUBSET DOMAIN t
  OBVIOUS
<1> HIDE DEF S
<1>4. /\ IsTree(Restrict(t, S), data) /\ DOMAIN Restrict(t, S) = S
      /\ \A q \in S : Restrict(t, S)[q] = t[q]
  BY <1>2, <1>3, LeftIsTree
<1> QED
  BY <1>4 DEF RemoveAll, S

\* Emptying a directory leaves a tree with all the nodes outside it (clearDir).
LEMMA ClearDirIs ==
  ASSUME NEW t, NEW data, IsTree(t, data), NEW p \in Seq(Names)
  PROVE  /\ IsTree(ClearDir(t, p), data)
         /\ DOMAIN ClearDir(t, p) = {q \in DOMAIN t : ~IsStrictPrefix(p, q)}
         /\ \A q \in DOMAIN ClearDir(t, p) : ClearDir(t, p)[q] = t[q]
<1> DEFINE S == {q \in DOMAIN t : ~IsStrictPrefix(p, q)}
<1>1. \A q \in DOMAIN t : q \in Seq(Names) /\ q # <<>> /\ (Front(q) = <<>> \/ Front(q) \in DOMAIN t)
  BY DEF IsTree, IsDir, IsKind
<1>2. CASE IsDir(t, p)
  <2>1. \A q \in S : Front(q) = <<>> \/ Front(q) \in S
    BY <1>1, FrontIs DEF IsStrictPrefix
  <2>2. S \in SUBSET DOMAIN t
    OBVIOUS
  <2> HIDE DEF S
  <2>3. /\ IsTree(Restrict(t, S), data) /\ DOMAIN Restrict(t, S) = S
        /\ \A q \in S : Restrict(t, S)[q] = t[q]
    BY <2>1, <2>2, LeftIsTree
  <2> QED
    BY <1>2, <2>3 DEF ClearDir, S
<1>3. CASE ~IsDir(t, p)
  <2>1. S = DOMAIN t
    <3> SUFFICES ASSUME NEW q \in DOMAIN t, IsStrictPrefix(p, q) PROVE FALSE
      OBVIOUS
    <3>1. q \in Seq(Names) /\ \A d \in Above(q) : IsDir(t, d)
      BY TreeIs
    <3>2. p \in Above(q)
      BY <3>1, AbovePath
    <3> QED
      BY <1>3, <3>1, <3>2
  <2> QED
    BY <1>3, <2>1 DEF ClearDir
<1> QED
  BY <1>2, <1>3

\* New nodes make a tree of a tree if what each of them lies in is a directory.
LEMMA WithIs ==
  ASSUME NEW t, NEW data, IsTree(t, data), NEW S \in SUBSET (Seq(Names) \ {<<>>}), NEW node \in Nodes(data),
         \A q \in S : q \in DOMAIN t \/ IsDir(t, Front(q)) \/ (Front(q) \in S \ DOMAIN t /\ node.kind = "dir")
  PROVE  /\ IsTree(With(t, S, node), data) /\ DOMAIN With(t, S, node) = DOMAIN t \cup S
         /\ \A q \in DOMAIN t : With(t, S, node)[q] = t[q]
         /\ \A q \in S \ DOMAIN t : With(t, S, node)[q] = node
<1> DEFINE u == With(t, S, node)
<1>1. /\ DOMAIN u = DOMAIN t \cup S /\ (\A q \in DOMAIN t : u[q] = t[q])
      /\ \A q \in S \ DOMAIN t : u[q] = node
  BY DEF With
<1>2. DOMAIN t \subseteq Seq(Names) \ {<<>>} /\ \A q \in DOMAIN t : t[q] \in Nodes(data) /\ IsDir(t, Front(q))
  BY DEF IsTree
<1> HIDE DEF u
<1>3. \A q : IsDir(t, q) => IsDir(u, q)
  BY <1>1 DEF IsDir, IsKind
<1>4. \A q \in DOMAIN u : IsDir(u, Front(q))
  <2> SUFFICES ASSUME NEW q \in S \ DOMAIN t, Front(q) \in S \ DOMAIN t, node.kind = "dir"
               PROVE  IsDir(u, Front(q))
    BY <1>1, <1>2, <1>3
  <2> QED
    BY <1>1 DEF IsDir, IsKind
<1>5. \A q \in DOMAIN u : u[q] \in Nodes(data)
  BY <1>1, <1>2
<1>6. IsTree(u, data)
  <2>1. u = [q \in DOMAIN u |-> u[q]]
    BY DEF u, With
  <2>2. u \in [DOMAIN u -> Nodes(data)]
    BY <1>5, <2>1
  <2> QED
    BY <1>1, <1>2, <1>4, <2>2 DEF IsTree
<1> QED
  BY <1>1, <1>6 DEF u

\* The places from the root to p, without the root.
Chain(p) == (Above(p) \cup {p}) \ {<<>>}

\* With a place, its parent is on the chain.
LEMMA ChainIs ==
  ASSUME NEW p \in Seq(Names)
  PROVE  /\ Chain(p) \subseteq Seq(Names) \ {<<>>} /\ (p = <<>> \/ p \in Chain(p))
         /\ \A q \in Chain(p) : Front(q) = <<>> \/ Front(q) \in Chain(p)
<1>1. Above(p) \subseteq Seq(Names)
  BY AboveIsPath
<1>2. Chain(p) \subseteq Seq(Names) \ {<<>>} /\ (p = <<>> \/ p \in Chain(p))
  BY <1>1 DEF Chain
<1>3. ASSUME NEW q \in Chain(p), Front(q) # <<>> PROVE Front(q) \in Chain(p)
  <2> DEFINE f == Front(q)
  <2>1. q \in Seq(Names) /\ q # <<>> /\ IsPrefix(q, p)
    BY <1>2, UpTo DEF Chain
  <2>2. f \in Seq(Names) /\ IsPrefix(f, q)
    BY <2>1, FrontIs DEF IsStrictPrefix
  <2> HIDE DEF f
  <2>3. IsPrefix(f, p)
    BY <2>1, <2>2, PrefixTrans
  <2>4. f \in Above(p) \cup {p}
    BY <2>2, <2>3, UpTo
  <2> QED
    BY <1>3, <2>4 DEF f, Chain
<1> QED
  BY <1>2, <1>3

\* u has the directories down to p, and otherwise what t has.
HasDirs(t, p, u) ==
  /\ DOMAIN u = DOMAIN t \cup Chain(p)
  /\ \A q \in DOMAIN t : u[q] = t[q]
  /\ \A q \in Chain(p) : u[q] = Dir

\* Making a directory and those above it leaves a tree with all its nodes
\* (os.MkdirAll).
LEMMA MkdirIs ==
  ASSUME NEW t, NEW data, IsTree(t, data), NEW p \in Seq(Names), NEW u \in MkdirAll(t, p)
  PROVE  IsTree(u, data) /\ IsDir(u, p) /\ HasDirs(t, p, u)
<1>1. u = With(t, Chain(p), Dir) /\ \A q \in Chain(p) \cap DOMAIN t : t[q].kind = "dir"
  BY DEF MkdirAll, Chain
<1>2. Chain(p) \in SUBSET (Seq(Names) \ {<<>>}) /\ (p = <<>> \/ p \in Chain(p))
  BY ChainIs
<1>3. \A q \in Chain(p) : Front(q) = <<>> \/ Front(q) \in Chain(p)
  BY ChainIs
<1>4. Dir \in Nodes(data) /\ Dir.kind = "dir"
  BY DEF Dir, Nodes
<1>5. \A q \in Chain(p) : IsDir(t, Front(q)) \/ Front(q) \in Chain(p) \ DOMAIN t
  BY <1>1, <1>3 DEF IsDir, IsKind
<1> DEFINE S == Chain(p)
<1> HIDE DEF S
<1>6. S \in SUBSET (Seq(Names) \ {<<>>})
      /\ \A q \in S : q \in DOMAIN t \/ IsDir(t, Front(q)) \/ (Front(q) \in S \ DOMAIN t /\ Dir.kind = "dir")
  BY <1>2, <1>4, <1>5 DEF S
<1>7. /\ IsTree(With(t, S, Dir), data) /\ DOMAIN With(t, S, Dir) = DOMAIN t \cup S
      /\ \A q \in DOMAIN t : With(t, S, Dir)[q] = t[q]
      /\ \A q \in S \ DOMAIN t : With(t, S, Dir)[q] = Dir
  BY <1>4, <1>6, WithIs
<1>8. u = With(t, S, Dir) /\ \A q \in S \cap DOMAIN t : t[q].kind = "dir"
  BY <1>1 DEF S
<1>9. \A q \in S \cap DOMAIN t : t[q] = Dir
  <2> SUFFICES ASSUME NEW q \in S \cap DOMAIN t PROVE t[q] = Dir
    OBVIOUS
  <2>1. t[q] \in Nodes(data) /\ t[q].kind = "dir"
    BY <1>8 DEF IsTree
  <2> QED
    BY <2>1 DEF Nodes, Dir
<1>10. \A q \in S : u[q] = Dir
  BY <1>7, <1>8, <1>9
<1>11. IsDir(u, p)
  <2>1. p = <<>> \/ p \in S
    BY <1>2 DEF S
  <2> QED
    BY <1>4, <1>7, <1>8, <1>10, <2>1 DEF IsDir, IsKind
<1> QED
  BY <1>7, <1>8, <1>10, <1>11 DEF S, HasDirs

\* A directory that is there stays as it is.
LEMMA MkdirThere ==
  ASSUME NEW t, NEW data, IsTree(t, data), NEW p \in Seq(Names), IsDir(t, p)
  PROVE  MkdirAll(t, p) = {t}
<1>1. \A q \in Chain(p) : q \in DOMAIN t /\ t[q].kind = "dir"
  <2>1. CASE p = <<>>
    BY <2>1, AboveRoot DEF Chain
  <2>2. CASE p # <<>>
    <3>1. p \in DOMAIN t /\ t[p].kind = "dir"
      BY <2>2 DEF IsDir, IsKind
    <3>2. \A q \in Above(p) : IsDir(t, q)
      BY <3>1, TreeIs
    <3> QED
      BY <3>1, <3>2 DEF Chain, IsDir, IsKind
  <2> QED
    BY <2>1, <2>2
<1>2. MkdirAll(t, p) = {With(t, Chain(p), Dir)}
  BY <1>1 DEF MkdirAll, Chain
<1>3. With(t, Chain(p), Dir) = [q \in DOMAIN t |-> t[q]]
  BY <1>1 DEF With
<1>4. t = [q \in DOMAIN t |-> t[q]]
  BY DEF IsTree
<1> QED
  BY <1>2, <1>3, <1>4

\* A directory entry leaves a tree, with that directory in it (makeDir).
LEMMA MakeDirIs ==
  ASSUME NEW t, NEW data, IsTree(t, data), NEW p \in Seq(Names), NEW u \in MakeDir(t, p)
  PROVE  IsTree(u, data) /\ IsDir(u, p)
<1> DEFINE v == IF p \in DOMAIN t /\ ~IsDir(t, p) THEN RemoveAll(t, p) ELSE t
<1>1. IsTree(v, data)
  BY RemoveAllIs
<1>2. u \in MkdirAll(v, p)
  BY DEF MakeDir
<1> HIDE DEF v
<1> QED
  BY <1>1, <1>2, MkdirIs

\* What a node replaces is gone with what lay in it.
Replaces(t, p, node, u) ==
  /\ DOMAIN u = {q \in DOMAIN t : ~IsPrefix(p, q)} \cup {p}
  /\ u[p] = node
  /\ \A q \in DOMAIN t : ~IsPrefix(p, q) => u[q] = t[q]

\* Writing a node in a directory that was made for it leaves a tree, and so does
\* giving up after what was there is removed.
LEMMA PutIs ==
  ASSUME NEW t, NEW data, IsTree(t, data), NEW p \in Seq(Names) \ {<<>>}, NEW node \in Nodes(data),
         NEW u \in MkdirAll(t, Front(p))
  PROVE  /\ IsTree(With(RemoveAll(u, p), {p}, node), data)
         /\ IsTree(RemoveAll(u, p), data)
         /\ Replaces(u, p, node, With(RemoveAll(u, p), {p}, node))
<1> DEFINE f == Front(p)
           w == RemoveAll(u, p)
           x == With(w, {p}, node)
<1>1. f \in Seq(Names) /\ p # <<>> /\ IsStrictPrefix(f, p)
  BY FrontIs
<1>2. u \in MkdirAll(t, f)
  OBVIOUS
<1> HIDE DEF f
<1>3. IsTree(u, data) /\ IsDir(u, f)
  BY <1>1, <1>2, MkdirIs
<1>4. /\ IsTree(w, data) /\ DOMAIN w = {q \in DOMAIN u : ~IsPrefix(p, q)}
      /\ \A q \in DOMAIN w : w[q] = u[q]
  BY <1>3, RemoveAllIs
<1>5. ~IsPrefix(p, f) /\ IsPrefix(p, p)
  <2>1. IsPrefix(p, p)
    BY PrefixIs
  <2>2. ASSUME IsPrefix(p, f) PROVE FALSE
    BY <1>1, <2>2, PrefixTrans DEF IsStrictPrefix
  <2> QED
    BY <2>1, <2>2
<1> HIDE DEF w
<1>6. IsDir(w, f)
  BY <1>3, <1>4, <1>5 DEF IsDir, IsKind
<1> DEFINE S == {p}
<1>7. /\ S \in SUBSET (Seq(Names) \ {<<>>})
      /\ \A q \in S : q \in DOMAIN w \/ IsDir(w, Front(q)) \/ (Front(q) \in S \ DOMAIN w /\ node.kind = "dir")
  BY <1>1, <1>6 DEF f
<1> HIDE DEF S
<1>8. /\ IsTree(With(w, S, node), data) /\ DOMAIN With(w, S, node) = DOMAIN w \cup S
      /\ \A q \in DOMAIN w : With(w, S, node)[q] = w[q]
      /\ \A q \in S \ DOMAIN w : With(w, S, node)[q] = node
  BY <1>4, <1>7, WithIs
<1>9. x = With(w, S, node) /\ p \in S /\ S = {p}
  BY DEF S
<1> HIDE DEF x
<1>10. IsTree(x, data) /\ Replaces(u, p, node, x)
  BY <1>4, <1>5, <1>8, <1>9 DEF Replaces
<1> QED
  BY <1>4, <1>10 DEF x, w

\* A hard link, made or given up on, leaves a tree.
LEMMA HardlinkIs ==
  ASSUME NEW t, NEW data, IsTree(t, data), Nothing \in data, NEW src \in DOMAIN t,
         NEW p \in Seq(Names) \ {<<>>}, NEW u \in Hardlink(t, src, p)
  PROVE  IsTree(u, data)
<1>1. PICK v \in MkdirAll(t, Front(p)) :
        u = LET w == RemoveAll(v, p)
            IN IF src \notin DOMAIN w THEN w
               ELSE With(w, {p}, IF IsDir(w, src) THEN File(Nothing) ELSE w[src])
  BY DEF Hardlink
<1> DEFINE w == RemoveAll(v, p)
           node == IF IsDir(w, src) THEN File(Nothing) ELSE w[src]
<1>2. File(Nothing) \in Nodes(data)
  BY DEF File, Nodes
<1>3. \A n \in Nodes(data) : IsTree(With(w, {p}, n), data) /\ IsTree(w, data)
  BY PutIs
<1>4. IsTree(w, data)
  BY <1>2, <1>3
<1>5. CASE src \notin DOMAIN w
  BY <1>1, <1>4, <1>5
<1>6. CASE src \in DOMAIN w
  <2>1. node \in Nodes(data)
    BY <1>2, <1>4, <1>6 DEF IsTree
  <2>2. u = With(w, {p}, node)
    BY <1>1, <1>6
  <2> HIDE DEF node, w
  <2> QED
    BY <1>3, <2>1, <2>2
<1> QED
  BY <1>5, <1>6

\* The place that a path names lies in the one that the names before its last
\* lead to, and it is one place.
LEMMA ParentIs ==
  ASSUME NEW t, Typed(t), NEW name \in Seq(Names), NEW p \in ResolveParent(t, name)
  PROVE  /\ p \in Seq(Names) /\ (name # <<>> => p # <<>>)
         /\ ResolveParent(t, name) = {p}
<1>1. CASE name = <<>>
  BY <1>1, EmptySeq DEF ResolveParent
<1>2. CASE name # <<>>
  <2> DEFINE f == Front(name)
             e == Last(name)
  <2>1. f \in Seq(Names) /\ e \in Names
    BY <1>2, FrontAndLast
  <2>2. f \in Texts
    BY <2>1, NamesAreText
  <2>3. ResolveParent(t, name) = {Append(q, e) : q \in Resolve(t, f)}
    BY <1>2 DEF ResolveParent
  <2> HIDE DEF f, e
  <2>4. \A q \in Resolve(t, f) : q \in Seq(Names) /\ Resolve(t, f) = {q}
    BY <2>2, RootCursor
  <2>5. PICK q \in Resolve(t, f) : p = Append(q, e)
    BY <2>3
  <2>6. q \in Seq(Names) /\ Resolve(t, f) = {q}
    BY <2>4
  <2>7. Append(q, e) \in Seq(Names) /\ Append(q, e) # <<>>
    BY <2>1, <2>6, OneMore
  <2> QED
    BY <2>3, <2>5, <2>6, <2>7
<1> QED
  BY <1>1, <1>2

\* An entry of a layer, or what is left of it when its file is not written.
AnyEntry(data) ==
  [type : {"dir", "file", "link", "hard", "white", "opaque", "other"}, path : Seq(Names),
   data : data, abs : BOOLEAN, to : Texts]

\* Whatever an entry is, and however far its write gets, a tree is left (untar).
LEMMA ExtractIs ==
  ASSUME NEW t, NEW data, IsTree(t, data), Nothing \in data, NEW e \in AnyEntry(data),
         NEW u \in Extract(t, e)
  PROVE  IsTree(u, data)
<1>1. u \in Placed(t, e) /\ (e.path # <<>> \/ e.type = "opaque")
  BY DEF Extract
<1>2. /\ e.path \in Seq(Names) /\ e.data \in data /\ e.abs \in BOOLEAN /\ e.to \in Texts
      /\ e.type \in {"dir", "file", "link", "hard", "white", "opaque", "other"}
  BY DEF AnyEntry
<1>3. Typed(t) /\ \A p \in DOMAIN t : p \in Seq(Names)
  BY TreeIs
<1>4. \A p \in ResolveParent(t, e.path) : p \in Seq(Names) /\ (e.path # <<>> => p # <<>>)
  <2> DEFINE y == e.path
  <2>1. y \in Seq(Names)
    BY <1>2
  <2> HIDE DEF y
  <2>2. \A p \in ResolveParent(t, y) : p \in Seq(Names) /\ (y # <<>> => p # <<>>)
    BY <1>3, <2>1, ParentIs
  <2> QED
    BY <2>2 DEF y
<1>5. CASE e.type = "opaque"
  <2>1. PICK p \in Resolve(t, e.path) : u = ClearDir(t, p)
    BY <1>1, <1>5 DEF Placed
  <2>2. p \in Seq(Names)
    <3> DEFINE y == e.path
    <3>1. y \in Texts /\ p \in Resolve(t, y)
      BY <1>2, NamesAreText
    <3> HIDE DEF y
    <3> QED
      BY <1>3, <3>1, RootCursor
  <2> QED
    BY <2>1, <2>2, ClearDirIs
<1>6. CASE e.type = "white"
  <2>1. PICK p \in ResolveParent(t, e.path) : u = RemoveAll(t, p)
    BY <1>1, <1>6 DEF Placed
  <2> QED
    BY <1>4, <2>1, RemoveAllIs
<1>7. CASE e.type = "dir"
  <2>1. PICK p \in ResolveParent(t, e.path) : u \in MakeDir(t, p)
    BY <1>1, <1>7 DEF Placed
  <2> QED
    BY <1>4, <2>1, MakeDirIs
<1>8. CASE e.type \in {"file", "link"}
  <2> DEFINE node == IF e.type = "file" THEN File(e.data) ELSE Link(e.abs, e.to)
  <2>1. PICK p \in ResolveParent(t, e.path) : u \in Put(t, p, node)
    <3>1. CASE e.type = "file"
      <4>1. u \in UNION {Put(t, p, File(e.data)) : p \in ResolveParent(t, e.path)}
        BY <1>1, <3>1 DEF Placed
      <4> QED
        BY <3>1, <4>1
    <3>2. CASE e.type = "link"
      <4>1. u \in UNION {Put(t, p, Link(e.abs, e.to)) : p \in ResolveParent(t, e.path)}
        BY <1>1, <3>2 DEF Placed
      <4> QED
        BY <3>2, <4>1
    <3> QED
      BY <1>8, <3>1, <3>2
  <2>2. node \in Nodes(data)
    BY <1>2 DEF File, Link, Nodes, Texts
  <2>3. p \in Seq(Names) \ {<<>>}
    BY <1>1, <1>4, <1>8
  <2> HIDE DEF node
  <2>4. PICK v \in MkdirAll(t, Front(p)) : u = With(RemoveAll(v, p), {p}, node)
    BY <2>1 DEF Put
  <2> QED
    BY <2>2, <2>3, <2>4, PutIs
<1>9. CASE e.type = "hard"
  <2> DEFINE srcs == ResolveParent(t, Clean(TRUE, e.to))
  <2>0. PICK p \in ResolveParent(t, e.path) : u \in HardlinkFrom(t, srcs, p)
    BY <1>1, <1>9 DEF Placed
  <2>1. PICK src \in DOMAIN t : u \in Hardlink(t, src, p)
    BY <2>0 DEF HardlinkFrom
  <2>2. p \in Seq(Names) \ {<<>>}
    BY <1>1, <1>4, <1>9
  <2> QED
    BY <2>1, <2>2, HardlinkIs
<1>10. CASE e.type = "other"
  BY <1>1, <1>10 DEF Placed
<1> QED
  BY <1>2, <1>5, <1>6, <1>7, <1>8, <1>9, <1>10

-----------------------------------------------------------------------------
(* What a layer makes of the tree below it                                 *)

\* The tree t below, with a layer of these entries over it.
Over(t, entries) ==
  [p \in {q \in Seq(Names) \ {<<>>} :
            AddedAt(entries, q) # {} \/ (q \in DOMAIN t /\ ~Covers(entries, q))} |->
     IF AddedAt(entries, p) # {} THEN NodeAt(entries, p) ELSE t[p]]

\* What the entries read of a well-formed layer are among themselves.
Solid(E) ==
  /\ E \subseteq EntryType
  /\ \A f \in E : Adds(f) => \A d \in Above(f.path) \ {<<>>} : \E g \in E : g.type = "dir" /\ g.path = d
  /\ \A f, g \in E : Adds(f) /\ Adds(g) /\ f.path = g.path => f = g
  /\ \A f \in E : f.type = "hard" => \E g \in E : g.type = "file" /\ g.path = Clean(TRUE, f.to)
  /\ \A f \in E : f.path = <<>> => f.type \in {"dir", "opaque"}

\* The fields of an entry.
LEMMA EntryIs ==
  ASSUME NEW e \in EntryType
  PROVE  /\ e.path \in Seq(Names) /\ e.data \in Contents /\ e.abs \in BOOLEAN /\ e.to \in Texts
         /\ e.type \in {"dir", "file", "link", "hard", "white", "opaque", "other"}
         /\ Clean(TRUE, e.to) \in Seq(Names)
<1>1. /\ e.path \in Seq(Names) /\ e.data \in Contents /\ e.abs \in BOOLEAN /\ e.to \in Texts
      /\ e.type \in {"dir", "file", "link", "hard", "white", "opaque", "other"}
  BY DEF EntryType, Texts
<1>2. Clean(TRUE, e.to) \in Seq(Names)
  BY <1>1, CleanIs
<1> QED
  BY <1>1, <1>2

\* An entry that fits behind solid ones makes them solid with it.
LEMMA SolidGrows ==
  ASSUME NEW E, Solid(E), NEW e \in EntryType, Fits(E, e)
  PROVE  Solid(E \cup {e})
<1> DEFINE F == E \cup {e}
<1>1. F \subseteq EntryType
  BY DEF Solid
<1>2. ASSUME NEW f \in F, Adds(f), NEW d \in Above(f.path) \ {<<>>}
      PROVE  \E g \in F : g.type = "dir" /\ g.path = d
  <2>1. CASE f \in E
    BY <1>2, <2>1 DEF Solid
  <2>2. CASE f = e
    <3>1. e.type # "opaque"
      BY <1>2, <2>2 DEF Adds
    <3> QED
      BY <1>2, <2>2, <3>1 DEF Fits
  <2> QED
    BY <2>1, <2>2
<1>3. \A f, g \in F : Adds(f) /\ Adds(g) /\ f.path = g.path => f = g
  BY DEF Solid, Fits
<1>4. \A f \in F : f.type = "hard" => \E g \in F : g.type = "file" /\ g.path = Clean(TRUE, f.to)
  BY DEF Solid, Fits
<1>5. \A f \in F : f.path = <<>> => f.type \in {"dir", "opaque"}
  BY DEF Solid, Fits
<1> QED
  BY <1>1, <1>2, <1>3, <1>4, <1>5 DEF Solid

\* An entry that fits hides nothing that the entries before it added.
LEMMA AddedStays ==
  ASSUME NEW E, Solid(E), NEW e \in EntryType, Fits(E, e), NEW f \in E, Adds(f)
  PROVE  ~Hides(e, f.path) /\ (Adds(e) => f.path # e.path)
<1>1. Adds(e) => f.path # e.path
  BY DEF Fits
<1>2. CASE e.type = "white"
  BY <1>1, <1>2 DEF Fits, Hides
<1>3. CASE e.type = "dir"
  BY <1>1, <1>3 DEF Hides
<1>4. CASE e.type = "opaque"
  BY <1>1, <1>4 DEF Fits, Hides
<1>5. CASE e.type \in {"file", "link", "hard"}
  <2> SUFFICES ASSUME IsStrictPrefix(e.path, f.path) PROVE FALSE
    BY <1>1, <1>5 DEF Hides
  <2>1. f \in EntryType
    BY DEF Solid
  <2>2. e.path \in Seq(Names) /\ f.path \in Seq(Names)
    BY <2>1, EntryIs
  <2> DEFINE x == e.path
             y == f.path
  <2>3. x \in Seq(Names) /\ y \in Seq(Names) /\ IsStrictPrefix(x, y)
    BY <2>2
  <2> HIDE DEF x, y
  <2>4. x \in Above(y)
    BY <2>3, AbovePath
  <2>5. x # <<>>
    BY <1>5 DEF Fits, x
  <2>6. PICK g \in E : g.type = "dir" /\ g.path = x
    BY <2>4, <2>5 DEF Solid, y
  <2> QED
    BY <1>5, <2>6 DEF Fits, Adds, x
<1>6. e.type # "other" /\ e.type \in {"dir", "file", "link", "hard", "white", "opaque", "other"}
  BY EntryIs DEF Fits
<1> QED
  BY <1>1, <1>2, <1>3, <1>4, <1>5, <1>6

\* What a node is does not change when an entry that fits comes after it.
LEMMA NodeStays ==
  ASSUME NEW E, Solid(E), NEW e \in EntryType, Fits(E, e), NEW p, AddedAt(E, p) # {}
  PROVE  AddedAt(E \cup {e}, p) = AddedAt(E, p) /\ NodeAt(E \cup {e}, p) = NodeAt(E, p)
<1> DEFINE F == E \cup {e}
           f == CHOOSE g \in AddedAt(E, p) : TRUE
<1>1. f \in AddedAt(E, p)
  OBVIOUS
<1> HIDE DEF f
<1>2. f \in E /\ Adds(f) /\ f.path = p
  BY <1>1 DEF AddedAt
<1>3. Adds(e) => e.path # p
  BY <1>2, AddedStays
<1>4. AddedAt(F, p) = AddedAt(E, p)
  BY <1>3 DEF AddedAt
<1>5. f.type = "hard" => Targets(F, f) = Targets(E, f)
  <2> SUFFICES ASSUME f.type = "hard", e.type = "file", e.path = Clean(TRUE, f.to) PROVE FALSE
    BY DEF Targets
  <2>1. PICK g \in E : g.type = "file" /\ g.path = Clean(TRUE, f.to)
    BY <1>2 DEF Solid
  <2> QED
    BY <2>1 DEF Fits, Adds
<1>6. NodeOf(F, f) = NodeOf(E, f)
  BY <1>2, <1>5 DEF NodeOf, Adds
<1> HIDE DEF F
<1>7. NodeAt(F, p) = NodeOf(F, f) /\ NodeAt(E, p) = NodeOf(E, f)
  BY <1>4 DEF NodeAt, f
<1> QED
  BY <1>4, <1>6, <1>7 DEF F

\* At p, the entry e after the entries E makes n of m: it hides what it hides
\* and adds its path.
Makes(E, e, m, n, p) ==
  /\ p \in DOMAIN n <=> (p \in DOMAIN m /\ ~Hides(e, p)) \/ (Adds(e) /\ p = e.path)
  /\ p \in DOMAIN n /\ ~(Adds(e) /\ p = e.path) => n[p] = m[p]
  /\ Adds(e) /\ p = e.path => n[p] = NodeOf(E \cup {e}, e)

\* What one more entry of a layer changes of what the layer shows at p.
LEMMA OverOne ==
  ASSUME NEW t, NEW E, Solid(E), NEW e \in EntryType, Fits(E, e), NEW p \in Seq(Names) \ {<<>>}
  PROVE  Makes(E, e, Over(t, E), Over(t, E \cup {e}), p)
<1> DEFINE F == E \cup {e}
           m == Over(t, E)
           n == Over(t, F)
           in(G) == AddedAt(G, p) # {} \/ (p \in DOMAIN t /\ ~Covers(G, p))
<1>1. /\ p \in DOMAIN m <=> in(E)
      /\ p \in DOMAIN m => m[p] = IF AddedAt(E, p) # {} THEN NodeAt(E, p) ELSE t[p]
  BY DEF Over
<1>2. /\ p \in DOMAIN n <=> in(F)
      /\ p \in DOMAIN n => n[p] = IF AddedAt(F, p) # {} THEN NodeAt(F, p) ELSE t[p]
  BY DEF Over
<1>3. CASE AddedAt(E, p) # {}
  <2>1. AddedAt(F, p) = AddedAt(E, p) /\ NodeAt(F, p) = NodeAt(E, p)
    BY <1>3, NodeStays
  <2>2. ~Hides(e, p) /\ ~(Adds(e) /\ p = e.path)
    <3>1. PICK f \in E : Adds(f) /\ f.path = p
      BY <1>3 DEF AddedAt
    <3> QED
      BY <3>1, AddedStays
  <2>3. Makes(E, e, m, n, p)
    <3> HIDE DEF m, n
    <3> QED
      BY <1>1, <1>2, <1>3, <2>1, <2>2 DEF Makes
  <2> QED
    BY <2>3 DEF m, n, F
<1>4. CASE AddedAt(E, p) = {} /\ Adds(e) /\ p = e.path
  <2>1. AddedAt(F, p) = {e}
    BY <1>4 DEF AddedAt
  <2>2. NodeAt(F, p) = NodeOf(F, e)
    BY <2>1 DEF NodeAt
  <2>3. Makes(E, e, m, n, p)
    <3> HIDE DEF m, n
    <3> QED
      BY <1>2, <1>4, <2>1, <2>2 DEF Makes
  <2> QED
    BY <2>3 DEF m, n, F
<1>5. CASE AddedAt(E, p) = {} /\ ~(Adds(e) /\ p = e.path)
  <2>1. AddedAt(F, p) = {}
    BY <1>5 DEF AddedAt
  <2>2. Covers(F, p) <=> Covers(E, p) \/ Hides(e, p)
    BY <1>5, <2>1 DEF Covers
  <2>3. Makes(E, e, m, n, p)
    <3> HIDE DEF m, n
    <3> QED
      BY <1>1, <1>2, <1>5, <2>1, <2>2 DEF Makes
  <2> QED
    BY <2>3 DEF m, n, F
<1> QED
  BY <1>3, <1>4, <1>5

\* A path with no link on its way or at its end leads to itself.
LEMMA PlainResolves ==
  ASSUME NEW t, Typed(t), NEW y \in Seq(Names), Plain(t, y)
  PROVE  Resolve(t, y) = {y}
<1> DEFINE root == <<>>
           s == At(y, root, 0)
<1>1. root \in Texts /\ y \o root = y
  BY EmptySeq, ConcatEmptySeq DEF Texts
<1> HIDE DEF root
<1>2. Resolve(t, y \o root) = Ends(t)[At(y, root, 0)]
  BY <1>1, WalkedFromRoot
<1>3. s \in Cursor /\ s.hops = 0 /\ s.rest = root /\ s.resolved = y
  <2>1. 0 \in Nat
    OBVIOUS
  <2>2. s \in Cursor
    BY <1>1, <2>1, CursorIs
  <2> QED
    BY <2>2 DEF At
<1> HIDE DEF s
<1>4. Ends(t)[s] = IF s.hops > MaxSymlinkHops THEN {}
                   ELSE IF s.rest = <<>> THEN {s.resolved} ELSE Ends(t)[Turn(t, s)]
  BY <1>3, EndsIs
<1>5. ~(0 > MaxSymlinkHops)
  BY RootFSAssumption
<1>6. Ends(t)[s] = {y}
  BY <1>3, <1>4, <1>5 DEF root
<1> QED
  BY <1>1, <1>2, <1>6 DEF s

\* The directories that an entry names come before it.
LEMMA DirsAbove ==
  ASSUME NEW t, NEW E, Solid(E), NEW d \in Seq(Names) \ {<<>>}, NEW f \in E, f.type = "dir", f.path = d
  PROVE  IsDir(Over(t, E), d)
<1>1. f \in AddedAt(E, d)
  BY DEF AddedAt, Adds
<1>2. AddedAt(E, d) = {f}
  BY <1>1 DEF AddedAt, Solid
<1>3. NodeAt(E, d) = NodeOf(E, f)
  BY <1>2 DEF NodeAt
<1>4. NodeOf(E, f) = Dir
  BY DEF NodeOf
<1>5. d \in DOMAIN Over(t, E) /\ Over(t, E)[d] = Dir
  BY <1>1, <1>3, <1>4 DEF Over
<1> QED
  BY <1>5 DEF IsDir, IsKind, Dir

\* Where an entry that fits is to go: the directories above it are there.
IsPlaced(m, e) ==
  /\ ResolveParent(m, e.path) = {e.path}
  /\ \A d \in Above(e.path) : IsDir(m, d)
  /\ e.path # <<>> => IsDir(m, Front(e.path))
  /\ e.type = "opaque" => Resolve(m, e.path) = {e.path}

\* In the tree its layer has made so far, the place an entry that fits names is the
\* place it is written to: no link is on the way.
LEMMA PlaceIs ==
  ASSUME NEW t, NEW data, NEW E, Solid(E), NEW e \in EntryType, Fits(E, e), IsTree(Over(t, E), data)
  PROVE  IsPlaced(Over(t, E), e)
<1> DEFINE m == Over(t, E)
           p == e.path
<1>1. Typed(m) /\ <<>> \notin DOMAIN m /\ p \in Seq(Names) /\ Above(p) \subseteq Seq(Names)
  <2>1. p \in Seq(Names)
    BY EntryIs
  <2> QED
    BY <2>1, TreeIs, AboveIsPath
<1>2. \A d \in Above(p) : d = <<>> \/ \E f \in E : f.type = "dir" /\ f.path = d
  BY DEF Fits
<1>3. e.type = "opaque" => p = <<>> \/ \E f \in E : f.type = "dir" /\ f.path = p
  BY DEF Fits
<1>4. \A d \in Seq(Names) : d = <<>> \/ (\E f \in E : f.type = "dir" /\ f.path = d) => IsDir(m, d)
  <2> SUFFICES ASSUME NEW d \in Seq(Names), d # <<>>, NEW f \in E, f.type = "dir", f.path = d
               PROVE  IsDir(m, d)
    BY DEF IsDir
  <2> QED
    BY DirsAbove
<1> HIDE DEF m, p
<1>5. (\A d \in Above(p) : IsDir(m, d)) /\ (e.type = "opaque" => IsDir(m, p))
  BY <1>1, <1>2, <1>3, <1>4
<1>6. \A d : IsDir(m, d) => ~IsKind(m, d, "link")
  BY <1>1 DEF IsDir, IsKind
<1>7. e.type = "opaque" => Resolve(m, p) = {p}
  <2> SUFFICES ASSUME e.type = "opaque" PROVE Plain(m, p)
    BY <1>1, PlainResolves
  <2> QED
    BY <1>5, <1>6 DEF Plain
<1>8. ASSUME p # <<>> PROVE IsDir(m, Front(p)) /\ ResolveParent(m, p) = {p}
  <2> DEFINE f == Front(p)
  <2>1. f \in Seq(Names) /\ Above(p) = Above(f) \cup {f} /\ Append(f, Last(p)) = p
    BY <1>1, <1>8, AboveFront, FrontAndLast
  <2>2. ResolveParent(m, p) = {Append(q, Last(p)) : q \in Resolve(m, f)}
    BY <1>8 DEF ResolveParent
  <2> HIDE DEF f
  <2>3. Plain(m, f)
    BY <1>5, <1>6, <2>1 DEF Plain
  <2>4. Resolve(m, f) = {f}
    BY <1>1, <2>1, <2>3, PlainResolves
  <2>5. ResolveParent(m, p) = {p}
    BY <2>1, <2>2, <2>4
  <2> QED
    BY <1>5, <2>1, <2>5 DEF f
<1>9. ResolveParent(m, p) = {p}
  <2>1. p = <<>> => ResolveParent(m, p) = {p}
    BY DEF ResolveParent
  <2> QED
    BY <1>8, <2>1
<1> QED
  BY <1>5, <1>7, <1>8, <1>9 DEF IsPlaced, m, p

\* A tree that differs from the one before it as OverOne says is the one after.
LEMMA OverIs ==
  ASSUME NEW t, NEW data, NEW E, Solid(E), NEW e \in EntryType, Fits(E, e), NEW u, IsTree(u, data),
         \A p \in Seq(Names) \ {<<>>} : Makes(E, e, Over(t, E), u, p)
  PROVE  u = Over(t, E \cup {e})
<1> DEFINE m == Over(t, E)
           n == Over(t, E \cup {e})
<1>1. DOMAIN u \subseteq Seq(Names) \ {<<>>} /\ u = [p \in DOMAIN u |-> u[p]]
  BY DEF IsTree
<1>2. DOMAIN n \subseteq Seq(Names) \ {<<>>} /\ n = [p \in DOMAIN n |-> n[p]]
  BY DEF Over
<1>3. \A p \in Seq(Names) \ {<<>>} : Makes(E, e, m, n, p)
  BY OverOne
<1> HIDE DEF m, n
<1>4. \A p \in Seq(Names) \ {<<>>} : Makes(E, e, m, u, p)
  BY DEF m
<1>5. \A p \in Seq(Names) \ {<<>>} : (p \in DOMAIN u <=> p \in DOMAIN n) /\ (p \in DOMAIN u => u[p] = n[p])
  BY <1>3, <1>4 DEF Makes
<1>6. DOMAIN u = DOMAIN n
  BY <1>1, <1>2, <1>5
<1>7. \A p \in DOMAIN u : u[p] = n[p]
  BY <1>1, <1>5
<1>8. u = n
  BY <1>1, <1>2, <1>6, <1>7
<1> QED
  BY <1>8 DEF n

\* An entry that clears: an opaque marker or a whiteout.
LEMMA Clears ==
  ASSUME NEW t, NEW data, NEW E, Solid(E), NEW e \in EntryType, Fits(E, e), IsTree(Over(t, E), data),
         e.type \in {"opaque", "white"}
  PROVE  Outcomes(Over(t, E), e) = {Over(t, E \cup {e})}
<1> DEFINE m == Over(t, E)
           p == e.path
<1>1. p \in Seq(Names) /\ ~Adds(e)
  BY EntryIs DEF Adds
<1>2. ResolveParent(m, p) = {p} /\ (e.type = "opaque" => Resolve(m, p) = {p})
  <2>1. IsPlaced(m, e)
    BY PlaceIs
  <2> QED
    BY <2>1 DEF IsPlaced
<1>3. p = <<>> => e.type = "opaque"
  BY DEF Fits
<1>4. CASE e.type = "opaque"
  <2> DEFINE u == ClearDir(m, p)
  <2>1. Extract(m, e) = {u}
    BY <1>2, <1>4 DEF Extract, Placed
  <2>2. \A q : Hides(e, q) <=> IsStrictPrefix(p, q)
    BY <1>4 DEF Hides
  <2> HIDE DEF m, p
  <2>3. /\ IsTree(u, data) /\ DOMAIN u = {q \in DOMAIN m : ~IsStrictPrefix(p, q)}
        /\ \A q \in DOMAIN u : u[q] = m[q]
    BY <1>1, ClearDirIs DEF m
  <2> HIDE DEF u
  <2>4. \A q \in Seq(Names) \ {<<>>} : Makes(E, e, m, u, q)
    BY <1>1, <2>2, <2>3 DEF Makes
  <2>5. u = Over(t, E \cup {e})
    BY <2>3, <2>4, OverIs DEF m
  <2> QED
    BY <2>1, <2>5 DEF Outcomes, m
<1>5. CASE e.type = "white"
  <2> DEFINE u == RemoveAll(m, p)
  <2>1. Extract(m, e) = {u}
    BY <1>2, <1>3, <1>5 DEF Extract, Placed
  <2>2. \A q : Hides(e, q) <=> IsPrefix(p, q)
    BY <1>5 DEF Hides
  <2> HIDE DEF m, p
  <2>3. /\ IsTree(u, data) /\ DOMAIN u = {q \in DOMAIN m : ~IsPrefix(p, q)}
        /\ \A q \in DOMAIN u : u[q] = m[q]
    BY <1>1, RemoveAllIs DEF m
  <2> HIDE DEF u
  <2>4. \A q \in Seq(Names) \ {<<>>} : Makes(E, e, m, u, q)
    BY <1>1, <2>2, <2>3 DEF Makes
  <2>5. u = Over(t, E \cup {e})
    BY <2>3, <2>4, OverIs DEF m
  <2> QED
    BY <2>1, <2>5 DEF Outcomes, m
<1> QED
  BY <1>4, <1>5

\* A path under which a tree has something is a directory of it.
LEMMA BelowIsDir ==
  ASSUME NEW t, NEW data, IsTree(t, data), NEW p \in Seq(Names), NEW q \in DOMAIN t, IsStrictPrefix(p, q)
  PROVE  IsDir(t, p)
<1>1. q \in Seq(Names) /\ \A d \in Above(q) : IsDir(t, d)
  BY TreeIs
<1> QED
  BY <1>1, AbovePath

\* An entry that makes a directory; the root is there.
LEMMA MakesDir ==
  ASSUME NEW t, NEW data, NEW E, Solid(E), NEW e \in EntryType, Fits(E, e), IsTree(Over(t, E), data),
         e.type = "dir"
  PROVE  Outcomes(Over(t, E), e) = {Over(t, E \cup {e})}
<1> DEFINE m == Over(t, E)
           p == e.path
<1>1. p \in Seq(Names) /\ Adds(e) /\ (\A q : ~Hides(e, q)) /\ NodeOf(E \cup {e}, e) = Dir
  BY EntryIs DEF Adds, Hides, NodeOf
<1>2. ResolveParent(m, p) = {p} /\ \A d \in Above(p) : IsDir(m, d)
  BY PlaceIs DEF IsPlaced
<1>3. CASE p = <<>>
  <2>1. Outcomes(m, e) = {m}
    BY <1>3 DEF Outcomes, Extract
  <2> HIDE DEF m
  <2>2. \A q \in Seq(Names) \ {<<>>} : Makes(E, e, m, m, q)
    BY <1>1, <1>3 DEF Makes
  <2>3. m = Over(t, E \cup {e})
    BY <2>2, OverIs DEF m
  <2> QED
    BY <2>1, <2>3 DEF m
<1>4. CASE p # <<>>
  <2> DEFINE v == IF p \in DOMAIN m /\ ~IsDir(m, p) THEN RemoveAll(m, p) ELSE m
  <2>1. Extract(m, e) = MkdirAll(v, p)
    BY <1>2, <1>4 DEF Extract, Placed, MakeDir
  <2>2. IsTree(m, data) /\ IsTree(RemoveAll(m, p), data)
    BY <1>1, RemoveAllIs
  <2> HIDE DEF m, p
  <2>3. /\ DOMAIN RemoveAll(m, p) = {q \in DOMAIN m : ~IsPrefix(p, q)}
        /\ \A q \in DOMAIN RemoveAll(m, p) : RemoveAll(m, p)[q] = m[q]
    BY <1>1, <2>2, RemoveAllIs
  <2>4. IsTree(v, data) /\ (\A q \in DOMAIN v : v[q] = m[q]) /\ (p \in DOMAIN v => IsDir(v, p))
    <3>1. IsPrefix(p, p)
      BY <1>1, PrefixIs
    <3> QED
      BY <2>2, <2>3, <3>1
  <2>5. \A q \in DOMAIN m : q # p => q \in DOMAIN v
    <3> SUFFICES ASSUME NEW q \in DOMAIN m, q # p, IsPrefix(p, q) PROVE IsDir(m, p)
      BY <2>3
    <3> QED
      BY <1>1, <2>2, BelowIsDir DEF IsStrictPrefix
  <2>6. DOMAIN v \subseteq DOMAIN m
    BY <2>3
  <2> HIDE DEF v
  <2>7. \A d \in Above(p) : IsDir(v, d)
    <3> SUFFICES ASSUME NEW d \in Above(p), d # <<>> PROVE d \in DOMAIN v /\ v[d].kind = "dir"
      BY DEF IsDir, IsKind
    <3>1. d \in DOMAIN m /\ m[d].kind = "dir"
      BY <1>2 DEF IsDir, IsKind, m, p
    <3>2. d # p
      BY <1>1, AboveIsPath, AbovePath DEF IsStrictPrefix
    <3> QED
      BY <2>4, <2>5, <3>1, <3>2
  <2> DEFINE u == With(v, Chain(p), Dir)
  <2>8. \A q \in Chain(p) : q = p \/ (q \in DOMAIN v /\ v[q].kind = "dir")
    BY <2>7 DEF Chain, IsDir, IsKind
  <2>9. p \in DOMAIN v => v[p].kind = "dir"
    BY <1>4, <2>4 DEF IsDir, IsKind, p
  <2>10. MkdirAll(v, p) = {u}
    BY <2>8, <2>9 DEF MkdirAll, Chain
  <2>11. u \in MkdirAll(v, p)
    BY <2>10
  <2> HIDE DEF u
  <2>12. /\ IsTree(u, data) /\ DOMAIN u = DOMAIN v \cup Chain(p) /\ (\A q \in DOMAIN v : u[q] = v[q])
         /\ \A q \in Chain(p) : u[q] = Dir
    <3>1. p \in Seq(Names) /\ IsTree(v, data)
      BY <1>1, <2>4 DEF p
    <3>2. IsTree(u, data) /\ HasDirs(v, p, u)
      BY <2>11, <3>1, MkdirIs
    <3> QED
      BY <3>2 DEF HasDirs
  <2>13. p \in Chain(p) /\ DOMAIN u = DOMAIN m \cup {p}
    <3>1. p \in Chain(p)
      BY <1>4 DEF Chain, p
    <3> QED
      BY <2>5, <2>6, <2>8, <2>12, <3>1
  <2>14. u[p] = Dir /\ \A q \in DOMAIN m : q # p => u[q] = m[q]
    BY <2>4, <2>5, <2>12, <2>13
  <2>15. \A q \in Seq(Names) \ {<<>>} : Makes(E, e, m, u, q)
    BY <1>1, <2>13, <2>14 DEF Makes, p
  <2>16. u = Over(t, E \cup {e})
    BY <2>12, <2>15, OverIs DEF m
  <2> QED
    BY <2>1, <2>10, <2>16 DEF Outcomes, m
<1> QED
  BY <1>3, <1>4

\* What Put makes where the directories above are there.
LEMMA PutThere ==
  ASSUME NEW t, NEW data, NEW E, Solid(E), NEW e \in EntryType, Fits(E, e), IsTree(Over(t, E), data),
         e.type \in {"file", "link", "hard"}, NEW node \in Nodes(data), node = NodeOf(E \cup {e}, e)
  PROVE  /\ MkdirAll(Over(t, E), Front(e.path)) = {Over(t, E)}
         /\ With(RemoveAll(Over(t, E), e.path), {e.path}, node) = Over(t, E \cup {e})
<1> DEFINE m == Over(t, E)
           p == e.path
<1>1. p \in Seq(Names) \ {<<>>} /\ Adds(e) /\ \A q : Hides(e, q) <=> IsStrictPrefix(p, q)
  <2>1. p \in Seq(Names) /\ p # <<>>
    BY EntryIs DEF Fits
  <2> QED
    BY <2>1 DEF Adds, Hides
<1>2. IsDir(m, Front(p)) /\ Front(p) \in Seq(Names) /\ IsTree(m, data)
  BY <1>1, PlaceIs, FrontIs DEF IsPlaced
<1> HIDE DEF m, p
<1>3. MkdirAll(m, Front(p)) = {m}
  BY <1>2, MkdirThere
<1> DEFINE u == With(RemoveAll(m, p), {p}, node)
<1>4. /\ IsTree(u, data) /\ DOMAIN u = {q \in DOMAIN m : ~IsPrefix(p, q)} \cup {p} /\ u[p] = node
      /\ \A q \in DOMAIN m : ~IsPrefix(p, q) => u[q] = m[q]
  <2>1. m \in MkdirAll(m, Front(p)) /\ p \in Seq(Names) \ {<<>>} /\ IsTree(m, data)
    BY <1>1, <1>2, <1>3
  <2>2. IsTree(u, data) /\ Replaces(m, p, node, u)
    BY <2>1, PutIs
  <2> QED
    BY <2>2 DEF Replaces
<1> HIDE DEF u
<1>5. \A q \in Seq(Names) \ {<<>>} : Makes(E, e, m, u, q)
  BY <1>1, <1>4 DEF Makes, p, IsStrictPrefix
<1>6. u = Over(t, E \cup {e})
  BY <1>4, <1>5, OverIs DEF m
<1> QED
  BY <1>3, <1>6 DEF u, m, p

\* A file or a link takes the place that its path names.
LEMMA Puts ==
  ASSUME NEW t, NEW data, NEW E, Solid(E), NEW e \in EntryType, Fits(E, e), IsTree(Over(t, E), data),
         Contents \subseteq data, e.type \in {"file", "link"}
  PROVE  Outcomes(Over(t, E), e) = {Over(t, E \cup {e})}
<1> DEFINE m == Over(t, E)
           p == e.path
           node == IF e.type = "file" THEN File(e.data) ELSE Link(e.abs, e.to)
<1>1. e.data \in Contents /\ e.abs \in BOOLEAN /\ e.to \in Texts
  BY EntryIs
<1>2. node \in Nodes(data)
  BY <1>1 DEF File, Link, Nodes, Texts
<1>3. node = NodeOf(E \cup {e}, e)
  BY DEF NodeOf
<1>4. p # <<>> /\ ResolveParent(m, p) = {p}
  <2>1. IsPlaced(m, e)
    BY PlaceIs
  <2>2. p # <<>>
    BY DEF Fits
  <2> QED
    BY <2>1, <2>2 DEF IsPlaced
<1>5. Extract(m, e) = Put(m, p, node)
  <2>1. CASE e.type = "file"
    BY <1>4, <2>1 DEF Extract, Placed
  <2>2. CASE e.type = "link"
    BY <1>4, <2>2 DEF Extract, Placed
  <2> QED
    BY <2>1, <2>2
<1> HIDE DEF m, node
<1>6. MkdirAll(m, Front(p)) = {m} /\ With(RemoveAll(m, p), {p}, node) = Over(t, E \cup {e})
  <2>1. e.type \in {"file", "link", "hard"}
    OBVIOUS
  <2> HIDE DEF p
  <2> QED
    BY <1>2, <1>3, <2>1, PutThere DEF m, p
<1> HIDE DEF p
<1>7. Put(m, p, node) = {Over(t, E \cup {e})}
  BY <1>6 DEF Put
<1> QED
  BY <1>5, <1>7 DEF Outcomes, m

\* A hard link to a file of its layer is that file.
LEMMA Hardlinks ==
  ASSUME NEW t, NEW data, NEW E, Solid(E), NEW e \in EntryType, Fits(E, e), IsTree(Over(t, E), data),
         Contents \subseteq data, e.type = "hard"
  PROVE  Outcomes(Over(t, E), e) = {Over(t, E \cup {e})}
<1> DEFINE m == Over(t, E)
           p == e.path
           y == Clean(TRUE, e.to)
<1>1. PICK f \in E : f.type = "file" /\ f.path = y
  BY DEF Fits
<1>2. f \in EntryType /\ Adds(f) /\ f.path # <<>>
  BY <1>1 DEF Solid, Adds
<1>3. y \in Seq(Names) \ {<<>>} /\ p \in Seq(Names) \ {<<>>} /\ f.data \in Contents
  <2>1. p \in Seq(Names) /\ y \in Seq(Names)
    BY EntryIs
  <2>2. f.data \in Contents
    BY <1>2, EntryIs
  <2> QED
    BY <1>1, <1>2, <2>1, <2>2 DEF Fits
<1> DEFINE node == File(f.data)
<1>4. node \in Nodes(data)
  BY <1>3 DEF File, Nodes
<1>5. AddedAt(E, y) = {f}
  <2>1. \A g \in E : Adds(g) /\ g.path = f.path => g = f
    BY <1>1, <1>2 DEF Solid
  <2>2. \A g : g \in AddedAt(E, y) <=> g = f
    BY <1>1, <1>2, <2>1, Zenon DEF AddedAt
  <2> QED
    BY <2>2, Zenon
<1>6. y \in DOMAIN m /\ m[y] = node
  <2>1. NodeAt(E, y) = NodeOf(E, f)
    BY <1>5 DEF NodeAt
  <2>2. NodeOf(E, f) = node
    BY <1>1 DEF NodeOf
  <2> QED
    BY <1>3, <1>5, <2>1, <2>2 DEF Over
<1>7. node = NodeOf(E \cup {e}, e)
  <2>1. Targets(E \cup {e}, e) = {f}
    <3>1. \A g \in E : g.type = "file" /\ g.path = y => g = f
      <4>1. \A g \in E : Adds(f) /\ Adds(g) /\ f.path = g.path => f = g
        BY DEF Solid
      <4>2. \A g \in E : g.type = "file" => Adds(g)
        BY DEF Adds
      <4> HIDE DEF y
      <4> QED
        BY <1>1, <1>2, <4>1, <4>2
    <3>2. e.type # "file"
      OBVIOUS
    <3> QED
      BY <1>1, <3>1, <3>2 DEF Targets
  <2> QED
    BY <2>1 DEF NodeOf
<1>8. ~IsPrefix(p, y)
  <2>1. ~Hides(e, f.path) /\ f.path # e.path
    BY <1>2, AddedStays DEF Adds
  <2> QED
    BY <1>1, <2>1 DEF Hides, IsStrictPrefix
<1>9. ResolveParent(m, p) = {p}
  <2>1. IsPlaced(m, e)
    BY PlaceIs
  <2> QED
    BY <2>1 DEF IsPlaced
<1>10. ResolveParent(m, y) = {y}
  <2> DEFINE w == Front(y)
  <2>1. w \in Seq(Names) /\ Append(w, Last(y)) = y
    BY <1>3, FrontAndLast
  <2>2. ResolveParent(m, y) = {Append(q, Last(y)) : q \in Resolve(m, w)}
    BY <1>3 DEF ResolveParent
  <2>3. Plain(m, w) /\ Typed(m)
    BY <1>6, NodeIsPlain, TreeIs
  <2> HIDE DEF w, m, y
  <2>4. Resolve(m, w) = {w}
    BY <2>1, <2>3, PlainResolves
  <2> QED
    BY <2>1, <2>2, <2>4
<1>11. Extract(m, e) = Hardlink(m, y, p)
  <2>1. HardlinkFrom(m, {y}, p) = Hardlink(m, y, p)
    <3> HIDE DEF m, y, p
    <3>1. {y} \cap DOMAIN m = {y}
      BY <1>6
    <3>2. HardlinkFrom(m, {y}, p) = UNION {Hardlink(m, q, p) : q \in {y}}
      BY <3>1 DEF HardlinkFrom
    <3> QED
      BY <3>2
  <2>2. Extract(m, e) = UNION {HardlinkFrom(m, {y}, q) : q \in {p}}
    BY <1>3, <1>9, <1>10 DEF Extract, Placed
  <2> HIDE DEF m, y, p
  <2> QED
    BY <2>1, <2>2
<1>12. MkdirAll(m, Front(p)) = {m} /\ With(RemoveAll(m, p), {p}, node) = Over(t, E \cup {e})
  <2> HIDE DEF node
  <2> QED
    BY <1>4, <1>7, PutThere
<1>13. IsTree(m, data)
  OBVIOUS
<1> HIDE DEF m, y, p
<1>14. y \in DOMAIN RemoveAll(m, p) /\ RemoveAll(m, p)[y] = node
  <2>1. /\ DOMAIN RemoveAll(m, p) = {q \in DOMAIN m : ~IsPrefix(p, q)}
        /\ \A q \in DOMAIN RemoveAll(m, p) : RemoveAll(m, p)[q] = m[q]
    BY <1>3, <1>13, RemoveAllIs
  <2> QED
    BY <1>6, <1>8, <2>1
<1>15. ~IsDir(RemoveAll(m, p), y)
  BY <1>3, <1>14 DEF IsDir, IsKind, File
<1> HIDE DEF node
<1>16. Hardlink(m, y, p) = {With(RemoveAll(m, p), {p}, node)}
  BY <1>12, <1>14, <1>15 DEF Hardlink
<1> QED
  BY <1>11, <1>12, <1>16 DEF Outcomes, m

\* One entry of a well-formed layer makes of the tree what it is to make.
LEMMA EntryMade ==
  ASSUME NEW t, NEW data, NEW E, Solid(E), NEW e \in EntryType, Fits(E, e), IsTree(Over(t, E), data),
         Contents \subseteq data
  PROVE  Outcomes(Over(t, E), e) = {Over(t, E \cup {e})}
<1>1. e.type \in {"dir", "file", "link", "hard", "white", "opaque"}
  BY EntryIs DEF Fits
<1>2. CASE e.type \in {"opaque", "white"}
  BY <1>2, Clears
<1>3. CASE e.type = "dir"
  BY <1>3, MakesDir
<1>4. CASE e.type \in {"file", "link"}
  BY <1>4, Puts
<1>5. CASE e.type = "hard"
  BY <1>5, Hardlinks
<1> QED
  BY <1>1, <1>2, <1>3, <1>4, <1>5

-----------------------------------------------------------------------------
(* The union of layers, one layer after another                            *)

\* What a union of layers holds, place by place.
LEMMA UnionIs ==
  ASSUME NEW ls \in Seq(Seq(EntryType))
  PROVE  /\ DOMAIN Union(ls) = {q \in Seq(Names) \ {<<>>} : \E k \in DOMAIN ls : ShownBy(ls, k, q)}
         /\ Union(ls) = [p \in DOMAIN Union(ls) |-> Union(ls)[p]]
         /\ \A p \in DOMAIN Union(ls) :
              Union(ls)[p] = NodeAt(ToSet(ls[CHOOSE k \in DOMAIN ls : ShownBy(ls, k, p)]), p)
<1> DEFINE all == {e.path : e \in {f \in UNION {ToSet(ls[k]) : k \in DOMAIN ls} : Adds(f)}}
           Shown(q) == \E k \in DOMAIN ls : ShownBy(ls, k, q)
<1>1. \A k \in DOMAIN ls : ToSet(ls[k]) \subseteq EntryType
  <2> SUFFICES ASSUME NEW k \in DOMAIN ls, NEW i \in DOMAIN ls[k] PROVE ls[k][i] \in EntryType
    BY DEF ToSet
  <2>1. ls[k] \in Seq(EntryType)
    BY ElementOfSeq
  <2> QED
    BY <2>1, ElementOfSeq
<1>2. all \subseteq Seq(Names)
  BY <1>1, EntryIs
<1>3. \A q : Shown(q) => q \in all
  BY DEF ShownBy, AddedAt
<1>4. {q \in all \ {<<>>} : Shown(q)} = {q \in Seq(Names) \ {<<>>} : Shown(q)}
  <2> HIDE DEF all, Shown
  <2> QED
    BY <1>2, <1>3
<1>5. Union(ls) = [p \in {q \in all \ {<<>>} : Shown(q)} |->
                     NodeAt(ToSet(ls[CHOOSE k \in DOMAIN ls : ShownBy(ls, k, p)]), p)]
  BY DEF Union
<1> HIDE DEF all
<1> QED
  BY <1>4, <1>5

\* A layer more is a layer over the tree of the others.
LEMMA UnionOver ==
  ASSUME NEW ls \in Seq(Seq(EntryType)), NEW l \in Seq(EntryType)
  PROVE  Union(Append(ls, l)) = Over(Union(ls), ToSet(l))
<1> DEFINE as == Append(ls, l)
           N == Len(ls)
           k1 == N + 1
           m == Union(ls)
           n == Union(as)
           E == ToSet(l)
           P == Seq(Names) \ {<<>>}
<1>1. /\ as \in Seq(Seq(EntryType)) /\ N \in Nat /\ Len(as) = N + 1 /\ as[N + 1] = l
      /\ \A i \in 1..N : as[i] = ls[i]
  BY OneMore, LenProperties
<1>2. DOMAIN ls = 1..N /\ DOMAIN as = 1..N \cup {k1} /\ k1 \notin 1..N
  BY <1>1, LenProperties
<1> HIDE DEF as, k1
<1>3. ASSUME NEW p, NEW k \in 1..N PROVE ShownBy(as, k, p) <=> ShownBy(ls, k, p) /\ ~Covers(E, p)
  <2>1. (k + 1)..Len(as) = (k + 1)..N \cup {k1} /\ (k + 1)..N \subseteq 1..N /\ as[k1] = l
    <3> HIDE DEF N
    <3> QED
      BY <1>1 DEF k1
  <2>2. \A j \in (k + 1)..N : as[j] = ls[j]
    BY <1>1, <2>1
  <2>3. as[k] = ls[k]
    BY <1>1
  <2>4. (\A j \in (k + 1)..Len(as) : ~Covers(ToSet(as[j]), p))
          <=> (\A j \in (k + 1)..N : ~Covers(ToSet(ls[j]), p)) /\ ~Covers(E, p)
    <3> HIDE DEF N
    <3> QED
      BY <2>1, <2>2
  <2> QED
    BY <2>3, <2>4 DEF ShownBy
<1>4. \A p : ShownBy(as, k1, p) <=> AddedAt(E, p) # {}
  <2>1. (k1 + 1)..Len(as) = {} /\ as[k1] = l
    BY <1>1 DEF k1
  <2> QED
    BY <2>1 DEF ShownBy
<1>5. \A p : AddedAt(E, p) # {} => Covers(E, p)
  BY DEF Covers
<1>6. ASSUME NEW p, NEW k \in 1..N, NEW j \in 1..N, ShownBy(ls, k, p), ShownBy(ls, j, p) PROVE k = j
  <2>1. ASSUME NEW a \in 1..N, NEW b \in 1..N, ShownBy(ls, a, p), ShownBy(ls, b, p), a < b PROVE FALSE
    <3>1. b \in (a + 1)..Len(ls)
      BY <1>1, <2>1
    <3>2. ~Covers(ToSet(ls[b]), p) /\ AddedAt(ToSet(ls[b]), p) # {}
      BY <2>1, <3>1 DEF ShownBy
    <3> QED
      BY <3>2 DEF Covers
  <2>2. k \in Nat /\ j \in Nat
    BY <1>1
  <2>3. ~(k < j) /\ ~(j < k)
    BY <1>6, <2>1
  <2> QED
    BY <2>2, <2>3
<1> DEFINE inm(p) == \E k \in 1..N : ShownBy(ls, k, p)
<1>7. DOMAIN m = {q \in P : inm(q)} /\ m = [p \in DOMAIN m |-> m[p]]
      /\ \A p \in DOMAIN m : m[p] = NodeAt(ToSet(ls[CHOOSE k \in DOMAIN ls : ShownBy(ls, k, p)]), p)
  BY <1>2, UnionIs
<1>8. DOMAIN n = {q \in P : \E k \in DOMAIN as : ShownBy(as, k, q)} /\ n = [p \in DOMAIN n |-> n[p]]
      /\ \A p \in DOMAIN n : n[p] = NodeAt(ToSet(as[CHOOSE k \in DOMAIN as : ShownBy(as, k, p)]), p)
  BY <1>1, UnionIs
<1> HIDE DEF m, n, N, E
<1>9. ASSUME NEW p \in P PROVE p \in DOMAIN n <=> AddedAt(E, p) # {} \/ (p \in DOMAIN m /\ ~Covers(E, p))
  BY <1>2, <1>3, <1>4, <1>5, <1>7, <1>8
<1>10. ASSUME NEW p \in P, AddedAt(E, p) # {} PROVE n[p] = NodeAt(E, p)
  <2> DEFINE c == CHOOSE k \in DOMAIN as : ShownBy(as, k, p)
  <2>1. \A k \in DOMAIN as : ShownBy(as, k, p) <=> k = k1
    BY <1>2, <1>3, <1>4, <1>5, <1>10
  <2>2. c = k1
    BY <1>2, <2>1
  <2>3. ToSet(as[k1]) = E
    BY <1>1 DEF k1, E
  <2>4. n[p] = NodeAt(ToSet(as[c]), p)
    BY <1>8, <1>9, <1>10
  <2> HIDE DEF c
  <2> QED
    BY <2>2, <2>3, <2>4
<1>11. ASSUME NEW p \in DOMAIN m, ~Covers(E, p) PROVE n[p] = m[p]
  <2>0. p \in P /\ AddedAt(E, p) = {}
    BY <1>5, <1>7, <1>11
  <2>1. PICK k \in 1..N : ShownBy(ls, k, p)
    BY <1>7
  <2>2. \A j \in DOMAIN ls : ShownBy(ls, j, p) <=> j = k
    BY <1>2, <1>6, <2>1
  <2>3. \A j \in DOMAIN as : ShownBy(as, j, p) <=> j = k
    BY <1>2, <1>3, <1>4, <1>11, <2>0, <2>1, <2>2
  <2> DEFINE c == CHOOSE j \in DOMAIN ls : ShownBy(ls, j, p)
             d == CHOOSE j \in DOMAIN as : ShownBy(as, j, p)
  <2>4. c = k /\ d = k
    BY <1>2, <2>2, <2>3
  <2>5. m[p] = NodeAt(ToSet(ls[c]), p)
    BY <1>7
  <2>6. p \in DOMAIN n
    BY <1>9, <1>11, <2>0
  <2>7. n[p] = NodeAt(ToSet(as[d]), p)
    BY <1>8, <2>6
  <2>8. as[k] = ls[k]
    BY <1>1 DEF N
  <2> HIDE DEF c, d
  <2> QED
    BY <2>4, <2>5, <2>7, <2>8
<1> DEFINE o == Over(m, E)
<1>12. /\ DOMAIN o = {q \in P : AddedAt(E, q) # {} \/ (q \in DOMAIN m /\ ~Covers(E, q))}
       /\ o = [p \in DOMAIN o |-> o[p]]
       /\ \A p \in DOMAIN o : o[p] = IF AddedAt(E, p) # {} THEN NodeAt(E, p) ELSE m[p]
  BY DEF Over
<1> HIDE DEF o
<1>13. DOMAIN n = DOMAIN o
  BY <1>8, <1>9, <1>12
<1>14. \A p \in DOMAIN n : n[p] = o[p]
  BY <1>10, <1>11, <1>12, <1>13
<1>15. n = o
  BY <1>8, <1>12, <1>13, <1>14
<1> QED
  BY <1>15 DEF n, o, m, E, as

\* A layer of which nothing is read leaves the tree as it is.
LEMMA OverNone ==
  ASSUME NEW t, NEW data, IsTree(t, data)
  PROVE  Over(t, {}) = t
<1>1. DOMAIN t \subseteq Seq(Names) \ {<<>>} /\ t = [p \in DOMAIN t |-> t[p]]
  BY DEF IsTree
<1>2. \A q : AddedAt({}, q) = {} /\ ~Covers({}, q)
  BY DEF AddedAt, Covers
<1>3. {q \in Seq(Names) \ {<<>>} : AddedAt({}, q) # {} \/ (q \in DOMAIN t /\ ~Covers({}, q))} = DOMAIN t
  BY <1>1, <1>2
<1>4. Over(t, {}) = [p \in DOMAIN t |-> t[p]]
  BY <1>2, <1>3 DEF Over
<1> QED
  BY <1>1, <1>4

\* The first n entries of a layer.
FirstEntries(l, n) == {l[i] : i \in 1..n}

\* What was read of a well-formed layer is solid, however far it was read.
LEMMA ReadIsSolid ==
  ASSUME NEW l \in Seq(EntryType), WellFormed(l)
  PROVE  \A n \in Nat : n <= Len(l) => Solid(FirstEntries(l, n))
<1> DEFINE G == {n \in Nat : n <= Len(l) => Solid(FirstEntries(l, n))}
<1>0. Len(l) \in Nat /\ DOMAIN l = 1..Len(l)
  BY LenProperties
<1>1. 0 \in G
  <2>1. FirstEntries(l, 0) = {}
    BY DEF FirstEntries
  <2>2. Solid({})
    BY DEF Solid
  <2> QED
    BY <2>1, <2>2
<1>2. ASSUME NEW n \in Nat, n \in G PROVE n + 1 \in G
  <2> SUFFICES ASSUME n + 1 <= Len(l) PROVE Solid(FirstEntries(l, n + 1))
    OBVIOUS
  <2> DEFINE k == n + 1
  <2>1. k \in 1..Len(l) /\ k - 1 = n /\ 1..k = 1..n \cup {k} /\ n <= Len(l)
    BY <1>0
  <2> HIDE DEF k
  <2>2. FirstEntries(l, k) = FirstEntries(l, n) \cup {l[k]}
    BY <2>1 DEF FirstEntries
  <2>3. Fits(FirstEntries(l, n), l[k])
    BY <1>0, <2>1 DEF WellFormed, FirstEntries
  <2>4. l[k] \in EntryType
    BY <2>1, ElementOfSeq
  <2>5. Solid(FirstEntries(l, n))
    BY <1>2, <2>1
  <2>6. Solid(FirstEntries(l, k))
    BY <2>2, <2>3, <2>4, <2>5, SolidGrows
  <2> QED
    BY <2>6 DEF k
<1> HIDE DEF G
<1>3. \A n \in Nat : n \in G
  BY <1>1, <1>2, CountUp
<1> QED
  BY <1>3 DEF G
-----------------------------------------------------------------------------
(* The inductive invariant                                                 *)

\* Every layer is as image builders write them, and was written in full.
Fair == ~spoiled /\ \A i \in DOMAIN applied : WellFormed(applied[i])

\* n entries of the layer l were read: the others are still to come, and the
\* tree is that of the layers below with these over it.
ReadUpTo(l, n) ==
  /\ layer = SubSeq(l, n + 1, Len(l))
  /\ Fair => tree = Over(Union(Front(applied)), FirstEntries(l, n))

LayersKept ==
  /\ applied \in Seq(Seq(EntryType))
  /\ status = "entries" => applied # <<>> /\ \E n \in 0..Len(Last(applied)) : ReadUpTo(Last(applied), n)
  /\ status = "layers" \/ (status = "ready" /\ applied # <<>>) => (Fair => tree = Union(applied))

\* A walk that was made left what it visited and what it could not.
WalkMade(base) ==
  /\ base \in Bases
  /\ \E host \in Resolve(Found(tree, denied), base) :
       /\ walked[base] = {TreeName(base, host, q) : q \in Visited(tree, denied, host)}
       /\ Gaps(tree, denied, base, host) \subseteq seen

WalksKept ==
  /\ status # "ready" => DOMAIN walked = {}
  /\ \A base \in DOMAIN walked : WalkMade(base)

IInv == TypeOK /\ LayersKept /\ WalksKept

Data == Contents \cup {Nothing}

\* The invariant holds of an image nothing was extracted of.
LEMMA InitIInv == Init => IInv
<1> SUFFICES ASSUME Init PROVE IInv
  OBVIOUS
<1>1. IsTree(NoPaths, Data) /\ Union(<<>>) = NoPaths
  <2>1. DOMAIN NoPaths = {} /\ NoPaths \in [{} -> Nodes(Data)]
    BY DEF NoPaths
  <2>2. <<>> \in Seq(Seq(EntryType)) /\ DOMAIN <<>> = {}
    BY EmptySeq
  <2> DEFINE none == <<>>
  <2>3. none \in Seq(Seq(EntryType)) /\ DOMAIN none = {}
    BY <2>2
  <2> HIDE DEF none
  <2>4. DOMAIN Union(none) = {} /\ Union(none) = [p \in DOMAIN Union(none) |-> Union(none)[p]]
    BY <2>3, UnionIs
  <2>5. Union(none) = NoPaths
    BY <2>4 DEF NoPaths
  <2> QED
    BY <2>1, <2>5 DEF IsTree, none
<1>2. IsTree(tree, Data)
  <2>1. CASE InitImage
    BY <1>1, <2>1 DEF InitImage
  <2>2. CASE InitRoot
    <3>1. IsTree(tree, Contents)
      BY <2>2, LayersAssumption DEF InitRoot
    <3>2. Nodes(Contents) \subseteq Nodes(Data)
      BY DEF Nodes, Data
    <3> QED
      BY <3>1, <3>2 DEF IsTree
  <2> QED
    BY <2>1, <2>2 DEF Init
<1>3. TypeOK
  <2>1. status \in {"layers", "ready"} /\ left \in 0..MaxLayers
    BY LayersAssumption DEF Init, InitImage, InitRoot
  <2>2. budget \in 0..MaxImageBytes /\ layer \in Seq(EntryType) /\ spoiled \in BOOLEAN
    <3>1. budget = MaxImageBytes /\ layer = <<>> /\ spoiled = FALSE
      BY DEF Init
    <3>2. MaxImageBytes \in 0..MaxImageBytes
      BY LayersAssumption
    <3> QED
      BY <3>1, <3>2, EmptySeq
  <2> QED
    BY <1>2, <2>1, <2>2 DEF TypeOK, Data
<1>4. LayersKept
  <2>1. applied = <<>> /\ applied \in Seq(Seq(EntryType))
    BY EmptySeq DEF Init
  <2>2. status \in {"layers", "ready"} /\ (status = "layers" => tree = Union(applied))
    BY <1>1, <2>1 DEF Init, InitImage, InitRoot
  <2> QED
    BY <2>1, <2>2 DEF LayersKept
<1>5. WalksKept
  <2>1. DOMAIN walked = {}
    BY DEF Init, NoPaths
  <2> QED
    BY <2>1 DEF WalksKept
<1> QED
  BY <1>3, <1>4, <1>5 DEF IInv

\* Nothing that a walk left changes while the tree and the rights do not.
LEMMA WalksStay ==
  ASSUME WalksKept, UNCHANGED account, status # "ready" \/ UNCHANGED <<tree, status>>
  PROVE  WalksKept'
<1>1. walked' = walked /\ seen' = seen /\ denied' = denied
  BY DEF account
<1>2. CASE status # "ready"
  <2>1. DOMAIN walked' = {}
    BY <1>1, <1>2 DEF WalksKept
  <2> QED
    BY <2>1 DEF WalksKept
<1>3. CASE UNCHANGED <<tree, status>>
  <2>1. \A base : WalkMade(base) <=> WalkMade(base)'
    BY <1>1, <1>3 DEF WalkMade
  <2> QED
    BY <1>1, <1>3, <2>1 DEF WalksKept
<1> QED
  BY <1>2, <1>3

\* A layer that is not in the archive ends the extraction.
LEMMA MissingLayerIInv == IInv /\ MissingLayer => IInv'
<1> SUFFICES ASSUME IInv, MissingLayer PROVE IInv'
  OBVIOUS
<1>1. TypeOK'
  <2>1. left - 1 \in 0..MaxLayers
    BY LayersAssumption DEF IInv, TypeOK, MissingLayer
  <2>2. IsTree(tree', Contents \cup {Nothing})
    BY DEF IInv, TypeOK, MissingLayer
  <2> QED
    BY <2>1, <2>2 DEF IInv, TypeOK, MissingLayer
<1>2. LayersKept'
  BY DEF IInv, LayersKept, MissingLayer, Fair
<1>3. WalksKept'
  BY WalksStay DEF IInv, MissingLayer
<1> QED
  BY <1>1, <1>2, <1>3 DEF IInv

\* A layer that is opened is read from its first entry.
LEMMA BeginLayerIInv == IInv /\ BeginLayer => IInv'
<1> SUFFICES ASSUME IInv, BeginLayer PROVE IInv'
  OBVIOUS
<1>1. PICK l \in Layers : layer' = l /\ applied' = Append(applied, l)
  BY DEF BeginLayer
<1>2. l \in Seq(EntryType) /\ applied \in Seq(Seq(EntryType)) /\ status = "layers"
  BY LayersAssumption DEF IInv, LayersKept, BeginLayer
<1>3. /\ applied' \in Seq(Seq(EntryType)) /\ applied' # <<>> /\ Len(applied') = Len(applied) + 1
      /\ (\A i \in 1..Len(applied) : applied'[i] = applied[i])
      /\ Front(applied') = applied /\ Last(applied') = l
  BY <1>1, <1>2, OneMore
<1>4. TypeOK'
  <2>1. left - 1 \in 0..MaxLayers
    BY LayersAssumption DEF IInv, TypeOK, BeginLayer
  <2>2. IsTree(tree', Contents \cup {Nothing})
    BY DEF IInv, TypeOK, BeginLayer
  <2> QED
    BY <1>1, <1>2, <2>1, <2>2 DEF IInv, TypeOK, BeginLayer
<1>5. Fair' => Fair
  <2>1. DOMAIN applied = 1..Len(applied) /\ DOMAIN applied' = 1..(Len(applied) + 1) /\ Len(applied) \in Nat
    BY <1>2, <1>3, LenProperties
  <2> QED
    BY <1>3, <2>1 DEF Fair, BeginLayer
<1>6. ReadUpTo(l, 0)'
  <2>1. layer' = SubSeq(l, 0 + 1, Len(l))
    BY <1>1, <1>2, SubSeqFull
  <2>2. FirstEntries(l, 0) = {}
    BY DEF FirstEntries
  <2>3. Fair => tree = Union(applied)
    BY <1>2 DEF IInv, LayersKept
  <2>4. Fair => Over(Union(applied), {}) = Union(applied)
    BY <2>3, OverNone DEF IInv, TypeOK
  <2>5. tree' = tree
    BY DEF BeginLayer
  <2> QED
    BY <1>3, <1>5, <2>1, <2>2, <2>3, <2>4, <2>5 DEF ReadUpTo
<1>7. LayersKept'
  <2>1. 0 \in 0..Len(l)
    BY <1>2, LenProperties
  <2>2. \E n \in 0..Len(l) : ReadUpTo(l, n)'
    BY <1>6, <2>1
  <2>3. status' = "entries"
    BY DEF BeginLayer
  <2> QED
    BY <1>3, <2>2, <2>3 DEF LayersKept
<1>8. WalksKept'
  BY <1>2, WalksStay DEF IInv, BeginLayer
<1> QED
  BY <1>4, <1>7, <1>8 DEF IInv

\* What is still to be read of a sequence of which n were.
LEMMA RestOf ==
  ASSUME NEW S, NEW l \in Seq(S), NEW n \in 0..Len(l), SubSeq(l, n + 1, Len(l)) # <<>>
  PROVE  /\ n + 1 \in 1..Len(l) /\ Head(SubSeq(l, n + 1, Len(l))) = l[n + 1]
         /\ Tail(SubSeq(l, n + 1, Len(l))) = SubSeq(l, n + 1 + 1, Len(l))
<1>1. Len(l) \in Nat /\ (\A i \in 1..Len(l) : l[i] \in S)
  BY LenProperties, ElementOfSeq
<1> DEFINE k == n + 1
           N == Len(l)
           s == SubSeq(l, k, N)
           u == SubSeq(l, k + 1, N)
<1>2. k \in Nat /\ k >= 1 /\ k = n + 1 /\ N \in Nat
  BY <1>1
<1>3. N = Len(l) /\ \A i \in 1..N : l[i] \in S
  BY <1>1
<1> HIDE DEF k, N
<1>4. /\ k \in Int /\ N \in Int /\ k + 1 \in Int
      /\ \A i \in k..N : l[i] \in S
  BY <1>2, <1>3
<1>5. /\ s \in Seq(S) /\ Len(s) = IF k <= N THEN N - k + 1 ELSE 0
      /\ \A i \in 1..(N - k + 1) : s[i] = l[k + i - 1]
  BY <1>4, SubSeqProperties
<1>6. k <= N
  BY <1>5, EmptySeq DEF k, N
<1>7. k + 1 \in Int /\ \A i \in (k + 1)..N : l[i] \in S
  BY <1>2, <1>4
<1> DEFINE j == k + 1
<1>8. j \in Int /\ \A i \in j..N : l[i] \in S
  BY <1>7
<1> HIDE DEF j
<1>9. /\ SubSeq(l, j, N) \in Seq(S) /\ Len(SubSeq(l, j, N)) = IF j <= N THEN N - j + 1 ELSE 0
      /\ \A i \in 1..(N - j + 1) : SubSeq(l, j, N)[i] = l[j + i - 1]
  BY <1>4, <1>8, SubSeqProperties
<1>10. /\ u \in Seq(S) /\ Len(u) = N - k /\ \A i \in 1..(N - k) : u[i] = l[k + i]
  <2>1. N - j + 1 = N - k /\ (j <= N \/ N - k = 0) /\ \A i \in 1..(N - k) : j + i - 1 = k + i
    BY <1>2, <1>4, <1>6 DEF j
  <2>2. u = SubSeq(l, j, N)
    BY DEF j
  <2> QED
    BY <1>9, <2>1, <2>2
<1> HIDE DEF s, u
<1>11. s # <<>> /\ Len(s) = N - k + 1
  BY <1>5, <1>6 DEF s, k, N
<1>12. /\ Head(s) = s[1] /\ Tail(s) \in Seq(S) /\ Len(Tail(s)) = Len(s) - 1
       /\ \A i \in 1..(Len(s) - 1) : Tail(s)[i] = s[i + 1]
  BY <1>5, <1>11, HeadAndTail
<1>13. s[1] = l[k]
  <2>1. 1 \in 1..(N - k + 1) /\ k + 1 - 1 = k
    BY <1>2, <1>6
  <2> QED
    BY <1>5, <2>1
<1>14. \A i \in 1..(N - k) : Tail(s)[i] = u[i]
  <2> SUFFICES ASSUME NEW i \in 1..(N - k) PROVE Tail(s)[i] = u[i]
    OBVIOUS
  <2> DEFINE g == i + 1
  <2>1. g \in 1..(N - k + 1) /\ k + g - 1 = k + i /\ i \in 1..(Len(s) - 1)
    BY <1>2, <1>11
  <2>2. Tail(s)[i] = s[g]
    BY <1>12, <2>1
  <2> HIDE DEF g
  <2>3. s[g] = l[k + g - 1]
    BY <1>5, <2>1
  <2> QED
    BY <1>10, <2>1, <2>2, <2>3
<1>15. Tail(s) = u
  BY <1>2, <1>10, <1>11, <1>12, <1>14, SeqEqual
<1>16. k \in 1..N
  BY <1>2, <1>6
<1> QED
  BY <1>12, <1>13, <1>15, <1>16 DEF s, u, k, N

\* The tree after an entry, whatever it leaves of its file.
LEMMA OutcomeIsTree ==
  ASSUME NEW t, IsTree(t, Data), NEW e \in EntryType
  PROVE  /\ \A u \in Outcomes(t, e) : IsTree(u, Data)
         /\ \A u \in Extract(t, [e EXCEPT !.data = Nothing]) : IsTree(u, Data)
<1>1. e \in AnyEntry(Data) /\ [e EXCEPT !.data = Nothing] \in AnyEntry(Data)
  BY DEF EntryType, AnyEntry, Data, Texts
<1>2. Nothing \in Data
  BY DEF Data
<1>3. \A f \in AnyEntry(Data) : \A u \in Extract(t, f) : IsTree(u, Data)
  BY <1>2, ExtractIs
<1>4. \A u \in Extract(t, e) : IsTree(u, Data)
  BY <1>1, <1>3
<1>5. \A u \in Extract(t, [e EXCEPT !.data = Nothing]) : IsTree(u, Data)
  BY <1>1, <1>3
<1> QED
  BY <1>4, <1>5 DEF Outcomes

\* What an entry takes from the byte budget is a number.
LEMMA CostIsNumber ==
  ASSUME NEW t, IsTree(t, Data), NEW e \in EntryType, NEW cost \in Costs(t, e)
  PROVE  cost \in Nat
<1>1. \A d \in Contents : SizeOf[d] \in Nat
  BY LayersAssumption
<1>2. ASSUME NEW p, IsKind(t, p, "file"), t[p].data # Nothing PROVE SizeOf[t[p].data] \in Nat
  <2>1. t[p] \in Nodes(Data) /\ t[p].kind = "file"
    BY <1>2 DEF IsTree, IsKind
  <2>2. t[p].data \in Data
    BY <2>1 DEF Nodes
  <2> QED
    BY <1>1, <1>2, <2>2 DEF Data
<1>3. e.data \in Contents
  BY EntryIs
<1>4. CASE Extract(t, e) = {}
  <2>1. Costs(t, e) = {0}
    BY <1>4 DEF Costs
  <2> QED
    BY <2>1
<1>5. CASE Extract(t, e) # {} /\ e.type = "file"
  <2>1. Costs(t, e) = {SizeOf[e.data]}
    BY <1>5 DEF Costs
  <2> QED
    BY <1>1, <1>3, <2>1
<1>6. CASE Extract(t, e) # {} /\ e.type = "hard"
  <2> DEFINE srcs == {p \in ResolveParent(t, Clean(TRUE, e.to)) : IsKind(t, p, "file") /\ t[p].data # Nothing}
  <2>1. cost \in {0} \cup {SizeOf[t[src].data] : src \in srcs}
    BY <1>6 DEF Costs
  <2>2. \A src \in srcs : SizeOf[t[src].data] \in Nat
    BY <1>2
  <2> HIDE DEF srcs
  <2> QED
    BY <2>1, <2>2
<1>7. CASE Extract(t, e) # {} /\ e.type \notin {"file", "hard"}
  <2>1. Costs(t, e) = {0}
    BY <1>7, Zenon DEF Costs
  <2> QED
    BY <2>1
<1> QED
  BY <1>4, <1>5, <1>6, <1>7

\* The entry at the head of the current layer, and where it stands in it.
LEMMA HeadOfLayer ==
  ASSUME IInv, status = "entries", layer # <<>>
  PROVE  /\ Head(layer) \in EntryType /\ Tail(layer) \in Seq(EntryType)
         /\ applied # <<>> /\ Last(applied) \in Seq(EntryType)
         /\ \E n \in Nat : /\ n + 1 \in 1..Len(Last(applied)) /\ Head(layer) = Last(applied)[n + 1]
                           /\ Tail(layer) = SubSeq(Last(applied), n + 1 + 1, Len(Last(applied)))
                           /\ ReadUpTo(Last(applied), n)
<1> DEFINE l == Last(applied)
<1>1. layer \in Seq(EntryType) /\ applied \in Seq(Seq(EntryType)) /\ applied # <<>>
  BY DEF IInv, TypeOK, LayersKept
<1>2. l \in Seq(EntryType)
  BY <1>1, FrontAndLast
<1>3. Head(layer) \in EntryType /\ Tail(layer) \in Seq(EntryType)
  BY <1>1, HeadAndTail
<1>4. PICK n \in 0..Len(l) : ReadUpTo(l, n)
  BY DEF IInv, LayersKept
<1> HIDE DEF l
<1>5. layer = SubSeq(l, n + 1, Len(l)) /\ n \in Nat
  BY <1>2, <1>4, LenProperties DEF ReadUpTo
<1>6. n + 1 \in 1..Len(l) /\ Head(layer) = l[n + 1] /\ Tail(layer) = SubSeq(l, n + 1 + 1, Len(l))
  <2>1. SubSeq(l, n + 1, Len(l)) # <<>>
    BY <1>5
  <2> QED
    BY <1>2, <1>5, <2>1, RestOf
<1> QED
  BY <1>1, <1>2, <1>3, <1>4, <1>5, <1>6 DEF l

\* An entry that is written leaves the union of one more entry.
LEMMA ReadEntryIInv == IInv /\ ReadEntry => IInv'
<1> SUFFICES ASSUME IInv, ReadEntry PROVE IInv'
  OBVIOUS
<1> DEFINE l == Last(applied)
           e == Head(layer)
           below == Union(Front(applied))
<1>0. status = "entries" /\ layer # <<>>
  BY DEF ReadEntry
<1>1. /\ e \in EntryType /\ Tail(layer) \in Seq(EntryType) /\ applied # <<>> /\ l \in Seq(EntryType)
      /\ IsTree(tree, Data)
  BY <1>0, HeadOfLayer DEF IInv, TypeOK, Data
<1>2. PICK n \in Nat : /\ n + 1 \in 1..Len(l) /\ e = l[n + 1]
                       /\ Tail(layer) = SubSeq(l, n + 1 + 1, Len(l)) /\ ReadUpTo(l, n)
  BY <1>0, HeadOfLayer
<1> HIDE DEF l, e, below
<1>3. tree' \in Outcomes(tree, e) /\ layer' = Tail(layer)
  BY DEF ReadEntry, e
<1>4. IsTree(tree', Data)
  BY <1>1, <1>3, OutcomeIsTree
<1>5. budget' \in 0..MaxImageBytes
  <2>1. PICK cost \in Costs(tree, e) : cost <= budget /\ budget' = budget - cost
    BY DEF ReadEntry, e
  <2>2. cost \in Nat
    BY <1>1, <2>1, CostIsNumber
  <2> QED
    BY <2>1, <2>2, LayersAssumption DEF IInv, TypeOK
<1>6. TypeOK'
  BY <1>1, <1>3, <1>4, <1>5 DEF IInv, TypeOK, ReadEntry, Data
<1>7. Fair => tree' = Over(below, FirstEntries(l, n + 1))
  <2> SUFFICES ASSUME Fair PROVE tree' = Over(below, FirstEntries(l, n + 1))
    OBVIOUS
  <2> DEFINE k == n + 1
             E == FirstEntries(l, n)
  <2>0. k \in 1..Len(l) /\ k - 1 = n /\ 1..k = 1..n \cup {k} /\ Len(l) \in Nat /\ DOMAIN l = 1..Len(l) /\ n <= Len(l)
    BY <1>1, <1>2, LenProperties
  <2>1. WellFormed(l)
    <3>1. applied \in Seq(Seq(EntryType))
      BY DEF IInv, LayersKept
    <3>2. Len(applied) \in DOMAIN applied
      BY <1>1, <3>1, FrontAndLast, LenProperties
    <3> QED
      BY <3>2 DEF Fair, l, Last
  <2>2. tree = Over(below, E)
    BY <1>2 DEF ReadUpTo, below
  <2>3. e = l[k]
    BY <1>2
  <2> HIDE DEF k
  <2>4. Fits(E, e) /\ FirstEntries(l, k) = E \cup {e}
    BY <2>0, <2>1, <2>3 DEF WellFormed, FirstEntries
  <2>5. Solid(E)
    BY <1>1, <2>0, <2>1, ReadIsSolid
  <2>6. Contents \subseteq Data
    BY DEF Data
  <2> HIDE DEF E
  <2>7. Outcomes(tree, e) = {Over(below, E \cup {e})}
    BY <1>1, <2>2, <2>4, <2>5, <2>6, EntryMade
  <2>8. tree' = Over(below, FirstEntries(l, k))
    BY <1>3, <2>4, <2>7
  <2> QED
    BY <2>8 DEF k
<1>8. applied' = applied /\ status' = "entries" /\ (Fair' => Fair)
  BY <1>0 DEF ReadEntry, Fair
<1>9. ReadUpTo(l, n + 1)'
  <2>1. l' = l /\ Front(applied)' = Front(applied) /\ layer' = SubSeq(l, n + 1 + 1, Len(l))
    BY <1>2, <1>3, <1>8 DEF l
  <2> QED
    BY <1>7, <1>8, <2>1 DEF ReadUpTo, below
<1>10. LayersKept'
  <2>1. n + 1 \in 0..Len(l)
    BY <1>2
  <2>2. \E j \in 0..Len(l) : ReadUpTo(l, j)'
    BY <1>9, <2>1
  <2>3. applied \in Seq(Seq(EntryType))
    BY DEF IInv, LayersKept
  <2> QED
    BY <1>1, <1>8, <2>2, <2>3 DEF LayersKept, l
<1>11. WalksKept'
  BY <1>0, WalksStay DEF IInv, ReadEntry
<1> QED
  BY <1>6, <1>10, <1>11 DEF IInv

\* An extraction that is given up ends with the tree it had.
LEMMA TooLargeIInv == IInv /\ (TooLarge \/ StreamBreaks) => IInv'
<1> SUFFICES ASSUME IInv, TooLarge \/ StreamBreaks PROVE IInv'
  OBVIOUS
<1>1. status = "entries" /\ status' = "failed" /\ UNCHANGED <<tree, image, account>>
  BY DEF TooLarge, StreamBreaks
<1>2. tree' = tree /\ left' = left /\ layer' = layer /\ budget' = budget /\ applied' = applied /\ spoiled' = spoiled
  BY <1>1 DEF image
<1>3. TypeOK'
  BY <1>1, <1>2 DEF IInv, TypeOK
<1>4. LayersKept'
  BY <1>1, <1>2 DEF IInv, LayersKept
<1>5. WalksKept'
  BY <1>1, WalksStay DEF IInv
<1> QED
  BY <1>3, <1>4, <1>5 DEF IInv

\* An entry that is written in part spoils the image, and leaves a tree.
LEMMA WriteFailsIInv == IInv /\ WriteFails => IInv'
<1> SUFFICES ASSUME IInv, WriteFails PROVE IInv'
  OBVIOUS
<1> DEFINE l == Last(applied)
           e == Head(layer)
<1>0. status = "entries" /\ layer # <<>>
  BY DEF WriteFails
<1>1. /\ e \in EntryType /\ Tail(layer) \in Seq(EntryType) /\ applied # <<>> /\ l \in Seq(EntryType)
      /\ IsTree(tree, Data)
  BY <1>0, HeadOfLayer DEF IInv, TypeOK, Data
<1>2. PICK n \in Nat : n + 1 \in 1..Len(l) /\ Tail(layer) = SubSeq(l, n + 1 + 1, Len(l))
  BY <1>0, HeadOfLayer
<1> HIDE DEF l, e
<1>3. tree' \in Extract(tree, [e EXCEPT !.data = Nothing]) /\ layer' = Tail(layer) /\ spoiled' = TRUE
  BY DEF WriteFails, e
<1>4. IsTree(tree', Data)
  BY <1>1, <1>3, OutcomeIsTree
<1>5. TypeOK'
  BY <1>1, <1>3, <1>4 DEF IInv, TypeOK, WriteFails, Data
<1>6. ~Fair' /\ applied' = applied /\ status' = "entries"
  BY <1>0, <1>3 DEF Fair, WriteFails
<1>7. ReadUpTo(l, n + 1)'
  <2>1. l' = l /\ layer' = SubSeq(l, n + 1 + 1, Len(l))
    BY <1>2, <1>3, <1>6 DEF l
  <2> QED
    BY <1>6, <2>1 DEF ReadUpTo
<1>8. LayersKept'
  <2>1. n + 1 \in 0..Len(l)
    BY <1>2
  <2>2. \E j \in 0..Len(l) : ReadUpTo(l, j)'
    BY <1>7, <2>1
  <2>3. applied \in Seq(Seq(EntryType))
    BY DEF IInv, LayersKept
  <2> QED
    BY <1>1, <1>6, <2>2, <2>3 DEF LayersKept, l
<1>9. WalksKept'
  BY <1>0, WalksStay DEF IInv, WriteFails
<1> QED
  BY <1>5, <1>8, <1>9 DEF IInv

\* A layer that was read to its end is over those below it.
LEMMA EndLayerIInv == IInv /\ EndLayer => IInv'
<1> SUFFICES ASSUME IInv, EndLayer PROVE IInv'
  OBVIOUS
<1> DEFINE l == Last(applied)
           rest == Front(applied)
<1>1. status = "entries" /\ layer = <<>> /\ status' = "layers" /\ UNCHANGED <<tree, image, account>>
  BY DEF EndLayer
<1>2. tree' = tree /\ left' = left /\ layer' = layer /\ budget' = budget /\ applied' = applied /\ spoiled' = spoiled
  BY <1>1 DEF image
<1>3. applied \in Seq(Seq(EntryType)) /\ applied # <<>>
  BY <1>1 DEF IInv, LayersKept
<1>4. l \in Seq(EntryType) /\ rest \in Seq(Seq(EntryType)) /\ applied = Append(rest, l)
  BY <1>3, FrontAndLast
<1>5. PICK n \in 0..Len(l) : ReadUpTo(l, n)
  BY <1>1 DEF IInv, LayersKept
<1> HIDE DEF l, rest
<1>6. Len(l) \in Nat /\ DOMAIN l = 1..Len(l)
  BY <1>4, LenProperties
<1>7. n = Len(l)
  <2>0. n \in Nat /\ n <= Len(l)
    BY <1>6
  <2> DEFINE k == n + 1
             N == Len(l)
  <2>1. SubSeq(l, k, N) = <<>>
    BY <1>1, <1>5 DEF ReadUpTo
  <2>2. k = n + 1 /\ N = Len(l) /\ k \in Int /\ N \in Int /\ \A i \in k..N : l[i] \in EntryType
    BY <1>4, <1>6, <2>0, ElementOfSeq
  <2> HIDE DEF k, N
  <2>3. Len(SubSeq(l, k, N)) = IF k <= N THEN N - k + 1 ELSE 0
    BY <2>2, SubSeqProperties
  <2>4. ~(k <= N)
    BY <2>1, <2>2, <2>3, EmptySeq
  <2>5. n \in Nat /\ N \in Nat /\ n <= N
    BY <1>6, <2>0, <2>2
  <2>6. n + 1 > N
    BY <2>2, <2>4, <2>5
  <2>7. n = N
    BY <2>5, <2>6
  <2> QED
    BY <2>2, <2>7
<1>8. FirstEntries(l, n) = ToSet(l)
  BY <1>6, <1>7 DEF FirstEntries, ToSet
<1>9. Fair => tree = Union(applied)
  <2>1. Fair => tree = Over(Union(rest), ToSet(l))
    BY <1>5, <1>8 DEF ReadUpTo, rest
  <2>2. Union(applied) = Over(Union(rest), ToSet(l))
    BY <1>4, UnionOver
  <2> QED
    BY <2>1, <2>2
<1>10. LayersKept'
  BY <1>1, <1>2, <1>3, <1>9 DEF LayersKept, Fair
<1>11. TypeOK'
  BY <1>1, <1>2 DEF IInv, TypeOK
<1>12. WalksKept'
  BY <1>1, WalksStay DEF IInv
<1> QED
  BY <1>10, <1>11, <1>12 DEF IInv

\* Once every layer was applied, the tree is walked and no longer written.
LEMMA ReadyIInv == IInv /\ Ready => IInv'
<1> SUFFICES ASSUME IInv, Ready PROVE IInv'
  OBVIOUS
<1>1. status = "layers" /\ status' = "ready" /\ UNCHANGED <<tree, image, account>>
  BY DEF Ready
<1>2. tree' = tree /\ left' = left /\ layer' = layer /\ budget' = budget /\ applied' = applied /\ spoiled' = spoiled
  BY <1>1 DEF image
<1>3. TypeOK'
  BY <1>1, <1>2 DEF IInv, TypeOK
<1>4. LayersKept'
  BY <1>1, <1>2 DEF IInv, LayersKept, Fair
<1>5. WalksKept'
  BY <1>1, WalksStay DEF IInv
<1> QED
  BY <1>3, <1>4, <1>5 DEF IInv

\* A walk leaves what it visited and what it could not, and the tree as it was.
LEMMA WalkIInv == ASSUME NEW base \in Bases PROVE IInv /\ Walk(base) => IInv'
<1> SUFFICES ASSUME IInv, Walk(base) PROVE IInv'
  OBVIOUS
<1>1. status = "ready" /\ base \notin DOMAIN walked /\ UNCHANGED <<tree, status, image, denied>>
  BY DEF Walk
<1>2. /\ tree' = tree /\ status' = status /\ left' = left /\ layer' = layer /\ budget' = budget
      /\ applied' = applied /\ spoiled' = spoiled /\ denied' = denied
  BY <1>1 DEF image
<1>3. TypeOK'
  BY <1>2 DEF IInv, TypeOK
<1>4. LayersKept'
  BY <1>1, <1>2 DEF IInv, LayersKept, Fair
<1>5. WalksKept'
  <2>1. PICK host \in Resolve(Found(tree, denied), base) :
          /\ seen' = seen \cup Gaps(tree, denied, base, host)
          /\ walked' = With(walked, {base}, {TreeName(base, host, q) : q \in Visited(tree, denied, host)})
    BY DEF Walk
  <2>2. /\ DOMAIN walked' = DOMAIN walked \cup {base} /\ (\A b \in DOMAIN walked : walked'[b] = walked[b])
        /\ walked'[base] = {TreeName(base, host, q) : q \in Visited(tree, denied, host)}
    BY <1>1, <2>1 DEF With
  <2>3. WalkMade(base)'
    BY <1>2, <2>1, <2>2 DEF WalkMade
  <2>4. ASSUME NEW b \in DOMAIN walked PROVE WalkMade(b)'
    <3>1. WalkMade(b)
      BY DEF IInv, WalksKept
    <3> QED
      BY <1>2, <2>1, <2>2, <3>1 DEF WalkMade
  <2> QED
    BY <1>1, <1>2, <2>2, <2>3, <2>4 DEF WalksKept
<1> QED
  BY <1>3, <1>4, <1>5 DEF IInv

\* Every step keeps the invariant.
LEMMA NextIInv == IInv /\ [Next]_vars => IInv'
<1> SUFFICES ASSUME IInv, [Next]_vars PROVE IInv'
  OBVIOUS
<1>1. CASE UNCHANGED vars
  <2>1. /\ tree' = tree /\ status' = status /\ left' = left /\ layer' = layer /\ budget' = budget
        /\ applied' = applied /\ spoiled' = spoiled /\ UNCHANGED account
    BY <1>1 DEF vars, account
  <2>2. TypeOK'
    BY <2>1 DEF IInv, TypeOK
  <2>3. LayersKept'
    <3>1. \A n : ReadUpTo(Last(applied), n) <=> ReadUpTo(Last(applied), n)'
      BY <2>1 DEF ReadUpTo, Fair
    <3> QED
      BY <2>1, <3>1 DEF IInv, LayersKept, Fair
  <2>4. WalksKept'
    BY <2>1, WalksStay DEF IInv
  <2> QED
    BY <2>2, <2>3, <2>4 DEF IInv
<1>2. CASE MissingLayer
  BY <1>2, MissingLayerIInv
<1>3. CASE BeginLayer
  BY <1>3, BeginLayerIInv
<1>4. CASE ReadEntry
  BY <1>4, ReadEntryIInv
<1>5. CASE TooLarge \/ StreamBreaks
  BY <1>5, TooLargeIInv
<1>6. CASE WriteFails
  BY <1>6, WriteFailsIInv
<1>7. CASE EndLayer
  BY <1>7, EndLayerIInv
<1>8. CASE Ready
  BY <1>8, ReadyIInv
<1>9. CASE \E base \in Bases : Walk(base)
  BY <1>9, WalkIInv
<1> QED
  BY <1>1, <1>2, <1>3, <1>4, <1>5, <1>6, <1>7, <1>8, <1>9 DEF Next

\* The inductive invariant holds of every extraction and every walk after it.
THEOREM TreeInvariant == Spec => []IInv
<1>1. Init => IInv
  BY InitIInv
<1>2. IInv /\ [Next]_vars => IInv'
  BY NextIInv
<1> QED
  BY <1>1, <1>2, PTL DEF Spec

\* Whatever the layers hold, the extracted image is a tree: every node's parent is a
\* directory of it (untar and the helpers it makes and removes with).
THEOREM TreeTypes == Spec => []TypeOK
<1>1. IInv => TypeOK
  BY DEF IInv
<1> QED
  BY <1>1, TreeInvariant, PTL

\* A path of the scanned tree resolves to a place with no link on the way, the place
\* its parent and its last name lead to, and a link to that of its target
\* (RootFS.Resolve and its use by readers, for every tree and every name).
THEOREM PathsResolvePlainly == Spec => []ResolvesPlainly
<1>1. IInv => ResolvesPlainly
  <2> SUFFICES ASSUME IInv, NEW name \in BoundedSeq(Names, 3), NEW p \in Resolve(tree, name)
               PROVE  /\ \A q \in Above(p) \cup {p} : ~IsKind(tree, q, "link")
                      /\ name # <<>> => \A parent \in Resolve(tree, Front(name)) :
                                          Resolve(tree, Append(parent, Last(name))) = {p}
                      /\ IsKind(tree, name, "link") =>
                           LET link == tree[name]
                               start == IF link.abs THEN <<>> ELSE Front(name)
                           IN Resolve(tree, Clean(TRUE, start \o Clean(link.abs, link.to))) = {p}
    BY DEF ResolvesPlainly
  <2>1. name \in Seq(Names)
    <3>1. PICK m \in 0..3 : name \in [1..m -> Names]
      BY DEF BoundedSeq, SeqOf
    <3>2. m \in Nat
      OBVIOUS
    <3> QED
      BY <3>1, <3>2, SeqDef
  <2>2. IsTree(tree, Data)
    BY DEF IInv, TypeOK, Data
  <2> QED
    BY <2>1, <2>2, PlainlyResolved
<1> QED
  BY <1>1, TreeInvariant, PTL

\* An image whose layers are as image builders write them, written in full, is the
\* union of its layers: the last layer that says anything of a place decides it,
\* whiteouts and opaque directories included (ExtractSource, untar).
THEOREM LayersMakeTheUnion == Spec => []ImageIsUnion
<1>1. IInv => ImageIsUnion
  BY DEF IInv, LayersKept, Fair, ImageIsUnion
<1> QED
  BY <1>1, TreeInvariant, PTL

\* Whatever lies below a walked directory was visited under its own name, or is below
\* a name the walk has put on record as unreadable (DirFS.Walk, note).
THEOREM WalksAreAccountedFor == Spec => []SkippedIsNoted
<1>1. IInv => SkippedIsNoted
  <2> SUFFICES ASSUME IInv, NEW base \in DOMAIN walked, NEW truth \in Resolve(tree, base),
                      NEW q \in Subtree(tree, truth)
               PROVE  \/ TreeName(base, truth, q) \in walked[base]
                      \/ \E name \in seen : IsPrefix(name, TreeName(base, truth, q))
    BY DEF SkippedIsNoted
  <2>1. base \in Seq(Names) /\ IsTree(tree, Data)
    BY LayersAssumption DEF IInv, TypeOK, Data, WalksKept, WalkMade
  <2>2. PICK host \in Resolve(Found(tree, denied), base) :
          /\ walked[base] = {TreeName(base, host, v) : v \in Visited(tree, denied, host)}
          /\ Gaps(tree, denied, base, host) \subseteq seen
    BY DEF IInv, WalksKept, WalkMade
  <2>3. \/ TreeName(base, truth, q) \in {TreeName(base, host, v) : v \in Visited(tree, denied, host)}
        \/ \E name \in Gaps(tree, denied, base, host) : IsPrefix(name, TreeName(base, truth, q))
    BY <2>1, SkippedLemma
  <2> QED
    BY <2>2, <2>3
<1> QED
  BY <1>1, TreeInvariant, PTL

-----------------------------------------------------------------------------
(* The closure of what modules import                                      *)

\* The closure is closed up to the queue.
Queued ==
  /\ phase = "walk" => RootPaths(scan) \subseteq reached \cup queue
  /\ \A f \in reached : ~LangImports(scan, f).failed => ImportsOf(scan, f) \subseteq reached \cup queue

\* Nothing is reached before the walk, and nothing is queued after it.
Staged ==
  /\ phase \in {"roots", "skipped"} => reached = {} /\ edges = {} /\ queue = {} /\ rootKind = << >>
  /\ phase = "done" => queue = {} /\ RootPaths(scan) \subseteq reached

BuildIInv == BuildTypeOK /\ Queued /\ Staged /\ HolesRecorded

\* The invariant holds of an empty closure.
LEMMA BuildInitIInv == BuildInit => BuildIInv
BY DEF BuildInit, BuildIInv, BuildTypeOK, Queued, Staged, HolesRecorded

\* What a step adds to the taints leaves the recorded ones in place.
LEMMA TaintsKept ==
  ASSUME NEW ts, AddTaints(ts)
  PROVE  taints \subseteq taints' /\ \A t \in ts : Assumed(t) \in taints'
BY DEF AddTaints

\* Rooting: the queue is the roots.
LEMMA TakeRootsIInv == BuildIInv /\ TakeRoots => BuildIInv'
<1> SUFFICES ASSUME BuildIInv, TakeRoots PROVE BuildIInv'
  OBVIOUS
<1> USE DEF BuildIInv, TakeRoots
<1>1. reached = {} /\ edges = {}
  BY DEF Staged
<1>2. BuildTypeOK'
  BY <1>1 DEF BuildTypeOK
<1>3. Queued'
  BY <1>1 DEF Queued
<1>4. Staged'
  BY <1>1 DEF Staged
<1>5. HolesRecorded'
  BY <1>1 DEF HolesRecorded
<1> QED
  BY <1>2, <1>3, <1>4, <1>5

\* A file that cannot be read is reached, imports nothing and is on record.
LEMMA VisitUnreadableIInv ==
  ASSUME NEW f, BuildIInv, VisitUnreadable(f)
  PROVE  BuildIInv'
<1> USE DEF BuildIInv, VisitUnreadable
<1>1. scan' = scan /\ reached' = reached \cup {f} /\ queue' = queue \ {f} /\ f \in queue
  OBVIOUS
<1>2. taints \subseteq taints' /\ Assumed(UnreadableTaint(f)) \in taints'
  BY TaintsKept
<1>3. Assumed(UnreadableTaint(f)) = UnreadableTaint(f)
  BY DEF Assumed, UnreadableTaint
<1>4. BuildTypeOK'
  BY <1>1 DEF BuildTypeOK
<1>5. Queued'
  BY <1>1 DEF Queued
<1>6. Staged'
  BY DEF Staged
<1>7. HolesRecorded'
  <2> SUFFICES ASSUME NEW g \in reached'
               PROVE  IF LangImports(scan, g).failed THEN UnreadableTaint(g) \in taints'
                      ELSE /\ \A t \in LangImports(scan, g).taints : Assumed(t) \in taints'
                           /\ \A s \in Unresolved(scan, g) : UnresolvedTaint(g, s) \in taints'
    BY <1>1 DEF HolesRecorded, Assumed
  <2>1. CASE g = f
    BY <2>1, <1>2, <1>3
  <2>2. CASE g # f
    BY <2>2, <1>1, <1>2 DEF HolesRecorded
  <2> QED
    BY <2>1, <2>2
<1> QED
  BY <1>4, <1>5, <1>6, <1>7

\* A file that is scanned has its imports queued and its holes put on record.
LEMMA VisitIInv ==
  ASSUME NEW f, BuildIInv, Visit(f)
  PROVE  BuildIInv'
<1> USE DEF BuildIInv, Visit
<1>1. /\ scan' = scan /\ phase' = phase /\ reached' = reached \cup {f} /\ f \in queue
      /\ queue' = (queue \cup ImportsOf(scan, f)) \ reached'
      /\ ~LangImports(scan, f).failed
  OBVIOUS
<1>2. /\ taints \subseteq taints'
      /\ \A t \in LangImports(scan, f).taints : Assumed(t) \in taints'
      /\ \A s \in Unresolved(scan, f) : Assumed(UnresolvedTaint(f, s)) \in taints'
  BY TaintsKept
<1>3. \A s : Assumed(UnresolvedTaint(f, s)) = UnresolvedTaint(f, s)
  BY DEF Assumed, UnresolvedTaint
<1>4. BuildTypeOK'
  BY <1>1 DEF BuildTypeOK
<1>5. Queued'
  BY <1>1 DEF Queued
<1>6. Staged'
  BY DEF Staged
<1>7. HolesRecorded'
  <2> SUFFICES ASSUME NEW g \in reached'
               PROVE  IF LangImports(scan, g).failed THEN UnreadableTaint(g) \in taints'
                      ELSE /\ \A t \in LangImports(scan, g).taints : Assumed(t) \in taints'
                           /\ \A s \in Unresolved(scan, g) : UnresolvedTaint(g, s) \in taints'
    BY <1>1 DEF HolesRecorded, Assumed
  <2>1. CASE g = f
    BY <2>1, <1>1, <1>2, <1>3
  <2>2. CASE g # f
    BY <2>2, <1>1, <1>2 DEF HolesRecorded
  <2> QED
    BY <2>1, <2>2
<1> QED
  BY <1>4, <1>5, <1>6, <1>7

\* Every step keeps the invariant.
LEMMA BuildNextIInv == BuildIInv /\ [BuildNext]_buildVars => BuildIInv'
<1> SUFFICES ASSUME BuildIInv, [BuildNext]_buildVars PROVE BuildIInv'
  OBVIOUS
<1>1. CASE TakeRoots
  BY <1>1, TakeRootsIInv
<1>2. CASE Skip
  BY <1>2 DEF Skip, BuildIInv, BuildTypeOK, Queued, Staged, HolesRecorded, Assumed
<1>3. CASE Finish
  BY <1>3 DEF Finish, BuildIInv, BuildTypeOK, Queued, Staged, HolesRecorded, Assumed
<1>4. ASSUME NEW f \in queue, Visit(f) PROVE BuildIInv'
  BY <1>4, VisitIInv
<1>5. ASSUME NEW f \in queue, VisitUnreadable(f) PROVE BuildIInv'
  BY <1>5, VisitUnreadableIInv
<1>6. CASE UNCHANGED buildVars
  BY <1>6 DEF buildVars, BuildIInv, BuildTypeOK, Queued, Staged, HolesRecorded, Assumed
<1> QED
  BY <1>1, <1>2, <1>3, <1>4, <1>5, <1>6 DEF BuildNext

\* The inductive invariant holds of every closure, whatever the language.
THEOREM BuildInvariant == BuildSpec => []BuildIInv
BY BuildInitIInv, BuildNextIInv, PTL DEF BuildSpec

\* What has been reached, rooted and followed is as the graph's readers expect:
\* an edge leaves a visited file and ends in one that is visited or will be.
THEOREM ClosureTypes == BuildSpec => []BuildTypeOK
<1>1. BuildIInv => BuildTypeOK
  BY DEF BuildIInv
<1> QED
  BY <1>1, BuildInvariant, PTL

\* Once the walk has ended, no root and no import of a visited file is left out
\* (Build and its queue), for every language, image and command line.
THEOREM ClosureIsClosed == BuildSpec => []ClosureClosed
<1>1. BuildIInv => ClosureClosed
  BY DEF BuildIInv, Queued, Staged, ClosureClosed
<1> QED
  BY <1>1, BuildInvariant, PTL

\* Every hole in the closure is on record: a file that cannot be read, what the
\* language says of a file, an import that leads nowhere (walk, addTaints).
THEOREM HolesAreRecorded == BuildSpec => []HolesRecorded
<1>1. BuildIInv => HolesRecorded
  BY DEF BuildIInv
<1> QED
  BY <1>1, BuildInvariant, PTL

\* Nothing a package could be reached through is passed over unsaid.
THEOREM NothingIsPassedOver == BuildSpec => []NothingPassedOver
<1>1. ClosureClosed /\ HolesRecorded <=> NothingPassedOver
  BY DEF NothingPassedOver
<1> QED
  BY <1>1, ClosureIsClosed, HolesAreRecorded, PTL

\* When nothing blocks a package of these names, every reached file was read, and
\* nothing that could not be resolved goes by one of them: what not_in_path rests on
\* (TaintsFor, BlockingTaints).
Unblocked(names) ==
  Blockers(names) = {} =>
    \A f \in reached : /\ ~LangImports(scan, f).failed
                       /\ \A s \in Unresolved(scan, f) : SpecTopLevel(s) \notin names

\* Where nothing blocks, all that was reached is known, whatever the names are
\* (BlockingTaints).
THEOREM UnblockedIsKnown == ASSUME NEW names PROVE BuildSpec => []Unblocked(names)
<1>1. HolesRecorded => Unblocked(names)
  <2> SUFFICES ASSUME HolesRecorded, Blockers(names) = {}, NEW f \in reached
               PROVE  /\ ~LangImports(scan, f).failed
                      /\ \A s \in Unresolved(scan, f) : SpecTopLevel(s) \notin names
    BY DEF Unblocked
  <2>1. \A t \in taints : ~(t.blocking /\ (t.global \/ t.spec \in names))
    BY DEF Blockers, TaintsFor
  <2>2. ~LangImports(scan, f).failed
    <3> SUFFICES ASSUME LangImports(scan, f).failed PROVE FALSE
      OBVIOUS
    <3>1. UnreadableTaint(f) \in taints
      BY DEF HolesRecorded
    <3> QED
      BY <3>1, <2>1 DEF UnreadableTaint
  <2>3. ASSUME NEW s \in Unresolved(scan, f) PROVE SpecTopLevel(s) \notin names
    <3>1. UnresolvedTaint(f, s) \in taints
      BY <2>2 DEF HolesRecorded
    <3> QED
      BY <3>1, <2>1 DEF UnresolvedTaint
  <2> QED
    BY <2>2, <2>3
<1> QED
  BY <1>1, HolesAreRecorded, PTL

\* A taint is never taken back, and never loses its bite once it is on record
\* (addTaints only appends).
THEOREM TaintsOnlyGrow == BuildSpec => [][taints \subseteq taints']_buildVars
<1>1. [BuildNext]_buildVars => [taints \subseteq taints']_buildVars
  <2> SUFFICES ASSUME BuildNext PROVE taints \subseteq taints'
    OBVIOUS
  <2> QED
    BY DEF BuildNext, TakeRoots, Skip, Finish, Visit, VisitUnreadable, AddTaints
<1> QED
  BY <1>1, PTL DEF BuildSpec
=============================================================================
