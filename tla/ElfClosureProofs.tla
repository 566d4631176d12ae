-------------------------- MODULE ElfClosureProofs ----------------------------
(***************************************************************************)
(* Proofs about ElfClosure: the closure Build ends with holds all that any *)
(* process of the image could load, or a taint says what it may lack; the  *)
(* verdicts that call a package unreachable, and its code absent, are as   *)
(* good as that.                                                           *)
(***************************************************************************)
EXTENDS ElfClosure, SequenceTheorems, NaturalsInduction, WellFoundedInduction,
        FiniteSetTheorems, TLAPS

\* Build is past the roots, and so past the places that mark them.
Walking == {"visit", "taints", "done"}

\* What is in the closure or will be before the queue drains.
Reach == seen \cup {f.object : f \in ToSet(queue)}

\* What o is given for a name it needs, loaded along a chain that hands down r.
Leads(o, r, s) == Resolve(o, s, Search(o, r))

\* Directories some chain may hand down.
RPathDirs == UNION {ToSet(Elf[p].rpath) : p \in Objects}

\* Before the walk there is no closure.
Fresh ==
  /\ phase \notin Walking => seen = {} /\ missing = {} /\ queue = <<>>
  /\ phase = "plugins" => taints = {}

\* A plugin of any program is a root; one that waits for a library is waiting,
\* a root or loaded; and none is rooted as a plugin without a loader.
PluginsKept ==
  /\ \A o \in pending : WaitsFor[o] \notin {"", "any"}
  /\ \A o \in Objects : root[o] = "plugin" =>
       WaitsFor[o] = "any" \/ (WaitsFor[o] # "" /\ Openable(o))
  /\ phase # "plugins" =>
       \A o \in Objects :
         /\ WaitsFor[o] = "any" => root[o] # "none"
         /\ WaitsFor[o] \notin {"", "any"} => o \in pending \/ root[o] # "none" \/ o \in seen

\* The user's roots are roots, and one that is no object blocks everything.
UserRooted ==
  phase \notin {"plugins", "roots"} =>
    /\ \A o \in UserRoots : root[o] = "explicit"
    /\ None \in ToSet(scan.roots) =>
         \E t \in taints : t.kind = "missing-root" /\ t.blocking /\ t.global

\* So is what the command line names, and every program when it names none.
EntryRooted ==
  /\ phase \in {"probe", "walk"} \cup Walking =>
       /\ \A o \in Named : root[o] = "explicit"
       /\ CommandKnown \/ Asserted \/ \A o \in Programs : root[o] # "none"
  /\ phase = "probe" => CommandKnown \/ Asserted

\* A named program that starts others has its taint, unless all are roots.
Probed ==
  phase \in {"walk"} \cup Walking /\ (CommandKnown \/ Asserted) =>
    \A o \in Named : scan.spawns[o] = "yes" =>
      \E t \in taints : /\ t.kind = "exec" /\ t.path = o
                        /\ scan.execAssumed \/ (t.blocking /\ t.global)

\* The walk: a root is visited or queued, and so is what a visited object makes
\* the linker load, along the first chain that led to it.
Walked ==
  /\ \A f \in ToSet(queue) : f.rpath \in Seq(RPathDirs)
  /\ phase \in Walking => \A o \in Objects : root[o] # "none" => o \in Reach
  /\ \A o \in seen : Elf[o].interp # None => Elf[o].interp \in Reach
  /\ \A o \in seen : \E r \in Seq(RPathDirs) : \A s \in ToSet(Elf[o].needed) :
       IF Leads(o, r, s) = None THEN <<o, s>> \in missing ELSE Leads(o, r, s) \in Reach

\* Once the walk is over no plugin is left whose loader is loaded.
Settled ==
  phase \in {"taints", "done"} =>
    /\ queue = <<>>
    /\ \A o \in Objects : WaitsFor[o] \notin {"", "any"} /\ Openable(o) => o \in seen

\* Marking the roots leaves no taint of the kinds that are collected at the
\* end, and the end leaves all of those that the closure calls for.
Collected ==
  /\ phase # "done" =>
       \A t \in taints : t.kind \notin {"unresolved-needed", "dlopen", "static-elf", "inert-assertion"}
  /\ phase = "done" =>
       /\ Unresolved \cup Dlopens \cup Statics \subseteq taints
       /\ \A a \in Inert : \E t \in taints : t.kind = "inert-assertion" /\ t.path = a
       /\ \A t \in taints : /\ t.kind = "dlopen" => t \in Dlopens
                            /\ t.kind = "inert-assertion" => t.path \in Inert

IInv ==
  /\ TypeOK /\ Fresh /\ PluginsKept /\ UserRooted /\ EntryRooted /\ Probed
  /\ Walked /\ Settled /\ Collected

-----------------------------------------------------------------------------
(* Lists and numbers                                                       *)

\* A set of numbers that holds 0 and the successor of each of its members holds
\* every number.
LEMMA NumberInduction ==
  ASSUME NEW G, 0 \in G, \A n \in Nat : n \in G => n + 1 \in G
  PROVE  \A n \in Nat : n \in G
<1> DEFINE R == {ss \in Nat \X Nat : ss[1] < ss[2]}
           T == {n \in Nat : n \notin G}
<1>1. SUFFICES ASSUME T # {} PROVE FALSE
  OBVIOUS
<1>2. IsWellFoundedOn(R, Nat)
  BY NatLessThanWellFounded DEF OpToRel
<1> HIDE DEF R
<1>3. PICK x \in T : \A y \in T : <<y, x>> \notin R
  BY <1>1, <1>2, WFMin
<1> USE DEF R
<1>4. x \in Nat /\ x # 0
  OBVIOUS
<1>5. x - 1 \in Nat /\ x - 1 < x /\ (x - 1) + 1 = x
  BY <1>4
<1>6. x - 1 \notin T
  BY <1>3, <1>4, <1>5
<1> QED
  BY <1>4, <1>5, <1>6

\* Any set of numbers has a least one, and a finite one a greatest.
LEMMA LeastNumber ==
  ASSUME NEW P, P \subseteq Nat, P # {}
  PROVE  Min(P) \in P /\ \A y \in P : Min(P) <= y
<1> DEFINE R == {ss \in Nat \X Nat : ss[1] < ss[2]}
<1>1. IsWellFoundedOn(R, Nat)
  BY NatLessThanWellFounded DEF OpToRel
<1> HIDE DEF R
<1>2. PICK x \in P : \A y \in P : <<y, x>> \notin R
  BY <1>1, WFMin
<1> USE DEF R
<1>3. ASSUME NEW y \in P PROVE x <= y
  <2>1. x \in Nat /\ y \in Nat
    OBVIOUS
  <2>2. <<y, x>> \in R <=> y < x
    BY <2>1
  <2> HIDE DEF R
  <2> QED
    BY <1>2, <2>1, <2>2
<1> QED
  BY <1>3 DEF Min

\* What a filtering loop has kept of the first m numbers.
Collects(r, m, places) ==
  /\ r \in Seq(1..m)
  /\ ToSet(r) = places \cap 1..m

LEMMA OneMore ==
  ASSUME NEW m \in Nat, NEW places, NEW r, Collects(r, m, places)
  PROVE  Collects(IF m + 1 \in places THEN Append(r, m + 1) ELSE r, m + 1, places)
<1>1. 1..(m + 1) = 1..m \cup {m + 1} /\ r \in Seq(1..(m + 1))
  <2>1. 1..(m + 1) = 1..m \cup {m + 1}
    OBVIOUS
  <2> QED
    BY <2>1, SeqMonotonic DEF Collects
<1>2. CASE m + 1 \in places
  <2> DEFINE q == Append(r, m + 1)
  <2>1. q \in Seq(1..(m + 1))
    BY <1>1, AppendProperties
  <2>2. /\ Len(q) = Len(r) + 1 /\ Len(r) \in Nat /\ q[Len(r) + 1] = m + 1
        /\ \A k \in 1..Len(r) : q[k] = r[k]
        /\ DOMAIN q = 1..Len(q) /\ DOMAIN r = 1..Len(r)
    BY <1>1, AppendProperties
  <2> HIDE DEF q
  <2>3. ToSet(q) = ToSet(r) \cup {m + 1}
    <3>1. DOMAIN q = DOMAIN r \cup {Len(r) + 1}
      BY <2>2
    <3> QED
      BY <2>2, <3>1 DEF ToSet
  <2>4. places \cap 1..(m + 1) = (places \cap 1..m) \cup {m + 1}
    BY <1>1, <1>2
  <2> QED
    BY <1>2, <2>1, <2>3, <2>4 DEF Collects, q
<1>3. CASE m + 1 \notin places
  BY <1>1, <1>3 DEF Collects
<1> QED
  BY <1>2, <1>3

\* The loop keeps the places it is given and no others.
LEMMA InOrderCollects ==
  ASSUME NEW n \in Nat, NEW places
  PROVE  Collects(InOrder(n, places), n, places)
<1> DEFINE step(r, i) == IF i \in places THEN Append(r, i) ELSE r
           D(m) == 0..m
           body(g, m) == [i \in D(m) |-> IF i = 0 THEN <<>> ELSE step(g[i - 1], i)]
           Solves(g, m) == g = body(g, m)
           G == {m \in Nat : \E g : Solves(g, m)}
<1>1. 0 \in G
  <2> DEFINE g == [i \in D(0) |-> <<>>]
  <2>1. Solves(g, 0)
    OBVIOUS
  <2> QED
    BY <2>1
<1>2. ASSUME NEW m \in Nat, m \in G PROVE m + 1 \in G
  <2>1. PICK g : Solves(g, m)
    BY <1>2
  <2> DEFINE h == [i \in D(m + 1) |-> IF i = m + 1 THEN step(g[m], m + 1) ELSE g[i]]
  <2>3. \A i \in D(m) : i \in D(m + 1) /\ i # m + 1 /\ (i # 0 => i - 1 \in D(m)) /\ g[i] = IF i = 0 THEN <<>> ELSE step(g[i - 1], i)
    <3>1. \A i \in D(m) : g[i] = IF i = 0 THEN <<>> ELSE step(g[i - 1], i)
      <4> HIDE DEF step
      <4> QED
        BY <2>1
    <3> QED
      BY <3>1
  <2>4. m \in D(m) /\ m + 1 \in D(m + 1) /\ m + 1 # 0 /\ (m + 1) - 1 = m /\ D(m + 1) = D(m) \cup {m + 1}
    OBVIOUS
  <2> HIDE DEF step, D
  <2>5. h[m + 1] = step(g[m], m + 1) /\ \A i \in D(m) : h[i] = g[i]
    BY <2>3, <2>4
  <2>6. h = body(h, m + 1)
    <3> SUFFICES ASSUME NEW i \in D(m + 1) PROVE h[i] = IF i = 0 THEN <<>> ELSE step(h[i - 1], i)
      OBVIOUS
    <3>1. CASE i = m + 1
      BY <2>4, <2>5, <3>1
    <3>2. CASE i \in D(m)
      <4>1. h[i] = IF i = 0 THEN <<>> ELSE step(g[i - 1], i)
        BY <2>3, <2>5, <3>2
      <4>2. i # 0 => h[i - 1] = g[i - 1]
        BY <2>3, <2>5, <3>2
      <4> QED
        BY <4>1, <4>2
    <3> QED
      BY <2>4, <3>1, <3>2
  <2> HIDE DEF h
  <2>8. Solves(h, m + 1)
    BY <2>6
  <2> QED
    BY <2>8
<1> HIDE DEF G
<1>3. n \in G
  BY <1>1, <1>2, NumberInduction
<1> USE DEF G
<1>4. PICK g : Solves(g, n)
  BY <1>3
<1> DEFINE kept == CHOOSE f : f = body(f, n)
<1>5. kept = body(kept, n)
  <2> HIDE DEF body
  <2> QED
    BY <1>4
<1> HIDE DEF kept
<1>6. Collects(kept[n], n, places)
  <2> DEFINE H == {j \in Nat : j \in 0..n => Collects(kept[j], j, places)}
  <2>1. 0 \in H
    <3>1. Collects(<<>>, 0, places)
      BY DEF Collects, ToSet
    <3>2. kept[0] = <<>>
      <4> HIDE DEF step
      <4> QED
        BY <1>5
    <3> QED
      BY <3>1, <3>2
  <2>2. ASSUME NEW j \in Nat, j \in H PROVE j + 1 \in H
    <3> SUFFICES ASSUME j + 1 \in 0..n PROVE Collects(kept[j + 1], j + 1, places)
      OBVIOUS
    <3>1. kept[j + 1] = step(kept[j], j + 1)
      <4>1. j + 1 # 0 /\ (j + 1) - 1 = j
        OBVIOUS
      <4> HIDE DEF step
      <4> QED
        BY <1>5, <4>1
    <3>2. Collects(kept[j], j, places)
      BY <2>2
    <3> QED
      BY <3>1, <3>2, OneMore
  <2> HIDE DEF H
  <2>3. \A j \in Nat : j \in H
    BY <2>1, <2>2, NumberInduction
  <2> QED
    BY <2>3 DEF H
<1>7. InOrder(n, places) = kept[n]
  BY DEF InOrder, kept
<1> QED
  BY <1>6, <1>7
\* What is selected from a list is a list of just the elements at the places.
LEMMA Selected ==
  ASSUME NEW S, NEW s \in Seq(S), NEW places
  PROVE  /\ Select(s, places) \in Seq(S)
         /\ ToSet(Select(s, places)) = {s[i] : i \in places \cap DOMAIN s}
<1> DEFINE n == Len(s)
           r == InOrder(n, places)
<1>1. n \in Nat /\ DOMAIN s = 1..n /\ \A i \in 1..n : s[i] \in S
  BY LenProperties
<1>2. r \in Seq(1..n) /\ ToSet(r) = places \cap 1..n
  BY <1>1, InOrderCollects DEF Collects
<1>3. DOMAIN r = 1..Len(r) /\ Len(r) \in Nat /\ \A k \in 1..Len(r) : r[k] \in 1..n
  BY <1>2, LenProperties, ElementOfSeq
<1>4. Select(s, places) = [k \in DOMAIN r |-> s[r[k]]]
  BY DEF Select
<1> HIDE DEF n, r
<1>5. Select(s, places) \in Seq(S)
  <2>1. Select(s, places) \in [1..Len(r) -> S]
    BY <1>1, <1>3, <1>4
  <2> QED
    BY <1>3, <2>1
<1>6. ToSet(Select(s, places)) = {s[r[k]] : k \in DOMAIN r}
  BY <1>4 DEF ToSet
<1>7. {s[r[k]] : k \in DOMAIN r} = {s[i] : i \in ToSet(r)}
  BY DEF ToSet
<1> QED
  BY <1>1, <1>2, <1>5, <1>6, <1>7

\* A concatenation has the elements of its parts.
LEMMA BothParts ==
  ASSUME NEW S, NEW s \in Seq(S), NEW t \in Seq(S)
  PROVE  s \o t \in Seq(S) /\ ToSet(s \o t) = ToSet(s) \cup ToSet(t)
<1> DEFINE u == s \o t
<1>1. /\ u \in Seq(S) /\ Len(u) = Len(s) + Len(t)
      /\ \A i \in 1..(Len(s) + Len(t)) : u[i] = IF i <= Len(s) THEN s[i] ELSE t[i - Len(s)]
  BY ConcatProperties
<1>2. /\ DOMAIN s = 1..Len(s) /\ DOMAIN t = 1..Len(t) /\ DOMAIN u = 1..Len(u)
      /\ Len(s) \in Nat /\ Len(t) \in Nat
  BY <1>1, LenProperties
<1> HIDE DEF u
<1>3. ASSUME NEW i \in DOMAIN u PROVE u[i] \in ToSet(s) \cup ToSet(t)
  <2>1. CASE i <= Len(s)
    BY <1>1, <1>2, <2>1 DEF ToSet
  <2>2. CASE ~(i <= Len(s))
    <3>1. i - Len(s) \in 1..Len(t)
      BY <1>1, <1>2, <2>2
    <3> QED
      BY <1>1, <1>2, <2>2, <3>1 DEF ToSet
  <2> QED
    BY <2>1, <2>2
<1>4. ASSUME NEW i \in DOMAIN s PROVE s[i] \in ToSet(u)
  BY <1>1, <1>2 DEF ToSet
<1>5. ASSUME NEW i \in DOMAIN t PROVE t[i] \in ToSet(u)
  <2>1. i + Len(s) \in DOMAIN u /\ ~(i + Len(s) <= Len(s)) /\ (i + Len(s)) - Len(s) = i
    BY <1>1, <1>2
  <2> QED
    BY <1>1, <1>2, <2>1 DEF ToSet
<1>6. ToSet(u) = ToSet(s) \cup ToSet(t)
  BY <1>3, <1>4, <1>5 DEF ToSet
<1> QED
  BY <1>1, <1>6 DEF u

\* The head of a list is one of its elements, the tail has the others.
LEMMA HeadAndTail ==
  ASSUME NEW S, NEW s \in Seq(S), s # <<>>
  PROVE  Head(s) \in S /\ Tail(s) \in Seq(S) /\ ToSet(s) = {Head(s)} \cup ToSet(Tail(s))
<1>1. /\ Head(s) \in S /\ Tail(s) \in Seq(S) /\ Len(Tail(s)) = Len(s) - 1
      /\ \A i \in 1..Len(Tail(s)) : Tail(s)[i] = s[i + 1]
      /\ Head(s) = s[1]
  BY HeadTailProperties
<1>2. /\ DOMAIN s = 1..Len(s) /\ DOMAIN Tail(s) = 1..Len(Tail(s)) /\ Len(s) \in Nat /\ Len(s) # 0
  BY <1>1, LenProperties, EmptySeq
<1>3. ASSUME NEW i \in DOMAIN s PROVE s[i] \in {Head(s)} \cup ToSet(Tail(s))
  <2>1. CASE i = 1
    BY <1>1, <2>1
  <2>2. CASE i # 1
    <3>1. i - 1 \in DOMAIN Tail(s) /\ (i - 1) + 1 = i
      BY <1>1, <1>2, <2>2
    <3>2. Tail(s)[i - 1] = s[i]
      BY <1>1, <1>2, <3>1
    <3> QED
      BY <3>1, <3>2 DEF ToSet
  <2> QED
    BY <2>1, <2>2
<1>4. ASSUME NEW i \in DOMAIN Tail(s) PROVE Tail(s)[i] \in ToSet(s)
  <2>1. i + 1 \in DOMAIN s
    BY <1>1, <1>2
  <2> QED
    BY <1>1, <1>2, <2>1 DEF ToSet
<1>5. Head(s) \in ToSet(s)
  BY <1>1, <1>2 DEF ToSet
<1> QED
  BY <1>1, <1>3, <1>4, <1>5 DEF ToSet

-----------------------------------------------------------------------------
(* Looking names up                                                        *)

\* What the image gives: headers with their types, directories, options.
LEMMA ImageTypes ==
  /\ DefaultDirs \in Seq(Dirs)
  /\ \A o \in Objects :
       /\ Elf[o].needed \in Seq(Sonames) /\ ToSet(Elf[o].needed) \subseteq Sonames
       /\ Elf[o].rpath \in Seq(Dirs) /\ Elf[o].runpath \in Seq(Dirs)
       /\ Elf[o].interp \in Objects \cup {None}
  /\ \A d \in Dirs : \A s \in Sonames : At[d][s] \in Objects \cup {None}
  /\ None \notin Objects
<1>1. \A o \in Objects : Elf[o] \in HeaderType
  BY ClosureAssumption
<1>2. ASSUME NEW o \in Objects PROVE ToSet(Elf[o].needed) \subseteq Sonames
  <2>1. Elf[o].needed \in Seq(Sonames)
    BY <1>1 DEF HeaderType
  <2> QED
    BY <2>1, LenProperties, ElementOfSeq DEF ToSet
<1> QED
  BY <1>1, <1>2, ClosureAssumption DEF HeaderType

LEMMA ScanTypes ==
  ASSUME TypeOK
  PROVE  /\ scan \in ScanType
         /\ scan.ldpath \in Seq(Dirs) /\ scan.roots \in Seq(Objects \cup {None})
         /\ scan.assumedFor \in Seq(DOMAIN Answers)
         /\ scan.dlopen \subseteq Objects
<1>1. scan \in ScanType
  BY ClosureAssumption DEF TypeOK
<1> QED
  BY <1>1 DEF ScanType

\* The directory d has an object of o's class under the name s.
Fits(o, s, d) == At[d][s] # None /\ Elf[At[d][s]].abi = Elf[o].abi

\* A name leads to an object of the image or nowhere; nowhere, if no directory
\* of the list has one that fits.
LEMMA ResolveTypes ==
  ASSUME NEW o \in Objects, NEW s \in Sonames, NEW dirs \in Seq(Dirs)
  PROVE  /\ Resolve(o, s, dirs) \in Objects \cup {None}
         /\ Resolve(o, s, dirs) # None <=> \E d \in ToSet(dirs) : Fits(o, s, d)
<1> DEFINE hits == {i \in DOMAIN dirs : Fits(o, s, dirs[i])}
<1>1. Resolve(o, s, dirs) = IF hits = {} THEN None ELSE At[dirs[Min(hits)]][s]
  BY DEF Resolve, Fits
<1>2. DOMAIN dirs \subseteq Nat /\ \A i \in DOMAIN dirs : dirs[i] \in Dirs
  BY LenProperties, ElementOfSeq
<1>3. hits # {} => Min(hits) \in hits
  BY <1>2, LeastNumber
<1>4. hits # {} <=> \E d \in ToSet(dirs) : Fits(o, s, d)
  BY DEF ToSet
<1>5. hits # {} => At[dirs[Min(hits)]][s] \in Objects /\ At[dirs[Min(hits)]][s] # None
  BY <1>2, <1>3, ImageTypes DEF Fits
<1> HIDE DEF hits
<1> QED
  BY <1>1, <1>4, <1>5

\* Where two lists are searched one after the other, the first decides if it
\* has anything that fits.
LEMMA ResolveInTurn ==
  ASSUME NEW o \in Objects, NEW s \in Sonames, NEW a \in Seq(Dirs), NEW b \in Seq(Dirs)
  PROVE  Resolve(o, s, a \o b) =
           IF Resolve(o, s, a) # None THEN Resolve(o, s, a) ELSE Resolve(o, s, b)
<1> DEFINE c == a \o b
           hits(dirs) == {i \in DOMAIN dirs : Fits(o, s, dirs[i])}
<1>1. \A dirs : Resolve(o, s, dirs) = IF hits(dirs) = {} THEN None ELSE At[dirs[Min(hits(dirs))]][s]
  BY DEF Resolve, Fits
<1>2. /\ c \in Seq(Dirs) /\ Len(c) = Len(a) + Len(b)
      /\ \A i \in 1..(Len(a) + Len(b)) : c[i] = IF i <= Len(a) THEN a[i] ELSE b[i - Len(a)]
  BY ConcatProperties
<1>3. /\ DOMAIN a = 1..Len(a) /\ DOMAIN b = 1..Len(b) /\ DOMAIN c = 1..Len(c)
      /\ Len(a) \in Nat /\ Len(b) \in Nat
  BY <1>2, LenProperties
<1> HIDE DEF c
<1>4. \A i \in DOMAIN a : i \in DOMAIN c /\ c[i] = a[i]
  BY <1>2, <1>3
<1>5. \A i \in DOMAIN c : i \notin DOMAIN a => i - Len(a) \in DOMAIN b /\ c[i] = b[i - Len(a)]
  BY <1>2, <1>3
<1>6. \A i \in DOMAIN b : i + Len(a) \in DOMAIN c /\ c[i + Len(a)] = b[i]
  BY <1>2, <1>3
<1>7. hits(a) \subseteq Nat /\ hits(b) \subseteq Nat /\ hits(c) \subseteq Nat
  BY <1>2, <1>3
<1>8. CASE hits(a) # {}
  <2>1. Min(hits(a)) \in hits(a) /\ \A y \in hits(a) : Min(hits(a)) <= y
    BY <1>7, <1>8, LeastNumber
  <2>2. Min(hits(a)) \in hits(c)
    BY <1>4, <2>1
  <2>3. Min(hits(c)) \in hits(c) /\ \A y \in hits(c) : Min(hits(c)) <= y
    BY <1>7, <2>2, LeastNumber
  <2>4. Min(hits(c)) \in hits(a)
    <3>1. Min(hits(c)) <= Min(hits(a)) /\ Min(hits(c)) \in DOMAIN c
      BY <2>2, <2>3
    <3>2. Min(hits(c)) \in DOMAIN a
      BY <1>2, <1>3, <2>1, <3>1
    <3> QED
      BY <1>4, <2>3, <3>2
  <2>5. Min(hits(c)) = Min(hits(a))
    <3> DEFINE x == Min(hits(a))
               y == Min(hits(c))
    <3>1. x <= y /\ y <= x /\ x \in Nat /\ y \in Nat
      BY <1>7, <2>1, <2>2, <2>3, <2>4
    <3> HIDE DEF x, y
    <3>2. x = y
      BY <3>1
    <3> QED
      BY <3>2 DEF x, y
  <2>6. c[Min(hits(c))] = a[Min(hits(a))]
    BY <1>4, <2>1, <2>5
  <2>7. Resolve(o, s, a) # None
    BY <1>8, ResolveTypes DEF ToSet
  <2> QED
    BY <1>1, <1>8, <2>2, <2>6, <2>7 DEF c
<1>9. CASE hits(a) = {}
  <2>1. Resolve(o, s, a) = None
    BY <1>1, <1>9
  <2>2. CASE hits(b) = {}
    <3>1. hits(c) = {}
      BY <1>4, <1>5, <1>9, <2>2
    <3> QED
      BY <1>1, <2>1, <2>2, <3>1 DEF c
  <2>3. CASE hits(b) # {}
    <3> DEFINE x == Min(hits(b))
               y == Min(hits(c))
    <3>1. x \in hits(b) /\ \A z \in hits(b) : x <= z
      BY <1>7, <2>3, LeastNumber
    <3>2. x + Len(a) \in hits(c)
      BY <1>6, <3>1
    <3>3. y \in hits(c) /\ \A z \in hits(c) : y <= z
      BY <1>7, <3>2, LeastNumber
    <3>4. y - Len(a) \in hits(b) /\ c[y] = b[y - Len(a)]
      BY <1>4, <1>5, <1>9, <3>3
    <3>5. x <= y - Len(a) /\ y <= x + Len(a)
      BY <3>1, <3>2, <3>3, <3>4
    <3>6. x \in Nat /\ y \in Nat
      BY <1>7, <3>1, <3>3
    <3>7. hits(c) # {}
      BY <3>2
    <3> HIDE DEF x, y
    <3>8. x = y - Len(a)
      BY <1>3, <3>5, <3>6
    <3>9. c[y] = b[x]
      BY <3>4, <3>8
    <3> QED
      BY <1>1, <2>1, <2>3, <3>7, <3>9 DEF c, x, y
  <2> QED
    BY <2>2, <2>3
<1> QED
  BY <1>8, <1>9

\* The directories a chain hands down are the image's own.
LEMMA ChainTypes ==
  ASSUME TypeOK, NEW o \in Objects, NEW r \in Seq(RPathDirs)
  PROVE  /\ r \in Seq(Dirs)
         /\ ChildRPath(o, r) \in Seq(RPathDirs)
         /\ OwnRPath(o, r) \in Seq(Dirs)
         /\ Search(o, r) \in Seq(Dirs)
         /\ \A s \in ToSet(Elf[o].needed) : Leads(o, r, s) \in Objects \cup {None}
<1>1. RPathDirs \subseteq Dirs
  <2>1. ASSUME NEW p \in Objects PROVE ToSet(Elf[p].rpath) \subseteq Dirs
    <3>1. Elf[p].rpath \in Seq(Dirs)
      BY ImageTypes
    <3> QED
      BY <3>1, LenProperties, ElementOfSeq DEF ToSet
  <2> QED
    BY <2>1 DEF RPathDirs
<1>2. r \in Seq(Dirs)
  BY <1>1, SeqMonotonic
<1>3. Elf[o].rpath \in Seq(RPathDirs)
  <2> DEFINE p == Elf[o].rpath
  <2>1. p \in Seq(Dirs) /\ ToSet(p) \subseteq RPathDirs
    BY ImageTypes DEF RPathDirs
  <2> HIDE DEF p
  <2>2. DOMAIN p = 1..Len(p) /\ Len(p) \in Nat /\ p \in [1..Len(p) -> Dirs]
    BY <2>1, LenProperties
  <2>3. p \in [1..Len(p) -> RPathDirs]
    BY <2>1, <2>2 DEF ToSet
  <2>4. p \in Seq(RPathDirs)
    BY <2>2, <2>3
  <2> QED
    BY <2>4 DEF p
<1>4. Elf[o].rpath \o r \in Seq(RPathDirs)
  BY <1>3, ConcatProperties
<1>5. OwnRPath(o, r) \in Seq(Dirs)
  <2>1. Elf[o].rpath \o r \in Seq(Dirs)
    BY <1>1, <1>4, SeqMonotonic
  <2> QED
    BY <2>1, EmptySeq DEF OwnRPath
<1>6. Search(o, r) \in Seq(Dirs)
  <2>1. Elf[o].runpath \in Seq(Dirs) /\ DefaultDirs \in Seq(Dirs) /\ scan.ldpath \in Seq(Dirs)
    BY ImageTypes, ScanTypes
  <2>2. OwnRPath(o, r) \o scan.ldpath \in Seq(Dirs)
    BY <1>5, <2>1, ConcatProperties
  <2>3. OwnRPath(o, r) \o scan.ldpath \o Elf[o].runpath \in Seq(Dirs)
    BY <2>1, <2>2, ConcatProperties
  <2> QED
    BY <2>1, <2>3, ConcatProperties DEF Search
<1>7. ASSUME NEW s \in ToSet(Elf[o].needed) PROVE Leads(o, r, s) \in Objects \cup {None}
  <2>1. s \in Sonames
    BY ImageTypes
  <2> QED
    BY <1>6, <2>1, ResolveTypes DEF Leads
<1> QED
  BY <1>2, <1>4, <1>5, <1>6, <1>7 DEF ChildRPath

\* When no chain's DT_RPATH finds an object what its own does not, what it
\* needs leads to the same place along every chain.
LEMMA AnyChain ==
  ASSUME TypeOK, RPathsAreOwn, NEW o \in Objects, NEW s \in ToSet(Elf[o].needed),
         NEW r \in Seq(RPathDirs), NEW q \in Seq(RPathDirs)
  PROVE  Leads(o, r, s) = Leads(o, q, s)
<1> DEFINE own == Elf[o].rpath
           rest == scan.ldpath \o Elf[o].runpath \o DefaultDirs
<1>0. s \in Sonames
  BY ImageTypes
<1>1. own \in Seq(Dirs) /\ scan.ldpath \in Seq(Dirs) /\ Elf[o].runpath \in Seq(Dirs) /\ DefaultDirs \in Seq(Dirs)
  BY ImageTypes, ScanTypes
<1>2. rest \in Seq(Dirs)
  BY <1>1, ConcatProperties
<1>3. ASSUME NEW c \in Seq(RPathDirs)
      PROVE  Leads(o, c, s) = Resolve(o, s, OwnRPath(o, c) \o rest)
  <2>1. OwnRPath(o, c) \in Seq(Dirs)
    BY ChainTypes
  <2> DEFINE w == OwnRPath(o, c)
             x == scan.ldpath
             y == Elf[o].runpath
             z == DefaultDirs
  <2>2. Search(o, c) = w \o x \o y \o z /\ rest = x \o y \o z
    BY DEF Search
  <2>3. w \in Seq(Dirs) /\ x \in Seq(Dirs) /\ y \in Seq(Dirs) /\ z \in Seq(Dirs)
    BY <1>1, <2>1
  <2> HIDE DEF w, x, y, z
  <2>4. x \o y \in Seq(Dirs) /\ w \o x \in Seq(Dirs)
    BY <2>3, ConcatProperties
  <2>8. \A a, b, d \in Seq(Dirs) : (a \o b) \o d = a \o (b \o d)
    BY ConcatAssociative
  <2>5. (w \o x) \o y = w \o (x \o y)
    BY ONLY <2>3, <2>8, Zenon
  <2>6. (w \o (x \o y)) \o z = w \o ((x \o y) \o z)
    BY ONLY <2>3, <2>4, <2>8, Zenon
  <2>7. Search(o, c) = w \o rest
    BY <2>2, <2>5, <2>6
  <2> QED
    BY <2>7 DEF w, Leads
<1> HIDE DEF rest
<1>4. CASE Elf[o].runpath # <<>>
  BY <1>3, <1>4 DEF OwnRPath
<1>5. CASE Elf[o].runpath = <<>>
  <2>1. ASSUME NEW c \in Seq(RPathDirs)
        PROVE  Resolve(o, s, OwnRPath(o, c) \o rest) = Resolve(o, s, own \o rest)
    <3>1. OwnRPath(o, c) = own \o c /\ c \in Seq(Dirs) /\ own \o c \in Seq(Dirs)
      BY <1>1, <1>5, ChainTypes, ConcatProperties DEF OwnRPath
    <3>2. Resolve(o, s, c) # None => Resolve(o, s, own) # None
      <4> SUFFICES ASSUME Resolve(o, s, c) # None PROVE Resolve(o, s, own) # None
        OBVIOUS
      <4>1. PICK d \in ToSet(c) : Fits(o, s, d)
        BY <1>0, <3>1, ResolveTypes
      <4>2. d \in RPathDirs
        BY LenProperties, ElementOfSeq DEF ToSet
      <4>3. PICK p \in Objects : d \in ToSet(Elf[p].rpath)
        BY <4>2 DEF RPathDirs
      <4>4. d \in ToSet(own)
        BY <1>5, <4>1, <4>3 DEF RPathsAreOwn, Fits
      <4> QED
        BY <1>0, <1>1, <4>1, <4>4, ResolveTypes
    <3> HIDE DEF own
    <3>3. Resolve(o, s, own \o c) = Resolve(o, s, own)
      BY <1>0, <1>1, <3>1, <3>2, ResolveInTurn
    <3>4. Resolve(o, s, (own \o c) \o rest) = IF Resolve(o, s, own \o c) # None THEN Resolve(o, s, own \o c) ELSE Resolve(o, s, rest)
      BY <1>0, <1>2, <3>1, ResolveInTurn
    <3>5. Resolve(o, s, own \o rest) = IF Resolve(o, s, own) # None THEN Resolve(o, s, own) ELSE Resolve(o, s, rest)
      BY <1>0, <1>1, <1>2, ResolveInTurn
    <3> QED
      BY <3>1, <3>3, <3>4, <3>5
  <2> QED
    BY <1>3, <2>1
<1> QED
  BY <1>4, <1>5

-----------------------------------------------------------------------------
(* Marking the roots                                                       *)

\* A root keeps its reason or gets a stronger one.
LEMMA RootsAdded ==
  ASSUME NEW roots \in [Objects -> RootKinds], NEW objects, NEW kind \in RootKinds
  PROVE  /\ AddRoots(roots, objects, kind) \in [Objects -> RootKinds]
         /\ \A o \in Objects :
              /\ roots[o] # "none" => AddRoots(roots, objects, kind)[o] # "none"
              /\ roots[o] = "explicit" => AddRoots(roots, objects, kind)[o] = "explicit"
              /\ o \in objects /\ kind # "none" => AddRoots(roots, objects, kind)[o] # "none"
              /\ o \in objects /\ kind = "explicit" => AddRoots(roots, objects, kind)[o] = "explicit"
              /\ AddRoots(roots, objects, kind)[o] # roots[o] =>
                   AddRoots(roots, objects, kind)[o] = kind /\ o \in objects
<1> DEFINE new == AddRoots(roots, objects, kind)
<1>1. /\ Strength["none"] = 0 /\ Strength["plugin"] = 1
      /\ Strength["escalated"] = 2 /\ Strength["explicit"] = 3
  BY DEF Strength
<1>2. \A o \in Objects : new[o] = IF o \in objects /\ Strength[kind] > Strength[roots[o]] THEN kind ELSE roots[o]
  BY DEF AddRoots
<1>3. new \in [Objects -> RootKinds]
  BY DEF AddRoots
<1>4. ASSUME NEW o \in Objects
      PROVE  /\ roots[o] # "none" => new[o] # "none"
             /\ roots[o] = "explicit" => new[o] = "explicit"
             /\ o \in objects /\ kind # "none" => new[o] # "none"
             /\ o \in objects /\ kind = "explicit" => new[o] = "explicit"
             /\ new[o] # roots[o] => new[o] = kind /\ o \in objects
  <2>1. roots[o] \in {"none", "plugin", "escalated", "explicit"}
        /\ kind \in {"none", "plugin", "escalated", "explicit"}
    BY DEF RootKinds
  <2>2. new[o] = IF o \in objects /\ Strength[kind] > Strength[roots[o]] THEN kind ELSE roots[o]
    BY <1>2
  <2> HIDE DEF new
  <2> QED
    BY <1>1, <2>1, <2>2
<1> QED
  BY <1>3, <1>4

\* What the command line names are objects of the image.
LEMMA NamedObjects ==
  ASSUME TypeOK
  PROVE  /\ Named \subseteq Objects /\ UserRoots \subseteq Objects
         /\ WrapperObjects \subseteq Objects \cup {None}
         /\ Command # <<>> => Head(Command).object \in Objects \cup {None}
<1>1. scan.entrypoint \in Seq(TokenType) /\ scan.cmd \in Seq(TokenType)
      /\ scan.overEntrypoint \in Seq(TokenType) \cup {None}
      /\ scan.overCmd \in Seq(TokenType) \cup {None}
  <2>1. scan \in ScanType
    BY ScanTypes
  <2> QED
    BY <2>1 DEF ScanType
<1>2. Argv \in Seq(TokenType)
  <2>1. \A a, b \in Seq(TokenType) : a \o b \in Seq(TokenType)
    BY ConcatProperties
  <2> QED
    BY <1>1, <2>1 DEF Argv
<1>3. DOMAIN Argv = 1..Len(Argv) /\ Len(Argv) \in Nat /\ \A i \in 1..Len(Argv) : Argv[i] \in TokenType
  BY <1>2, LenProperties, ElementOfSeq
<1>4. Cardinality(Wrappers) \in Nat
  <2>1. Wrappers \subseteq 1..Len(Argv)
    BY <1>3 DEF Wrappers
  <2>2. IsFiniteSet(1..Len(Argv))
    BY <1>3, FS_Interval
  <2> QED
    BY <2>1, <2>2, FS_Subset, FS_CardinalityType
<1>5. Command \in Seq(TokenType)
  <2> DEFINE m == Cardinality(Wrappers) + 1
  <2>1. m \in Int /\ Len(Argv) \in Int /\ \A i \in m..Len(Argv) : i \in 1..Len(Argv)
    BY <1>3, <1>4
  <2> HIDE DEF m
  <2>2. \A i \in m..Len(Argv) : Argv[i] \in TokenType
    BY <1>3, <2>1
  <2>3. SubSeq(Argv, m, Len(Argv)) \in Seq(TokenType)
    BY <2>1, <2>2, SubSeqProperties
  <2> QED
    BY <2>3 DEF Command, m
<1>6. Command # <<>> => Head(Command) \in TokenType
  BY <1>5, HeadTailProperties
<1>7. WrapperObjects \subseteq Objects \cup {None}
  BY <1>3 DEF WrapperObjects, Wrappers, TokenType
<1>8. Command # <<>> => Head(Command).object \in Objects \cup {None}
  BY <1>6 DEF TokenType
<1>9. UserRoots \subseteq Objects
  BY DEF UserRoots
<1>10. Named \subseteq Objects
  BY <1>7, <1>8, <1>9 DEF Named
<1> QED
  BY <1>7, <1>8, <1>9, <1>10

\* The command line and the options stay what they are.
LEMMA ScanStays ==
  ASSUME scan' = scan
  PROVE  /\ Named' = Named /\ UserRoots' = UserRoots /\ Asserted' = Asserted
         /\ CommandKnown' = CommandKnown
         /\ \A o, r, s : Leads(o, r, s)' = Leads(o, r, s)
<1>1. Argv' = Argv
  BY DEF Argv
<1>2. Wrappers' = Wrappers
  BY <1>1 DEF Wrappers
<1>3. Command' = Command /\ WrapperObjects' = WrapperObjects
  BY <1>1, <1>2 DEF Command, WrapperObjects
<1>4. UserRoots' = UserRoots
  BY DEF UserRoots
<1>5. Named' = Named /\ Asserted' = Asserted /\ CommandKnown' = CommandKnown
  BY <1>3, <1>4 DEF Named, Asserted, CommandKnown
<1>6. \A o, r, s : Leads(o, r, s)' = Leads(o, r, s)
  BY DEF Leads, Search, OwnRPath, Resolve
<1> QED
  BY <1>4, <1>5, <1>6

LEMMA EmptyList == \A S : <<>> \in Seq(S) /\ ToSet(<<>>) = {}
<1>1. DOMAIN <<>> = {}
  OBVIOUS
<1> QED
  BY <1>1, EmptySeq DEF ToSet

LEMMA InitIInv == Init => IInv
<1> SUFFICES ASSUME Init PROVE IInv
  OBVIOUS
<1> USE DEF Init
<1>1. TypeOK
  BY EmptyList DEF TypeOK, RootKinds
<1>2. Reach = {}
  BY EmptyList DEF Reach
<1>3. Fresh /\ UserRooted /\ EntryRooted /\ Probed /\ Settled /\ Collected
  BY DEF Fresh, UserRooted, EntryRooted, Probed, Settled, Collected, Walking
<1>4. PluginsKept
  BY DEF PluginsKept
<1>5. Walked
  BY EmptyList DEF Walked, Walking
<1> QED
  BY <1>1, <1>3, <1>4, <1>5 DEF IInv

\* What TypeOK asks of a taint.
IsTaint(t) ==
  /\ t.kind \in TaintKinds
  /\ t.path \in Objects \cup DOMAIN Answers \cup {None} /\ t.soname \in Sonames \cup {None}
  /\ t.blocking => ~t.discharged

LEMMA TaintsGrow ==
  ASSUME TypeOK, \A t \in taints' : t \in taints \/ IsTaint(t)
  PROVE  \A t \in taints' : /\ t.kind \in TaintKinds
                            /\ t.path \in Objects \cup DOMAIN Answers \cup {None}
                            /\ t.soname \in Sonames \cup {None} /\ (t.blocking => ~t.discharged)
<1>1. \A t \in taints : IsTaint(t)
  BY Zenon DEF TypeOK, IsTaint
<1>2. \A t \in taints' : IsTaint(t)
  BY <1>1
<1> QED
  BY <1>2 DEF IsTaint

\* A taint that blocks unless it is answered is one.
LEMMA TaintIsTaint ==
  ASSUME NEW kind \in TaintKinds, NEW path \in Objects \cup DOMAIN Answers \cup {None},
         NEW soname \in Sonames \cup {None}, NEW b, NEW g, NEW d, b => ~d
  PROVE  IsTaint(Taint(kind, path, soname, b, g, d))
<1> DEFINE t == Taint(kind, path, soname, b, g, d)
<1>1. t.kind = kind /\ t.path = path /\ t.soname = soname /\ t.blocking = b /\ t.discharged = d
  BY DEF Taint
<1> HIDE DEF t
<1>2. t.blocking => ~t.discharged
  BY <1>1, Zenon
<1>3. IsTaint(t)
  BY <1>1, <1>2 DEF IsTaint
<1> QED
  BY <1>3 DEF t

\* While the roots are marked there is nothing in the closure.
LEMMA StillFresh ==
  ASSUME IInv, UNCHANGED <<scan, queue, seen, missing>>,
         phase \notin Walking, phase' \notin Walking, phase' # "plugins"
  PROVE  /\ Fresh' /\ Walked' /\ Settled'
         /\ \A o : Openable(o)' = Openable(o)
<1>1. seen = {} /\ missing = {} /\ queue = <<>>
  BY DEF IInv, Fresh
<1>2. Fresh' /\ Settled'
  BY <1>1 DEF Fresh, Settled, Walking
<1>3. Walked'
  BY <1>1, EmptyList DEF Walked
<1>4. \A o : Openable(o)' = Openable(o)
  BY DEF Openable
<1> QED
  BY <1>2, <1>3, <1>4

LEMMA MarkPluginsIInv == IInv /\ MarkPlugins => IInv'
<1> SUFFICES ASSUME IInv, MarkPlugins PROVE IInv'
  OBVIOUS
<1> DEFINE any == {o \in Objects : WaitsFor[o] = "any"}
<1>1. /\ phase = "plugins" /\ phase' = "roots"
      /\ root' = AddRoots(root, any, "plugin")
      /\ pending' = {o \in Objects : WaitsFor[o] \notin {"", "any"}}
      /\ UNCHANGED <<scan, queue, seen, missing, taints>>
  BY DEF MarkPlugins
<1>2. TypeOK /\ root \in [Objects -> RootKinds] /\ PluginsKept
  BY DEF IInv, TypeOK
<1> HIDE DEF any
<1>3. /\ root' \in [Objects -> RootKinds]
      /\ \A o \in Objects : /\ o \in any => root'[o] # "none"
                            /\ root'[o] # root[o] => root'[o] = "plugin" /\ o \in any
  <2>1. "plugin" \in RootKinds /\ "plugin" # "none"
    BY DEF RootKinds
  <2> QED
    BY <1>1, <1>2, <2>1, RootsAdded
<1>4. TypeOK'
  BY <1>1, <1>2, <1>3 DEF TypeOK
<1>5. Fresh' /\ Walked' /\ Settled' /\ \A o : Openable(o)' = Openable(o)
  BY <1>1, StillFresh DEF Walking
<1>6. PluginsKept'
  BY <1>1, <1>2, <1>3, <1>5 DEF PluginsKept, any
<1>7. UserRooted' /\ EntryRooted' /\ Probed' /\ Collected'
  BY <1>1 DEF UserRooted, EntryRooted, Probed, Collected, Walking, IInv
<1> QED
  BY <1>4, <1>5, <1>6, <1>7 DEF IInv

\* A step that adds explicit roots leaves the plugins as they are.
LEMMA PluginsStay ==
  ASSUME IInv, NEW objects, root' = AddRoots(root, objects, "explicit"), phase # "plugins",
         UNCHANGED <<pending, seen>>
  PROVE  PluginsKept'
<1>1. root \in [Objects -> RootKinds] /\ PluginsKept
  BY DEF IInv, TypeOK
<1>2. \A o \in Objects : /\ root[o] # "none" => root'[o] # "none"
                         /\ root'[o] # root[o] => root'[o] = "explicit"
  <2>1. "explicit" \in RootKinds
    BY DEF RootKinds
  <2> QED
    BY <1>1, <2>1, RootsAdded
<1>3. \A o : Openable(o)' = Openable(o)
  BY DEF Openable
<1> QED
  BY <1>1, <1>2, <1>3 DEF PluginsKept

LEMMA MarkUserRootsIInv == IInv /\ MarkUserRoots => IInv'
<1> SUFFICES ASSUME IInv, MarkUserRoots PROVE IInv'
  OBVIOUS
<1> DEFINE lost == Taint("missing-root", None, None, TRUE, TRUE, FALSE)
<1>1. /\ phase = "roots" /\ phase' = "entrypoint"
      /\ root' = AddRoots(root, UserRoots, "explicit")
      /\ taints' = taints \cup (IF None \in ToSet(scan.roots) THEN {lost} ELSE {})
      /\ UNCHANGED <<scan, pending, queue, seen, missing>>
  BY DEF MarkUserRoots, walk
<1>2. TypeOK /\ root \in [Objects -> RootKinds] /\ Collected
  BY DEF IInv, TypeOK
<1>3. /\ lost.kind = "missing-root" /\ lost.path = None /\ lost.soname = None
      /\ lost.blocking /\ lost.global /\ ~lost.discharged
  BY DEF Taint
<1> HIDE DEF lost
<1>4. root' \in [Objects -> RootKinds] /\ \A o \in UserRoots : root'[o] = "explicit"
  <2>1. "explicit" \in RootKinds /\ UserRoots \subseteq Objects
    BY DEF RootKinds, UserRoots
  <2> QED
    BY <1>1, <1>2, <2>1, RootsAdded
<1>5. TypeOK'
  <2>1. lost.kind \in TaintKinds
    BY <1>3 DEF TaintKinds
  <2> QED
    BY <1>1, <1>2, <1>3, <1>4, <2>1 DEF TypeOK
<1>6. Fresh' /\ Walked' /\ Settled'
  BY <1>1, StillFresh DEF Walking
<1>7. PluginsKept'
  BY <1>1, PluginsStay
<1>8. UserRooted'
  <2>1. UserRoots' = UserRoots
    BY <1>1, ScanStays
  <2> QED
    BY <1>1, <1>3, <1>4, <2>1 DEF UserRooted
<1>9. EntryRooted' /\ Probed'
  BY <1>1 DEF EntryRooted, Probed, Walking
<1>10. Collected'
  BY <1>1, <1>2, <1>3 DEF Collected
<1> QED
  BY <1>5, <1>6, <1>7, <1>8, <1>9, <1>10 DEF IInv

\* The entrypoint is taken, whatever it is: what it names is rooted, and the
\* programs too if it does not say what runs.
LEMMA Entered ==
  ASSUME IInv, MarkEntrypoint
  PROVE  /\ root' \in [Objects -> RootKinds]
         /\ \A o \in Named : root'[o] = "explicit"
         /\ \A o \in Objects : /\ root[o] = "explicit" => root'[o] = "explicit"
                               /\ root[o] # "none" => root'[o] # "none"
                               /\ root'[o] = "plugin" => root[o] = "plugin"
         /\ \/ phase' = "probe" /\ (CommandKnown \/ Asserted)
            \/ phase' = "walk" /\ ~CommandKnown /\ ~Asserted /\ \A o \in Programs : root'[o] # "none"
         /\ \/ UNCHANGED taints
            \/ \E kind \in {"no-entrypoint", "shell-entrypoint"} :
                 taints' = taints \cup {Taint(kind, None, None, FALSE, FALSE, Asserted)}
<1>1. /\ root \in [Objects -> RootKinds] /\ Named \subseteq Objects
      /\ \A o \in UserRoots : root[o] = "explicit"
      /\ UserRoots \subseteq Objects
  BY NamedObjects DEF IInv, TypeOK, UserRooted, MarkEntrypoint
<1>2. {"explicit", "escalated"} \subseteq RootKinds /\ Programs \subseteq Objects /\ Programs \subseteq Escalated
  BY DEF RootKinds, Programs, Escalated
<1> DEFINE escalated == AddRoots(root, Escalated, "escalated")
           Grown(b) == /\ b \in [Objects -> RootKinds]
                       /\ \A o \in Objects : /\ root[o] = "explicit" => b[o] = "explicit"
                                             /\ root[o] # "none" => b[o] # "none"
                                             /\ b[o] = "plugin" => root[o] = "plugin"
           Before(b) == \/ phase' = "probe" /\ (CommandKnown \/ Asserted)
                        \/ phase' = "walk" /\ ~CommandKnown /\ ~Asserted /\ \A o \in Programs : b[o] # "none"
           Noted == \/ UNCHANGED taints
                    \/ \E kind \in {"no-entrypoint", "shell-entrypoint"} :
                         taints' = taints \cup {Taint(kind, None, None, FALSE, FALSE, Asserted)}
<1>3. Grown(root)
  BY <1>1
<1>4. Grown(escalated) /\ \A o \in Programs : escalated[o] # "none"
  <2> HIDE DEF Grown
  <2>1. /\ escalated \in [Objects -> RootKinds]
        /\ \A o \in Objects : /\ root[o] # "none" => escalated[o] # "none"
                              /\ root[o] = "explicit" => escalated[o] = "explicit"
                              /\ o \in Escalated => escalated[o] # "none"
                              /\ escalated[o] # root[o] => escalated[o] = "escalated"
    BY <1>1, <1>2, RootsAdded
  <2> HIDE DEF escalated
  <2>2. \A o \in Programs : escalated[o] # "none"
    BY <1>2, <2>1
  <2> QED
    BY <2>1, <2>2 DEF Grown
<1> HIDE DEF escalated, Grown
<1>5. ASSUME NEW kind \in {"no-entrypoint", "shell-entrypoint"}, NEW named,
             UnknownEntrypoint(kind, named), ~CommandKnown
      PROVE  \E b : /\ Grown(b) /\ Before(b) /\ Noted
                    /\ root' = AddRoots(b, named \ {None}, "explicit")
  <2>1. CASE Asserted
    BY <1>3, <1>5, <2>1 DEF UnknownEntrypoint
  <2>2. CASE ~Asserted
    BY <1>4, <1>5, <2>2 DEF UnknownEntrypoint, escalated
  <2> QED
    BY <2>1, <2>2
<1>6. \E b, named : /\ Grown(b) /\ Before(b) /\ Noted
                    /\ root' = AddRoots(b, named \ {None}, "explicit")
                    /\ Named \ UserRoots \subseteq named \ {None}
  <2> HIDE DEF Before, Noted
  <2>1. CASE /\ Command = <<>>
             /\ UnknownEntrypoint("no-entrypoint", WrapperObjects)
    <3>1. ~CommandKnown /\ Named \ UserRoots \subseteq WrapperObjects \ {None}
      BY <2>1 DEF CommandKnown, Named
    <3> QED
      BY <1>5, <2>1, <3>1
  <2>2. CASE /\ Command # <<>> /\ Head(Command).kind \in {"shell", "odd_wrapper"}
             /\ UnknownEntrypoint("shell-entrypoint", WrapperObjects \cup {Head(Command).object})
    <3>1. ~CommandKnown /\ Named \ UserRoots \subseteq (WrapperObjects \cup {Head(Command).object}) \ {None}
      BY <2>2 DEF CommandKnown, Named
    <3> QED
      BY <1>5, <2>2, <3>1
  <2>3. CASE /\ Command # <<>> /\ Head(Command).kind = "command" /\ Head(Command).object = None
             /\ UnknownEntrypoint("no-entrypoint", WrapperObjects)
    <3>1. ~CommandKnown /\ Named \ UserRoots \subseteq WrapperObjects \ {None}
      BY <2>3 DEF CommandKnown, Named
    <3> QED
      BY <1>5, <2>3, <3>1
  <2>4. CASE /\ Command # <<>> /\ Head(Command).kind = "command" /\ Head(Command).object # None
             /\ root' = AddRoots(root, (WrapperObjects \cup {Head(Command).object}) \ {None}, "explicit")
             /\ phase' = "probe" /\ UNCHANGED taints
    <3>1. CommandKnown /\ Named \ UserRoots \subseteq (WrapperObjects \cup {Head(Command).object}) \ {None}
      BY <2>4 DEF CommandKnown, Named
    <3>2. Before(root) /\ Noted
      BY <2>4, <3>1 DEF Before, Noted
    <3> QED
      BY <1>3, <2>4, <3>1, <3>2
  <2> QED
    BY <2>1, <2>2, <2>3, <2>4 DEF MarkEntrypoint
<1>7. PICK b, named : /\ Grown(b) /\ Before(b) /\ Noted
                      /\ root' = AddRoots(b, named \ {None}, "explicit")
                      /\ Named \ UserRoots \subseteq named \ {None}
  BY <1>6
<1> DEFINE objects == named \ {None}
<1>8. /\ root' \in [Objects -> RootKinds]
      /\ \A o \in Objects : /\ b[o] # "none" => root'[o] # "none"
                            /\ b[o] = "explicit" => root'[o] = "explicit"
                            /\ o \in objects => root'[o] = "explicit"
                            /\ root'[o] # b[o] => root'[o] = "explicit"
  <2>1. root' = AddRoots(b, objects, "explicit") /\ b \in [Objects -> RootKinds]
    BY <1>7 DEF Grown
  <2> HIDE DEF objects
  <2> QED
    BY <1>2, <2>1, RootsAdded
<1>9. /\ \A o \in Named : root'[o] = "explicit"
      /\ \A o \in Objects : /\ root[o] = "explicit" => root'[o] = "explicit"
                            /\ root[o] # "none" => root'[o] # "none"
                            /\ root'[o] = "plugin" => root[o] = "plugin"
  BY <1>1, <1>7, <1>8 DEF Grown
<1>10. \/ phase' = "probe" /\ (CommandKnown \/ Asserted)
       \/ phase' = "walk" /\ ~CommandKnown /\ ~Asserted /\ \A o \in Programs : root'[o] # "none"
  BY <1>2, <1>7, <1>8
<1> QED
  BY <1>7, <1>8, <1>9, <1>10

LEMMA MarkEntrypointIInv == IInv /\ MarkEntrypoint => IInv'
<1> SUFFICES ASSUME IInv, MarkEntrypoint PROVE IInv'
  OBVIOUS
<1>1. phase = "entrypoint" /\ UNCHANGED <<scan, pending, queue, seen, missing>>
  BY DEF MarkEntrypoint, walk
<1>2. TypeOK /\ PluginsKept /\ UserRooted /\ Collected
  BY DEF IInv
<1>3. /\ root' \in [Objects -> RootKinds]
      /\ \A o \in Named : root'[o] = "explicit"
      /\ \A o \in Objects : /\ root[o] = "explicit" => root'[o] = "explicit"
                            /\ root[o] # "none" => root'[o] # "none"
                            /\ root'[o] = "plugin" => root[o] = "plugin"
      /\ \/ phase' = "probe" /\ (CommandKnown \/ Asserted)
         \/ phase' = "walk" /\ ~CommandKnown /\ ~Asserted /\ \A o \in Programs : root'[o] # "none"
  BY Entered
<1>4. /\ taints \subseteq taints'
      /\ \A t \in taints' \ taints : /\ t.kind \in {"no-entrypoint", "shell-entrypoint"}
                                     /\ t.path = None /\ t.soname = None /\ ~t.blocking
  BY Entered DEF Taint
<1>5. TypeOK'
  <2>0. \A t \in taints' \ taints : IsTaint(t)
    BY <1>4 DEF IsTaint, TaintKinds
  <2>1. \A t \in taints' : /\ t.kind \in TaintKinds
                           /\ t.path \in Objects \cup DOMAIN Answers \cup {None}
                           /\ t.soname \in Sonames \cup {None} /\ (t.blocking => ~t.discharged)
    BY <1>2, <2>0, TaintsGrow
  <2> QED
    BY <1>1, <1>2, <1>3, <2>1 DEF TypeOK
<1>6. Fresh' /\ Walked' /\ Settled' /\ \A o : Openable(o)' = Openable(o)
  BY <1>1, <1>3, StillFresh DEF Walking
<1>7. PluginsKept'
  BY <1>1, <1>2, <1>3, <1>6 DEF PluginsKept
<1>8. UserRoots' = UserRoots /\ UserRoots \subseteq Objects /\ Named' = Named
      /\ Asserted' = Asserted /\ CommandKnown' = CommandKnown
  BY <1>1, ScanStays DEF UserRoots
<1>9. UserRooted'
  BY <1>1, <1>2, <1>3, <1>4, <1>8 DEF UserRooted
<1>10. EntryRooted'
  BY <1>3, <1>8 DEF EntryRooted, Walking
<1>11. Probed'
  BY <1>3, <1>8 DEF Probed, Walking
<1>12. Collected'
  BY <1>1, <1>2, <1>3, <1>4 DEF Collected
<1> QED
  BY <1>5, <1>6, <1>7, <1>9, <1>10, <1>11, <1>12 DEF IInv

LEMMA ProbeExecIInv == IInv /\ ProbeExec => IInv'
<1> SUFFICES ASSUME IInv, ProbeExec PROVE IInv'
  OBVIOUS
<1> DEFINE subjects == {o \in Objects : root[o] = "explicit" /\ scan.spawns[o] # "unknown"}
           spawners == {o \in subjects : scan.spawns[o] = "yes"}
           threat(o) == o \in spawners /\ ~scan.execAssumed
           started == UNION {(Mentions[o] \cap Programs) \ {o} : o \in spawners}
           found == {Taint("exec", o, None, threat(o), threat(o), ~threat(o)) : o \in subjects}
<1>1. /\ phase = "probe" /\ phase' = "walk" /\ UNCHANGED <<scan, pending, queue, seen, missing>>
      /\ root' = AddRoots(root, started, "explicit")
      /\ taints' = taints \cup found
  BY DEF ProbeExec, walk
<1>2. /\ TypeOK /\ UserRooted /\ EntryRooted /\ Collected
      /\ root \in [Objects -> RootKinds] /\ Named \subseteq Objects
  BY NamedObjects DEF IInv, TypeOK
<1>3. \A t \in found : IsTaint(t) /\ t.kind = "exec"
  <2> SUFFICES ASSUME NEW o \in subjects
               PROVE  LET t == Taint("exec", o, None, threat(o), threat(o), ~threat(o))
                      IN  IsTaint(t) /\ t.kind = "exec"
    OBVIOUS
  <2> DEFINE x == threat(o)
  <2>1. "exec" \in TaintKinds /\ o \in Objects /\ (x => ~~x)
    BY DEF TaintKinds
  <2> HIDE DEF x
  <2>2. IsTaint(Taint("exec", o, None, x, x, ~x))
    BY <2>1, TaintIsTaint
  <2>3. Taint("exec", o, None, x, x, ~x).kind = "exec"
    BY DEF Taint
  <2> QED
    BY <2>2, <2>3 DEF x
<1>4. \A o \in Named : scan.spawns[o] = "yes" =>
        \E t \in found : t.kind = "exec" /\ t.path = o /\ (scan.execAssumed \/ (t.blocking /\ t.global))
  <2> SUFFICES ASSUME NEW o \in Named, scan.spawns[o] = "yes"
               PROVE  \E t \in found : t.kind = "exec" /\ t.path = o /\ (scan.execAssumed \/ (t.blocking /\ t.global))
    OBVIOUS
  <2>1. o \in spawners
    BY <1>1, <1>2 DEF EntryRooted
  <2> DEFINE t == Taint("exec", o, None, threat(o), threat(o), ~threat(o))
  <2>2. t \in found /\ t.kind = "exec" /\ t.path = o /\ (scan.execAssumed \/ (t.blocking /\ t.global))
    BY <2>1 DEF Taint
  <2> QED
    BY <2>2
<1> HIDE DEF found, started
<1>5. /\ root' \in [Objects -> RootKinds]
      /\ \A o \in Objects : /\ root[o] # "none" => root'[o] # "none"
                            /\ root[o] = "explicit" => root'[o] = "explicit"
  <2>1. "explicit" \in RootKinds
    BY DEF RootKinds
  <2> QED
    BY <1>1, <1>2, <2>1, RootsAdded
<1>6. TypeOK'
  <2>1. \A t \in taints' : /\ t.kind \in TaintKinds
                           /\ t.path \in Objects \cup DOMAIN Answers \cup {None}
                           /\ t.soname \in Sonames \cup {None} /\ (t.blocking => ~t.discharged)
    BY <1>1, <1>2, <1>3, TaintsGrow
  <2> QED
    BY <1>1, <1>2, <1>5, <2>1 DEF TypeOK
<1>7. Fresh' /\ Walked' /\ Settled'
  BY <1>1, StillFresh DEF Walking
<1>8. PluginsKept'
  BY <1>1, PluginsStay
<1>9. UserRoots' = UserRoots /\ UserRoots \subseteq Objects /\ Named' = Named
      /\ Asserted' = Asserted /\ CommandKnown' = CommandKnown
  BY <1>1, ScanStays DEF UserRoots
<1>10. UserRooted'
  BY <1>1, <1>2, <1>5, <1>9 DEF UserRooted
<1>11. EntryRooted'
  BY <1>1, <1>2, <1>5, <1>9 DEF EntryRooted
<1>12. Probed'
  BY <1>1, <1>4, <1>9 DEF Probed
<1>13. Collected'
  BY <1>1, <1>2, <1>3 DEF Collected
<1> QED
  BY <1>6, <1>7, <1>8, <1>10, <1>11, <1>12, <1>13 DEF IInv

-----------------------------------------------------------------------------
(* The walk                                                                *)

FrameType == [object : Objects, rpath : Seq(Dirs)]

\* A list made from a list, one element from each.
LEMMA SameLength ==
  ASSUME NEW S, NEW T, NEW s \in Seq(S), NEW q \in [DOMAIN s -> T]
  PROVE  q \in Seq(T)
<1>1. DOMAIN s = 1..Len(s) /\ Len(s) \in Nat
  BY LenProperties
<1> QED
  BY <1>1

\* The frames for a list of objects.
LEMMA RootFrames ==
  ASSUME NEW objects \in Seq(Objects), NEW q,
         q = [i \in DOMAIN objects |-> Frame(objects[i], <<>>)]
  PROVE  /\ q \in Seq(FrameType)
         /\ {f.object : f \in ToSet(q)} = ToSet(objects)
         /\ \A f \in ToSet(q) : f.rpath = <<>>
<1>1. \A i \in DOMAIN objects : objects[i] \in Objects
  BY LenProperties, ElementOfSeq
<1>2. \A o \in Objects : Frame(o, <<>>) \in FrameType /\ Frame(o, <<>>).object = o /\ Frame(o, <<>>).rpath = <<>>
  BY EmptyList DEF Frame, FrameType
<1>3. q \in [DOMAIN objects -> FrameType]
  BY <1>1, <1>2
<1>4. q \in Seq(FrameType)
  BY <1>3, SameLength
<1>5. DOMAIN q = DOMAIN objects /\ \A i \in DOMAIN objects : q[i].object = objects[i] /\ q[i].rpath = <<>>
  BY <1>1, <1>2
<1> HIDE DEF Objects
<1> QED
  BY <1>4, <1>5 DEF ToSet

\* What is taken from the objects in path order.
LEMMA InPathOrder ==
  ASSUME NEW P, NEW places, places = {i \in DOMAIN Order : Order[i] \in P}
  PROVE  Select(Order, places) \in Seq(Objects) /\ ToSet(Select(Order, places)) = Objects \cap P
<1>1. Order \in Seq(Objects)
  BY ClosureAssumption
<1>2. Select(Order, places) \in Seq(Objects)
      /\ ToSet(Select(Order, places)) = {Order[i] : i \in places \cap DOMAIN Order}
  BY <1>1, Selected
<1>3. {Order[i] : i \in places \cap DOMAIN Order} = Objects \cap P
  BY DEF Objects, ToSet
<1> QED
  BY <1>2, <1>3

LEMMA EmptyIffNothing ==
  ASSUME NEW S, NEW s \in Seq(S)
  PROVE  s = <<>> <=> ToSet(s) = {}
<1>1. DOMAIN s = 1..Len(s) /\ Len(s) \in Nat /\ (s # <<>> => Len(s) # 0)
  BY LenProperties, EmptySeq
<1>2. s # <<>> => 1 \in DOMAIN s
  BY <1>1
<1> QED
  BY <1>2, EmptyList DEF ToSet

\* While the closure grows the roots and their taints stay.
LEMMA MarksStay ==
  ASSUME IInv, UNCHANGED <<scan, taints>>, phase \in {"walk", "visit", "taints"},
         phase' \in Walking,
         \A o \in Objects : /\ root[o] # "none" => root'[o] # "none"
                            /\ root[o] = "explicit" => root'[o] = "explicit"
  PROVE  UserRooted' /\ EntryRooted' /\ Probed' /\ (phase' # "done" => Collected')
<1>1. UserRoots' = UserRoots /\ UserRoots \subseteq Objects /\ Named' = Named
      /\ Asserted' = Asserted /\ CommandKnown' = CommandKnown /\ Named \subseteq Objects
  BY ScanStays, NamedObjects DEF UserRoots, IInv
<1>2. UserRooted /\ EntryRooted /\ Probed /\ Collected /\ Programs \subseteq Objects
  BY DEF IInv, Programs
<1>3. UserRooted'
  BY <1>1, <1>2 DEF UserRooted
<1>4. EntryRooted'
  BY <1>1, <1>2 DEF EntryRooted, Walking
<1>5. Probed'
  BY <1>1, <1>2 DEF Probed, Walking
<1>6. phase' # "done" => Collected'
  BY <1>2 DEF Collected
<1> QED
  BY <1>3, <1>4, <1>5, <1>6

LEMMA StartWalkIInv == IInv /\ StartWalk => IInv'
<1> SUFFICES ASSUME IInv, StartWalk PROVE IInv'
  OBVIOUS
<1> DEFINE P == {o \in Objects : root[o] # "none"}
           places == {i \in DOMAIN Order : root[Order[i]] # "none"}
           roots == Select(Order, places)
<1>1. /\ phase = "walk" /\ phase' = "visit"
      /\ queue' = [i \in DOMAIN roots |-> Frame(roots[i], <<>>)]
      /\ UNCHANGED <<scan, root, pending, seen, missing, taints>>
  BY DEF StartWalk
<1>2. TypeOK /\ seen = {}
  BY <1>1 DEF IInv, Fresh, Walking
<1>3. places = {i \in DOMAIN Order : Order[i] \in P}
  BY DEF Objects, ToSet
<1> HIDE DEF P, places
<1>4. roots \in Seq(Objects) /\ ToSet(roots) = Objects \cap P
  BY <1>3, InPathOrder
<1> HIDE DEF roots
<1>5. /\ queue' \in Seq(FrameType)
      /\ {f.object : f \in ToSet(queue')} = Objects \cap P
      /\ \A f \in ToSet(queue') : f.rpath = <<>>
  BY <1>1, <1>4, RootFrames
<1>6. TypeOK'
  BY <1>1, <1>2, <1>5 DEF TypeOK, FrameType
<1>7. Reach' = Objects \cap P
  BY <1>1, <1>2, <1>5 DEF Reach
<1>8. Walked'
  BY <1>1, <1>2, <1>5, <1>7, EmptyList DEF Walked, P
<1>9. PluginsKept'
  BY <1>1 DEF IInv, PluginsKept, Openable
<1>10. Fresh' /\ Settled'
  BY <1>1 DEF Fresh, Settled, Walking
<1>11. UserRooted' /\ EntryRooted' /\ Probed' /\ Collected'
  BY <1>1, MarksStay DEF Walking
<1> QED
  BY <1>6, <1>8, <1>9, <1>10, <1>11 DEF IInv

LEMMA SkipIInv == IInv /\ Skip => IInv'
<1> SUFFICES ASSUME IInv, Skip PROVE IInv'
  OBVIOUS
<1>1. /\ phase = "visit" /\ queue # <<>> /\ Head(queue).object \in seen
      /\ queue' = Tail(queue)
      /\ UNCHANGED <<scan, phase, root, pending, seen, missing, taints>>
  BY DEF Skip, Visited
<1>2. TypeOK /\ Walked /\ queue \in Seq(FrameType)
  BY DEF IInv, TypeOK, FrameType
<1>3. queue' \in Seq(FrameType) /\ ToSet(queue) = {Head(queue)} \cup ToSet(queue')
  BY <1>1, <1>2, HeadAndTail
<1>4. TypeOK'
  BY <1>1, <1>2, <1>3 DEF TypeOK, FrameType
<1>5. Reach' = Reach
  BY <1>1, <1>3 DEF Reach
<1>6. \A o, r, s : Leads(o, r, s)' = Leads(o, r, s)
  BY <1>1, ScanStays
<1>7. Walked'
  <2>1. RPathDirs' = RPathDirs
    OBVIOUS
  <2> QED
    BY <1>1, <1>2, <1>3, <1>5, <1>6, <2>1 DEF Walked
<1>8. PluginsKept'
  BY <1>1 DEF IInv, PluginsKept, Openable
<1>9. Fresh' /\ Settled'
  BY <1>1 DEF Fresh, Settled, Walking
<1>10. UserRooted' /\ EntryRooted' /\ Probed' /\ Collected'
  BY <1>1, MarksStay DEF Walking
<1> QED
  BY <1>4, <1>7, <1>8, <1>9, <1>10 DEF IInv

\* A visit puts the object in the closure and queues what it makes the linker
\* load; what it needs and nothing satisfies is written down.
LEMMA Visits ==
  ASSUME IInv, Visit
  PROVE  \E o \in Objects, r \in Seq(RPathDirs) :
           /\ seen' = seen \cup {o}
           /\ missing' = missing \cup {<<o, s>> : s \in {t \in ToSet(Elf[o].needed) : Leads(o, r, t) = None}}
           /\ queue' \in Seq(FrameType)
           /\ \A f \in ToSet(queue') : f.rpath \in Seq(RPathDirs)
           /\ Reach \subseteq Reach'
           /\ Elf[o].interp # None => Elf[o].interp \in Reach'
           /\ \A s \in ToSet(Elf[o].needed) : Leads(o, r, s) # None => Leads(o, r, s) \in Reach'
<1> DEFINE o == Head(queue).object
           r == Head(queue).rpath
           child == ChildRPath(o, r)
           places == {i \in DOMAIN Elf[o].needed : Leads(o, r, Elf[o].needed[i]) # None}
           found == Select(Elf[o].needed, places)
           interp == IF Elf[o].interp = None THEN <<>> ELSE <<Frame(Elf[o].interp, <<>>)>>
           deps == [i \in DOMAIN found |-> Frame(Leads(o, r, found[i]), child)]
<1>1. /\ queue # <<>> /\ seen' = seen \cup {o}
      /\ missing' = missing \cup {<<o, s>> : s \in {t \in ToSet(Elf[o].needed) : Leads(o, r, t) = None}}
      /\ queue' = Tail(queue) \o interp \o deps
  BY DEF Visit, Leads
<1>2. TypeOK /\ Walked /\ queue \in Seq(FrameType)
  BY DEF IInv, TypeOK, FrameType
<1>3. /\ Head(queue) \in FrameType /\ Tail(queue) \in Seq(FrameType)
      /\ ToSet(queue) = {Head(queue)} \cup ToSet(Tail(queue))
  BY <1>1, <1>2, HeadAndTail
<1>4. o \in Objects /\ r \in Seq(RPathDirs)
  BY <1>2, <1>3 DEF Walked, FrameType
<1> HIDE DEF o, r
<1>5. /\ child \in Seq(RPathDirs) /\ child \in Seq(Dirs)
      /\ \A s \in ToSet(Elf[o].needed) : Leads(o, r, s) \in Objects \cup {None}
  <2>1. child \in Seq(RPathDirs)
    BY <1>2, <1>4, ChainTypes
  <2> HIDE DEF child
  <2> QED
    BY <1>2, <1>4, <2>1, ChainTypes
<1> HIDE DEF child
<1>6. /\ found \in Seq(Sonames)
      /\ ToSet(found) = {s \in ToSet(Elf[o].needed) : Leads(o, r, s) # None}
  <2>1. Elf[o].needed \in Seq(Sonames)
    BY <1>4, ImageTypes
  <2>2. found \in Seq(Sonames) /\ ToSet(found) = {Elf[o].needed[i] : i \in places \cap DOMAIN Elf[o].needed}
    <3> HIDE DEF places
    <3> QED
      BY <2>1, Selected
  <2>3. {Elf[o].needed[i] : i \in places \cap DOMAIN Elf[o].needed} = {s \in ToSet(Elf[o].needed) : Leads(o, r, s) # None}
    BY DEF ToSet
  <2> QED
    BY <2>2, <2>3
<1> HIDE DEF found
<1>7. /\ deps \in Seq(FrameType)
      /\ \A f \in ToSet(deps) : f.rpath = child
      /\ {f.object : f \in ToSet(deps)} = {Leads(o, r, s) : s \in ToSet(found)}
  <2>1. \A i \in DOMAIN found : found[i] \in ToSet(found)
    BY DEF ToSet
  <2>2. \A i \in DOMAIN found : Leads(o, r, found[i]) \in Objects
    BY <1>5, <1>6, <2>1
  <2>3. \A i \in DOMAIN found : deps[i] \in FrameType /\ deps[i].object = Leads(o, r, found[i]) /\ deps[i].rpath = child
    BY <1>5, <2>2 DEF Frame, FrameType
  <2>4. deps \in [DOMAIN found -> FrameType]
    BY <2>3
  <2>5. deps \in Seq(FrameType)
    <3> HIDE DEF deps
    <3> QED
      BY <1>6, <2>4, SameLength
  <2>6. DOMAIN deps = DOMAIN found
    OBVIOUS
  <2> HIDE DEF deps
  <2> QED
    BY <2>3, <2>5, <2>6 DEF ToSet
<1> HIDE DEF deps
<1>8. /\ interp \in Seq(FrameType)
      /\ \A f \in ToSet(interp) : f.rpath = <<>>
      /\ Elf[o].interp # None => \E f \in ToSet(interp) : f.object = Elf[o].interp
  <2>1. CASE Elf[o].interp = None
    BY <2>1, EmptyList
  <2>2. CASE Elf[o].interp # None
    <3> DEFINE f == Frame(Elf[o].interp, <<>>)
    <3>1. Elf[o].interp \in Objects
      BY <1>4, <2>2, ImageTypes
    <3>2. f \in FrameType /\ f.object = Elf[o].interp /\ f.rpath = <<>>
      BY <3>1, EmptyList DEF Frame, FrameType
    <3>3. interp = <<f>>
      BY <2>2
    <3> HIDE DEF f, interp
    <3>4. <<f>> \in Seq(FrameType) /\ ToSet(<<f>>) = {f}
      BY <3>2 DEF ToSet
    <3> QED
      BY <3>2, <3>3, <3>4
  <2> QED
    BY <2>1, <2>2
<1> HIDE DEF interp
<1>9. queue' \in Seq(FrameType) /\ ToSet(queue') = ToSet(Tail(queue)) \cup ToSet(interp) \cup ToSet(deps)
  <2> DEFINE tail == Tail(queue)
  <2>1. \A a, b \in Seq(FrameType) : a \o b \in Seq(FrameType) /\ ToSet(a \o b) = ToSet(a) \cup ToSet(b)
    BY BothParts
  <2>2. tail \in Seq(FrameType) /\ queue' = tail \o interp \o deps
    BY <1>1, <1>3
  <2> HIDE DEF tail
  <2>3. tail \o interp \in Seq(FrameType) /\ ToSet(tail \o interp) = ToSet(tail) \cup ToSet(interp)
    BY <1>8, <2>1, <2>2
  <2>4. queue' \in Seq(FrameType) /\ ToSet(queue') = ToSet(tail \o interp) \cup ToSet(deps)
    BY <1>7, <2>1, <2>2, <2>3
  <2> QED
    BY <2>3, <2>4 DEF tail
<1>10. Reach' = Reach \cup {o} \cup {f.object : f \in ToSet(interp)} \cup {f.object : f \in ToSet(deps)}
  <2>1. Reach = seen \cup {o} \cup {f.object : f \in ToSet(Tail(queue))}
    BY <1>3 DEF Reach, o
  <2> QED
    BY <1>1, <1>9, <2>1 DEF Reach
<1>11. \A f \in ToSet(queue') : f.rpath \in Seq(RPathDirs)
  BY <1>2, <1>3, <1>5, <1>7, <1>8, <1>9, EmptyList DEF Walked
<1>12. Elf[o].interp # None => Elf[o].interp \in Reach'
  BY <1>8, <1>10
<1>13. \A s \in ToSet(Elf[o].needed) : Leads(o, r, s) # None => Leads(o, r, s) \in Reach'
  BY <1>6, <1>7, <1>10
<1> QED
  BY <1>1, <1>4, <1>9, <1>10, <1>11, <1>12, <1>13

LEMMA VisitIInv == IInv /\ Visit => IInv'
<1> SUFFICES ASSUME IInv, Visit PROVE IInv'
  OBVIOUS
<1>1. phase = "visit" /\ UNCHANGED <<scan, phase, root, pending, taints>>
  BY DEF Visit
<1>2. TypeOK /\ Walked /\ PluginsKept
  BY DEF IInv
<1>3. PICK o \in Objects, r \in Seq(RPathDirs) :
        /\ seen' = seen \cup {o}
        /\ missing' = missing \cup {<<o, s>> : s \in {t \in ToSet(Elf[o].needed) : Leads(o, r, t) = None}}
        /\ queue' \in Seq(FrameType)
        /\ \A f \in ToSet(queue') : f.rpath \in Seq(RPathDirs)
        /\ Reach \subseteq Reach'
        /\ Elf[o].interp # None => Elf[o].interp \in Reach'
        /\ \A s \in ToSet(Elf[o].needed) : Leads(o, r, s) # None => Leads(o, r, s) \in Reach'
  BY Visits
<1>4. TypeOK'
  <2>1. missing' \subseteq seen' \X Sonames
    BY <1>2, <1>3, ImageTypes DEF TypeOK
  <2> QED
    BY <1>1, <1>2, <1>3, <2>1 DEF TypeOK, FrameType
<1>5. \A p, c, s : Leads(p, c, s)' = Leads(p, c, s)
  BY <1>1, ScanStays
<1>6. ASSUME NEW p \in seen'
      PROVE  /\ Elf[p].interp # None => Elf[p].interp \in Reach'
             /\ \E c \in Seq(RPathDirs) : \A s \in ToSet(Elf[p].needed) :
                  IF Leads(p, c, s) = None THEN <<p, s>> \in missing' ELSE Leads(p, c, s) \in Reach'
  <2>1. CASE p = o
    BY <1>3, <2>1
  <2>2. CASE p \in seen
    <3>1. PICK c \in Seq(RPathDirs) : \A s \in ToSet(Elf[p].needed) :
            IF Leads(p, c, s) = None THEN <<p, s>> \in missing ELSE Leads(p, c, s) \in Reach
      BY <1>2, <2>2 DEF Walked
    <3>2. \A s \in ToSet(Elf[p].needed) :
            IF Leads(p, c, s) = None THEN <<p, s>> \in missing' ELSE Leads(p, c, s) \in Reach'
      BY <1>3, <3>1
    <3> QED
      BY <1>2, <1>3, <2>2, <3>2 DEF Walked
  <2> QED
    BY <1>3, <2>1, <2>2
<1>7. Walked'
  <2>1. RPathDirs' = RPathDirs
    OBVIOUS
  <2>2. \A q \in Objects : root'[q] # "none" => q \in Reach'
    BY <1>1, <1>2, <1>3 DEF Walked, Walking
  <2>3. \A p \in seen' : \E c \in Seq(RPathDirs) : \A s \in ToSet(Elf[p].needed) :
          IF Leads(p, c, s)' = None THEN <<p, s>> \in missing' ELSE Leads(p, c, s)' \in Reach'
    BY <1>5, <1>6
  <2> QED
    BY <1>3, <1>6, <2>1, <2>2, <2>3 DEF Walked
<1>8. PluginsKept'
  <2>1. \A p : Openable(p) => Openable(p)'
    BY <1>3 DEF Openable
  <2> QED
    BY <1>1, <1>2, <1>3, <2>1 DEF PluginsKept
<1>9. Fresh' /\ Settled'
  BY <1>1 DEF Fresh, Settled, Walking
<1>10. UserRooted' /\ EntryRooted' /\ Probed' /\ Collected'
  BY <1>1, MarksStay DEF Walking
<1> QED
  BY <1>4, <1>7, <1>8, <1>9, <1>10 DEF IInv

LEMMA AdmitPluginsIInv == IInv /\ AdmitPlugins => IInv'
<1> SUFFICES ASSUME IInv, AdmitPlugins PROVE IInv'
  OBVIOUS
<1> DEFINE places == {i \in DOMAIN Order : Order[i] \in Admitted}
           admitted == Select(Order, places)
<1>1. /\ phase = "visit" /\ queue = <<>>
      /\ pending' = {o \in pending : root[o] = "none" /\ o \notin seen /\ ~Openable(o)}
      /\ root' = AddRoots(root, Admitted, "plugin")
      /\ queue' = [i \in DOMAIN admitted |-> Frame(admitted[i], <<>>)]
      /\ phase' = IF admitted = <<>> THEN "taints" ELSE "visit"
      /\ UNCHANGED <<scan, seen, missing, taints>>
  BY DEF AdmitPlugins
<1>2. TypeOK /\ Walked /\ PluginsKept /\ root \in [Objects -> RootKinds]
  BY DEF IInv, TypeOK
<1>3. Admitted \subseteq Objects
  BY <1>2 DEF Admitted, TypeOK
<1>4. admitted \in Seq(Objects) /\ ToSet(admitted) = Admitted /\ (admitted = <<>> <=> Admitted = {})
  <2> HIDE DEF places
  <2>1. places = {i \in DOMAIN Order : Order[i] \in Admitted}
    BY DEF places
  <2>2. admitted \in Seq(Objects) /\ ToSet(admitted) = Admitted
    BY <1>3, <2>1, InPathOrder
  <2> QED
    BY <2>2, EmptyIffNothing
<1> HIDE DEF admitted
<1>5. /\ queue' \in Seq(FrameType)
      /\ {f.object : f \in ToSet(queue')} = Admitted
      /\ \A f \in ToSet(queue') : f.rpath = <<>>
  BY <1>1, <1>4, RootFrames
<1>6. /\ root' \in [Objects -> RootKinds]
      /\ \A o \in Objects : /\ root[o] # "none" => root'[o] # "none"
                            /\ root[o] = "explicit" => root'[o] = "explicit"
                            /\ o \in Admitted => root'[o] # "none"
                            /\ root'[o] # root[o] => root'[o] = "plugin" /\ o \in Admitted
  <2>1. "plugin" \in RootKinds /\ "plugin" # "none"
    BY DEF RootKinds
  <2> QED
    BY <1>1, <1>2, <2>1, RootsAdded
<1>7. TypeOK'
  BY <1>1, <1>2, <1>5, <1>6 DEF TypeOK, FrameType
<1>8. Reach = seen /\ Reach' = seen \cup Admitted
  BY <1>1, <1>5, EmptyList DEF Reach
<1>9. \A o, r, s : Leads(o, r, s)' = Leads(o, r, s)
  BY <1>1, ScanStays
<1>10. Walked'
  <2>1. RPathDirs' = RPathDirs
    OBVIOUS
  <2>2. \A o \in Objects : root'[o] # "none" => o \in Reach'
    BY <1>1, <1>2, <1>6, <1>8 DEF Walked, Walking
  <2>3. \A o \in seen' : \E r \in Seq(RPathDirs) : \A s \in ToSet(Elf[o].needed) :
          IF Leads(o, r, s)' = None THEN <<o, s>> \in missing' ELSE Leads(o, r, s)' \in Reach'
    BY <1>1, <1>2, <1>8, <1>9 DEF Walked
  <2>4. \A o \in seen' : Elf[o].interp # None => Elf[o].interp \in Reach'
    BY <1>1, <1>2, <1>8 DEF Walked
  <2> QED
    BY <1>5, <2>1, <2>2, <2>3, <2>4, EmptyList DEF Walked
<1>11. \A o : Openable(o)' = Openable(o)
  BY <1>1 DEF Openable
<1>12. PluginsKept'
  <2>1. ASSUME NEW o \in Objects, root'[o] = "plugin"
        PROVE  WaitsFor[o] = "any" \/ (WaitsFor[o] # "" /\ Openable(o)')
    <3>1. CASE root[o] = "plugin"
      BY <1>2, <1>11, <3>1 DEF PluginsKept
    <3>2. CASE root[o] # "plugin"
      BY <1>2, <1>6, <1>11, <2>1, <3>2 DEF PluginsKept, Admitted
    <3> QED
      BY <3>1, <3>2
  <2>2. ASSUME NEW o \in Objects
        PROVE  /\ WaitsFor[o] = "any" => root'[o] # "none"
               /\ WaitsFor[o] \notin {"", "any"} => o \in pending' \/ root'[o] # "none" \/ o \in seen
    BY <1>1, <1>2, <1>6 DEF PluginsKept, Admitted
  <2> QED
    BY <1>1, <1>2, <2>1, <2>2 DEF PluginsKept
<1>13. Settled'
  <2> SUFFICES ASSUME phase' = "taints"
               PROVE  queue' = <<>> /\ \A o \in Objects : WaitsFor[o] \notin {"", "any"} /\ Openable(o) => o \in seen
    BY <1>1, <1>11 DEF Settled
  <2>1. Admitted = {}
    BY <1>1, <1>4
  <2>2. queue' = <<>>
    BY <1>5, <2>1, EmptyIffNothing
  <2>3. \A o \in Objects : root[o] # "none" => o \in seen
    BY <1>1, <1>2, <1>8 DEF Walked, Walking
  <2> QED
    BY <1>1, <1>2, <2>1, <2>2, <2>3 DEF PluginsKept, Admitted
<1>14. Fresh'
  BY <1>1 DEF Fresh, Walking
<1>15. UserRooted' /\ EntryRooted' /\ Probed' /\ Collected'
  BY <1>1, <1>6, MarksStay DEF Walking
<1> QED
  BY <1>7, <1>10, <1>12, <1>13, <1>14, <1>15 DEF IInv

-----------------------------------------------------------------------------
(* What is said of the closure                                             *)

\* Who asked for the assertion that o meets: a name of the user's that is o's.
LEMMA AssumedByOne ==
  ASSUME TypeOK, NEW o
  PROVE  AssumedBy(o) # None <=> \E a \in ToSet(scan.assumedFor) : o \in Answers[a]
<1> DEFINE names == {i \in DOMAIN scan.assumedFor : o \in Answers[scan.assumedFor[i]]}
<1>1. AssumedBy(o) = IF names = {} THEN None ELSE scan.assumedFor[Min(names)]
  BY DEF AssumedBy
<1>2. /\ DOMAIN scan.assumedFor \subseteq Nat
      /\ \A i \in DOMAIN scan.assumedFor : scan.assumedFor[i] \in DOMAIN Answers
  BY ScanTypes, LenProperties, ElementOfSeq
<1>3. names # {} => Min(names) \in names
  BY <1>2, LeastNumber
<1>4. None \notin DOMAIN Answers
  BY ClosureAssumption
<1>5. names # {} <=> \E a \in ToSet(scan.assumedFor) : o \in Answers[a]
  BY DEF ToSet
<1> HIDE DEF names
<1>6. names # {} => AssumedBy(o) # None
  BY <1>1, <1>2, <1>3, <1>4 DEF names
<1> QED
  BY <1>1, <1>5, <1>6

LEMMA AssumedByAnswers ==
  ASSUME TypeOK, NEW o, AssumedBy(o) # None
  PROVE  AssumedBy(o) \in ToSet(scan.assumedFor) /\ o \in Answers[AssumedBy(o)]
<1> DEFINE names == {i \in DOMAIN scan.assumedFor : o \in Answers[scan.assumedFor[i]]}
<1>1. names # {} /\ AssumedBy(o) = scan.assumedFor[Min(names)]
  BY DEF AssumedBy
<1>2. DOMAIN scan.assumedFor \subseteq Nat
  BY ScanTypes, LenProperties
<1>3. Min(names) \in names
  BY <1>1, <1>2, LeastNumber
<1> QED
  BY <1>1, <1>3 DEF ToSet

\* A taint of the kinds collected at the end is what its definition says.
LEMMA CollectedTypes ==
  ASSUME IInv
  PROVE  /\ \A t \in Unresolved : IsTaint(t) /\ t.kind = "unresolved-needed"
         /\ \A t \in Dlopens : IsTaint(t) /\ t.kind = "dlopen"
         /\ \A t \in Statics : IsTaint(t) /\ t.kind = "static-elf"
         /\ \A a \in Inert : /\ IsTaint(Taint("inert-assertion", a, None, FALSE, FALSE, FALSE))
                             /\ Taint("inert-assertion", a, None, FALSE, FALSE, FALSE).kind = "inert-assertion"
                             /\ Taint("inert-assertion", a, None, FALSE, FALSE, FALSE).path = a
<1>1. TypeOK /\ seen \subseteq Objects /\ missing \subseteq seen \X Sonames
  BY DEF IInv, TypeOK
<1>2. {"unresolved-needed", "dlopen", "static-elf", "inert-assertion"} \subseteq TaintKinds
  BY DEF TaintKinds
<1>3. \A k, p, s, b, g, d : Taint(k, p, s, b, g, d).kind = k /\ Taint(k, p, s, b, g, d).path = p
  BY DEF Taint
<1>4. \A t \in Unresolved : IsTaint(t) /\ t.kind = "unresolved-needed"
  <2> SUFFICES ASSUME NEW m \in missing
               PROVE  /\ IsTaint(Taint("unresolved-needed", m[1], m[2], TRUE, FALSE, FALSE))
                      /\ Taint("unresolved-needed", m[1], m[2], TRUE, FALSE, FALSE).kind = "unresolved-needed"
    BY DEF Unresolved
  <2>1. m[1] \in Objects /\ m[2] \in Sonames
    BY <1>1
  <2>2. IsTaint(Taint("unresolved-needed", m[1], m[2], TRUE, FALSE, FALSE))
    BY <1>2, <2>1, TaintIsTaint
  <2> QED
    BY <2>2 DEF Taint
<1>5. \A t \in Dlopens : IsTaint(t) /\ t.kind = "dlopen"
  <2> SUFFICES ASSUME NEW o \in seen
               PROVE  LET t == Taint("dlopen", o, None, ~DlopenAnswered(o), ~DlopenAnswered(o), DlopenAnswered(o))
                      IN  IsTaint(t) /\ t.kind = "dlopen"
    BY DEF Dlopens
  <2> DEFINE x == DlopenAnswered(o)
  <2>1. o \in Objects /\ (~x => ~x)
    BY <1>1
  <2> HIDE DEF x
  <2>2. IsTaint(Taint("dlopen", o, None, ~x, ~x, x))
    BY <1>2, <2>1, TaintIsTaint
  <2>3. Taint("dlopen", o, None, ~x, ~x, x).kind = "dlopen"
    BY DEF Taint
  <2> QED
    BY <2>2, <2>3 DEF x
<1>6. \A t \in Statics : IsTaint(t) /\ t.kind = "static-elf"
  <2> SUFFICES ASSUME NEW o \in Objects
               PROVE  LET t == Taint("static-elf", o, None, StaticBlocks(o), StaticBlocks(o), StaticDischarged(o))
                      IN  IsTaint(t) /\ t.kind = "static-elf"
    BY DEF Statics
  <2>1. StaticBlocks(o) => ~StaticDischarged(o)
    BY DEF StaticBlocks, StaticDischarged
  <2> QED
    BY <1>2, <1>3, <2>1, TaintIsTaint
<1>7. ASSUME NEW a \in Inert
      PROVE  IsTaint(Taint("inert-assertion", a, None, FALSE, FALSE, FALSE))
  <2>1. a \in DOMAIN Answers
    BY <1>1, ScanTypes, LenProperties, ElementOfSeq DEF Inert, ToSet
  <2> QED
    BY <1>2, <2>1, TaintIsTaint
<1>8. \A a : /\ Taint("inert-assertion", a, None, FALSE, FALSE, FALSE).kind = "inert-assertion"
             /\ Taint("inert-assertion", a, None, FALSE, FALSE, FALSE).path = a
  BY DEF Taint
<1> QED
  BY <1>4, <1>5, <1>6, <1>7, <1>8

LEMMA CollectTaintsIInv == IInv /\ CollectTaints => IInv'
<1> SUFFICES ASSUME IInv, CollectTaints PROVE IInv'
  OBVIOUS
<1> DEFINE inert == {Taint("inert-assertion", a, None, FALSE, FALSE, FALSE) : a \in Inert}
<1>1. /\ phase = "taints" /\ phase' = "done"
      /\ taints' = taints \cup Unresolved \cup Dlopens \cup Statics \cup inert
      /\ UNCHANGED <<scan, root, pending, queue, seen, missing>>
  BY DEF CollectTaints, walk
<1>2. TypeOK /\ Walked /\ PluginsKept /\ Settled /\ Collected /\ UserRooted /\ EntryRooted /\ Probed
  BY DEF IInv
<1>3. \A t \in taints' : t \in taints \/ IsTaint(t)
  BY <1>1, CollectedTypes
<1>4. TypeOK'
  <2>1. \A t \in taints' : /\ t.kind \in TaintKinds
                           /\ t.path \in Objects \cup DOMAIN Answers \cup {None}
                           /\ t.soname \in Sonames \cup {None} /\ (t.blocking => ~t.discharged)
    BY <1>2, <1>3, TaintsGrow
  <2> QED
    BY <1>1, <1>2, <2>1 DEF TypeOK
<1>5. Fresh' /\ PluginsKept' /\ Settled'
  BY <1>1, <1>2 DEF Fresh, PluginsKept, Settled, Openable, Walking
<1>6. \A o, r, s : Leads(o, r, s)' = Leads(o, r, s)
  BY <1>1, ScanStays
<1>7. Walked'
  <2>1. RPathDirs' = RPathDirs /\ Reach' = Reach
    BY <1>1 DEF Reach
  <2> QED
    BY <1>1, <1>2, <1>6, <2>1 DEF Walked, Walking
<1>8. UserRoots' = UserRoots /\ UserRoots \subseteq Objects /\ Named' = Named
      /\ Asserted' = Asserted /\ CommandKnown' = CommandKnown /\ taints \subseteq taints'
  BY <1>1, ScanStays DEF UserRoots
<1>9. UserRooted' /\ EntryRooted' /\ Probed'
  BY <1>1, <1>2, <1>8 DEF UserRooted, EntryRooted, Probed, Walking
<1>10. Collected'
  <2>1. Unresolved' = Unresolved
    BY <1>1 DEF Unresolved
  <2>2. \A o : AssumedBy(o)' = AssumedBy(o)
    BY <1>1 DEF AssumedBy
  <2>3. \A o : DlopenAnswered(o)' = DlopenAnswered(o)
    BY <1>1, <2>2 DEF DlopenAnswered, Bounded
  <2>4. Dlopens' = Dlopens
    BY <1>1, <2>3 DEF Dlopens
  <2>5. Statics' = Statics
    BY <1>1 DEF Statics, StaticBlocks, StaticDischarged
  <2>6. Inert' = Inert
    BY <1>1, <2>2 DEF Inert
  <2>7. \A a \in Inert : \E t \in taints' : t.kind = "inert-assertion" /\ t.path = a
    BY <1>1, CollectedTypes
  <2>8. ASSUME NEW t \in taints'
        PROVE  /\ t.kind = "dlopen" => t \in Dlopens
               /\ t.kind = "inert-assertion" => t.path \in Inert
    <3>1. t \in taints => t.kind # "dlopen" /\ t.kind # "inert-assertion"
      BY <1>1, <1>2 DEF Collected
    <3>2. t \in Unresolved \cup Statics => t.kind # "dlopen" /\ t.kind # "inert-assertion"
      BY CollectedTypes
    <3>3. t \in Dlopens => t.kind = "dlopen"
      BY CollectedTypes
    <3>4. t \in inert => t.kind = "inert-assertion" /\ t.path \in Inert
      <4> SUFFICES ASSUME NEW a \in Inert, t = Taint("inert-assertion", a, None, FALSE, FALSE, FALSE)
                   PROVE  t.kind = "inert-assertion" /\ t.path \in Inert
        OBVIOUS
      <4> QED
        BY CollectedTypes
    <3> QED
      BY <1>1, <3>1, <3>2, <3>3, <3>4
  <2> QED
    BY <1>1, <2>1, <2>4, <2>5, <2>6, <2>7, <2>8 DEF Collected
<1> QED
  BY <1>4, <1>5, <1>7, <1>9, <1>10 DEF IInv

LEMMA IdleIInv == IInv /\ UNCHANGED vars => IInv'
<1> SUFFICES ASSUME IInv, UNCHANGED vars PROVE IInv'
  OBVIOUS
<1>1. UNCHANGED <<scan, phase, root, pending, queue, seen, missing, taints>>
  BY DEF vars
<1>2. TypeOK' /\ Fresh' /\ PluginsKept' /\ Settled'
  BY <1>1 DEF IInv, TypeOK, Fresh, PluginsKept, Settled, Openable
<1>3. UserRoots' = UserRoots /\ Named' = Named /\ Asserted' = Asserted /\ CommandKnown' = CommandKnown
      /\ \A o, r, s : Leads(o, r, s)' = Leads(o, r, s)
  BY <1>1, ScanStays
<1>4. UserRooted' /\ EntryRooted' /\ Probed'
  BY <1>1, <1>3 DEF IInv, UserRooted, EntryRooted, Probed
<1>5. Walked'
  <2>1. RPathDirs' = RPathDirs /\ Reach' = Reach
    BY <1>1 DEF Reach
  <2> QED
    BY <1>1, <1>3, <2>1 DEF IInv, Walked
<1>6. Collected'
  <2>1. \A o : AssumedBy(o)' = AssumedBy(o)
    BY <1>1 DEF AssumedBy
  <2>2. Dlopens' = Dlopens /\ Inert' = Inert /\ Unresolved' = Unresolved /\ Statics' = Statics
    BY <1>1, <2>1 DEF Dlopens, DlopenAnswered, Bounded, Inert, Unresolved, Statics, StaticBlocks, StaticDischarged
  <2> QED
    BY <1>1, <2>2 DEF IInv, Collected
<1> QED
  BY <1>2, <1>4, <1>5, <1>6 DEF IInv

LEMMA NextIInv == IInv /\ [Next]_vars => IInv'
<1> SUFFICES ASSUME IInv, [Next]_vars PROVE IInv'
  OBVIOUS
<1>1. CASE MarkPlugins
  BY <1>1, MarkPluginsIInv
<1>2. CASE MarkUserRoots
  BY <1>2, MarkUserRootsIInv
<1>3. CASE MarkEntrypoint
  BY <1>3, MarkEntrypointIInv
<1>4. CASE ProbeExec
  BY <1>4, ProbeExecIInv
<1>5. CASE StartWalk
  BY <1>5, StartWalkIInv
<1>6. CASE Skip
  BY <1>6, SkipIInv
<1>7. CASE Visit
  BY <1>7, VisitIInv
<1>8. CASE AdmitPlugins
  BY <1>8, AdmitPluginsIInv
<1>9. CASE CollectTaints
  BY <1>9, CollectTaintsIInv
<1>10. CASE UNCHANGED vars
  BY <1>10, IdleIInv
<1> QED
  BY <1>1, <1>2, <1>3, <1>4, <1>5, <1>6, <1>7, <1>8, <1>9, <1>10 DEF Next, MarkRoots, Walk, Done

THEOREM SpecIInv == Spec => []IInv
<1>1. Init => IInv
  BY InitIInv
<1>2. IInv /\ [Next]_vars => IInv'
  BY NextIInv
<1> QED
  BY <1>1, <1>2, PTL DEF Spec

-----------------------------------------------------------------------------
(* The properties                                                          *)

\* Build's state has its types: a taint that blocks has not been answered, the
\* queue holds objects of the image with directories of its own.
THEOREM TypeCorrect == Spec => []TypeOK
<1>1. IInv => TypeOK
  BY DEF IInv
<1> QED
  BY <1>1, SpecIInv, PTL

\* The closure Build ends with: it has the roots, among them all that the
\* command line and the user name and every plugin whose loader it has, and with
\* an object its interpreter and what the linker loads for it.
ClosureIsClosed ==
  phase = "done" =>
    /\ \A o \in Objects : root[o] # "none" => o \in seen
    /\ Named \subseteq seen
    /\ \A o \in Objects : WaitsFor[o] = "any" \/ (WaitsFor[o] # "" /\ Openable(o)) => o \in seen
    /\ \A o \in seen : Elf[o].interp # None => Elf[o].interp \in seen
    /\ \A o \in seen : \E r \in Seq(RPathDirs) : \A s \in ToSet(Elf[o].needed) :
         IF Leads(o, r, s) = None THEN <<o, s>> \in missing ELSE Leads(o, r, s) \in seen

LEMMA DoneIsClosed == IInv => ClosureIsClosed
<1> SUFFICES ASSUME IInv, phase = "done" PROVE ClosureIsClosed
  BY DEF ClosureIsClosed
<1>1. Walked /\ Settled /\ PluginsKept /\ EntryRooted /\ Named \subseteq Objects
  BY NamedObjects DEF IInv
<1>2. Reach = seen
  BY <1>1, EmptyList DEF Settled, Reach
<1>3. \A o \in Objects : root[o] # "none" => o \in seen
  BY <1>1, <1>2 DEF Walked, Walking
<1>4. Named \subseteq seen
  BY <1>1, <1>3 DEF EntryRooted, Walking
<1>5. \A o \in Objects : WaitsFor[o] = "any" \/ (WaitsFor[o] # "" /\ Openable(o)) => o \in seen
  BY <1>1, <1>3 DEF PluginsKept, Settled
<1> QED
  BY <1>1, <1>2, <1>3, <1>4, <1>5 DEF Walked, ClosureIsClosed

\* The walk loses nothing: when Build ends the closure is closed, whatever the
\* image, the order of its objects and the chains that led to them.
THEOREM ClosureClosed == Spec => []ClosureIsClosed
BY DoneIsClosed, SpecIInv, PTL

\* A static program that runs has its taint, which blocks everywhere.
LEMMA OpaqueBlocks ==
  ASSUME IInv, phase = "done", NEW o \in Opaque
  PROVE  \E t \in taints : t.kind = "static-elf" /\ t.path = o /\ t.blocking /\ t.global
<1> DEFINE t == Taint("static-elf", o, None, StaticBlocks(o), StaticBlocks(o), StaticDischarged(o))
<1>1. o \in Named /\ Elf[o].interp = None /\ o \notin scan.closed
  BY DEF Opaque
<1>2. o \in Objects /\ o \in seen /\ root[o] = "explicit"
  BY <1>1, NamedObjects, DoneIsClosed DEF IInv, EntryRooted, Walking, ClosureIsClosed
<1>3. t \in taints
  <2>1. t \in Statics
    BY <1>1, <1>2 DEF Statics
  <2> QED
    BY <2>1 DEF IInv, Collected
<1>4. StaticBlocks(o)
  BY <1>1, <1>2 DEF StaticBlocks
<1>5. t.kind = "static-elf" /\ t.path = o /\ t.blocking = StaticBlocks(o) /\ t.global = StaticBlocks(o)
  BY DEF Taint
<1> HIDE DEF t
<1> QED
  BY <1>3, <1>4, <1>5

LEMMA IInvThreats == IInv => ThreatsAreSaid
<1> SUFFICES ASSUME IInv, phase = "done" PROVE ThreatsAreSaid
  BY DEF ThreatsAreSaid
<1>1. TypeOK /\ Collected /\ Probed /\ Settled /\ EntryRooted /\ Named \subseteq Objects /\ ClosureIsClosed
  BY NamedObjects, DoneIsClosed DEF IInv
<1>2. \A o \in seen \cap scan.dlopen : \E t \in taints : t.kind = "dlopen" /\ t.path = o
  <2> SUFFICES ASSUME NEW o \in seen \cap scan.dlopen
               PROVE  \E t \in taints : t.kind = "dlopen" /\ t.path = o
    OBVIOUS
  <2> DEFINE t == Taint("dlopen", o, None, ~DlopenAnswered(o), ~DlopenAnswered(o), DlopenAnswered(o))
  <2>1. t \in Dlopens
    BY DEF Dlopens
  <2>2. t.kind = "dlopen" /\ t.path = o
    BY DEF Taint
  <2> HIDE DEF t
  <2> QED
    BY <1>1, <2>1, <2>2 DEF Collected
<1>3. \A o \in Opaque : \E t \in taints : t.kind = "static-elf" /\ t.path = o /\ t.blocking
  BY OpaqueBlocks
<1>4. ASSUME NEW o \in Named, scan.spawns[o] = "yes"
      PROVE  \/ \E t \in taints : t.kind = "exec" /\ t.path = o /\ (t.blocking \/ scan.execAssumed)
             \/ ~CommandKnown /\ Programs \subseteq seen
  <2>1. CASE CommandKnown \/ Asserted
    BY <1>1, <1>4, <2>1 DEF Probed, Walking
  <2>2. CASE ~CommandKnown /\ ~Asserted
    BY <1>1, <2>2 DEF EntryRooted, Walking, ClosureIsClosed, Programs
  <2> QED
    BY <2>1, <2>2
<1>5. \A t \in taints : t.kind = "dlopen" => t.path \in seen \cap scan.dlopen
  <2> SUFFICES ASSUME NEW o \in seen \cap scan.dlopen
               PROVE  Taint("dlopen", o, None, ~DlopenAnswered(o), ~DlopenAnswered(o), DlopenAnswered(o)).path
                        \in seen \cap scan.dlopen
    BY <1>1 DEF Collected, Dlopens
  <2> QED
    BY DEF Taint
<1>6. ASSUME NEW a \in ToSet(scan.assumedFor)
      PROVE  LET inert == \E t \in taints : t.kind = "inert-assertion" /\ t.path = a
                 callers == {t \in taints : t.kind = "dlopen" /\ t.path \in Answers[a]}
             IN  (callers = {} => inert) /\ (inert => \A t \in callers : AssumedBy(t.path) # a)
  <2> DEFINE inert == \E t \in taints : t.kind = "inert-assertion" /\ t.path = a
             callers == {t \in taints : t.kind = "dlopen" /\ t.path \in Answers[a]}
  <2>1. inert <=> a \in Inert
    BY <1>1 DEF Collected
  <2>2. a \in Inert <=> \A o \in seen \cap scan.dlopen : AssumedBy(o) # a
    BY DEF Inert
  <2> HIDE DEF inert
  <2>3. inert => \A t \in callers : AssumedBy(t.path) # a
    BY <1>5, <2>1, <2>2
  <2>4. ASSUME ~inert PROVE callers # {}
    <3>1. PICK o \in seen \cap scan.dlopen : AssumedBy(o) = a
      BY <2>1, <2>2, <2>4
    <3>2. a # None
      BY <1>1, ClosureAssumption, ScanTypes, LenProperties, ElementOfSeq DEF ToSet
    <3>3. o \in Answers[a]
      BY <1>1, <3>1, <3>2, AssumedByAnswers
    <3>4. PICK t \in taints : t.kind = "dlopen" /\ t.path = o
      BY <1>2
    <3> QED
      BY <3>3, <3>4
  <2> QED
    BY <2>3, <2>4 DEF inert
<1> QED
  BY <1>2, <1>3, <1>4, <1>6 DEF ThreatsAreSaid

\* Nothing that could have withheld a clean verdict goes unsaid, whatever the
\* image holds and the user asserts.
THEOREM ThreatsSaid == Spec => []ThreatsAreSaid
BY IInvThreats, SpecIInv, PTL

LEMMA IInvAbsence == IInv => AbsenceIsComplete
<1> SUFFICES ASSUME IInv, phase = "done", NEW pkg \in Packages, NEW sym \in Symbols,
                    Verdict(pkg, sym) = "dynsym-absent"
             PROVE  Opaque \subseteq Cleared(pkg, sym) /\ None \notin ToSet(scan.roots)
  BY DEF AbsenceIsComplete
<1> DEFINE blockers == Blockers(pkg, Cleared(pkg, sym))
<1>1. {t \in blockers : ThreatensPresence(t.kind)} = {}
  BY DEF Verdict
<1>2. \A t \in taints : t.kind = "static-elf" /\ t.blocking /\ t.global => t.path \in Cleared(pkg, sym)
  BY <1>1 DEF Blockers, ThreatensPresence
<1>3. \A t \in taints : ~(t.kind = "missing-root" /\ t.blocking /\ t.global)
  BY <1>1 DEF Blockers, ThreatensPresence
<1>4. Opaque \subseteq Cleared(pkg, sym)
  BY <1>2, OpaqueBlocks
<1>5. None \notin ToSet(scan.roots)
  BY <1>3 DEF IInv, UserRooted
<1> QED
  BY <1>4, <1>5

\* Code that is said to be absent is not hidden in a static program that runs,
\* whatever the image, the packages and the symbol check's answers.
THEOREM AbsenceComplete == Spec => []AbsenceIsComplete
BY IInvAbsence, SpecIInv, PTL

-----------------------------------------------------------------------------
(* What the linker and its callers may load                                *)

\* A dlopen caller that neither the user nor a taint has answered for.
Free(o) == o \in scan.dlopen /\ ~scan.dlopenAssumed /\ AssumedBy(o) = None

\* One more round of loading reaches nothing new from the closure.
LEMMA LoadStays ==
  ASSUME IInv, phase = "done", RPathsAreOwn, OneFamily,
         \A o \in seen : Free(o) => Bounded(o),
         NEW frames \in SUBSET [object : seen, rpath : Seq(RPathDirs)]
  PROVE  LoadFrom(frames) \subseteq [object : seen, rpath : Seq(RPathDirs)]
<1> DEFINE F == [object : seen, rpath : Seq(RPathDirs)]
           loaded == {f.object : f \in frames}
           chain(f) == {Frame(Leads(f.object, f.rpath, s), ChildRPath(f.object, f.rpath)) :
                          s \in {t \in ToSet(Elf[f.object].needed) : Leads(f.object, f.rpath, t) # None}}
           opened(o) == IF scan.redirected \/ PluginsOf[o] = {} THEN Objects ELSE PluginsOf[o]
           interps == {Frame(Elf[o].interp, <<>>) : o \in {x \in loaded : Elf[x].interp # None}}
           chains == UNION {chain(f) : f \in frames}
           plugins == {q \in Objects : \E l \in loaded : WaitsFor[q] # "" /\ WaitsFor[q] \in {"any", Loads[l]}}
           calls == UNION {opened(o) : o \in {x \in loaded : Free(x)}}
<1>1. TypeOK /\ ClosureIsClosed /\ PluginsKept /\ seen \subseteq Objects
  BY DoneIsClosed DEF IInv, TypeOK
<1>2. loaded \subseteq seen
  OBVIOUS
<1>3. \A o \in seen : Frame(o, <<>>) \in F
  BY EmptyList DEF Frame
<1>4. LoadFrom(frames) = frames \cup interps \cup chains \cup {Frame(p, <<>>) : p \in plugins}
                           \cup {Frame(p, <<>>) : p \in calls}
  BY DEF LoadFrom, Leads, Free
<1> HIDE DEF loaded, chain, opened
<1>5. \A o \in loaded : Elf[o].interp # None => Frame(Elf[o].interp, <<>>) \in F
  BY <1>1, <1>2, <1>3 DEF ClosureIsClosed
<1>6. ASSUME NEW f \in frames PROVE chain(f) \subseteq F
  <2> DEFINE o == f.object
             r == f.rpath
  <2>1. o \in seen /\ o \in Objects /\ r \in Seq(RPathDirs)
    BY <1>1
  <2>2. ChildRPath(o, r) \in Seq(RPathDirs)
    BY <1>1, <2>1, ChainTypes
  <2>3. PICK c \in Seq(RPathDirs) : \A s \in ToSet(Elf[o].needed) :
          IF Leads(o, c, s) = None THEN <<o, s>> \in missing ELSE Leads(o, c, s) \in seen
    BY <1>1, <2>1 DEF ClosureIsClosed
  <2> HIDE DEF o, r
  <2>4. ASSUME NEW s \in ToSet(Elf[o].needed), Leads(o, r, s) # None
        PROVE  Leads(o, r, s) \in seen
    <3>1. Leads(o, r, s) = Leads(o, c, s)
      BY <1>1, <2>1, AnyChain
    <3> QED
      BY <2>3, <2>4, <3>1
  <2>5. \A p \in seen, q \in Seq(RPathDirs) : Frame(p, q) \in F
    BY DEF Frame
  <2>6. chain(f) = {Frame(Leads(o, r, s), ChildRPath(o, r)) : s \in {t \in ToSet(Elf[o].needed) : Leads(o, r, t) # None}}
    BY DEF chain, o, r
  <2> HIDE DEF F
  <2> QED
    BY <2>2, <2>4, <2>5, <2>6
<1>7. ASSUME NEW q \in Objects, NEW l \in loaded, WaitsFor[q] # "", WaitsFor[q] \in {"any", Loads[l]}
      PROVE  q \in seen
  <2>1. WaitsFor[q] = "any" \/ Openable(q)
    BY <1>2, <1>7 DEF Openable
  <2> QED
    BY <1>1, <1>7, <2>1 DEF ClosureIsClosed
<1>8. ASSUME NEW o \in loaded, Free(o) PROVE opened(o) \subseteq seen
  <2>1. Bounded(o) /\ o \in Objects
    BY <1>1, <1>2, <1>8
  <2>2. PICK p \in PluginsOf[o] : ~scan.redirected /\ root[p] = "plugin"
    BY <2>1 DEF Bounded
  <2>3. PluginsOf[o] \subseteq Objects
    BY <2>1, ClosureAssumption
  <2>4. WaitsFor[p] = "any" \/ (WaitsFor[p] # "" /\ Openable(p))
    BY <1>1, <2>2, <2>3 DEF PluginsKept
  <2>5. \A q \in PluginsOf[o] : WaitsFor[q] = WaitsFor[p]
    BY <2>1, <2>2 DEF OneFamily
  <2>6. \A q \in PluginsOf[o] : WaitsFor[q] = "any" \/ (WaitsFor[q] # "" /\ Openable(q))
    BY <2>4, <2>5 DEF Openable
  <2>7. PluginsOf[o] \subseteq seen
    BY <1>1, <2>3, <2>6 DEF ClosureIsClosed
  <2> QED
    BY <2>2, <2>7 DEF opened
<1> HIDE DEF F
<1>9. frames \subseteq F
  BY DEF F
<1>10. interps \subseteq F
  BY <1>5
<1>11. chains \subseteq F
  BY <1>6
<1>12. plugins \subseteq seen
  BY <1>7
<1>13. calls \subseteq seen
  BY <1>8
<1> HIDE DEF interps, chains, plugins, calls
<1>14. LoadFrom(frames) \subseteq F
  BY <1>3, <1>4, <1>9, <1>10, <1>11, <1>12, <1>13
<1> QED
  BY <1>14 DEF F

\* Nor do all the rounds there are.
LEMMA LoadableStays ==
  ASSUME IInv, phase = "done", RPathsAreOwn, OneFamily,
         \A o \in seen : Free(o) => Bounded(o), NEW started \in SUBSET seen
  PROVE  Loadable(started) \subseteq seen
<1> DEFINE F == [object : seen, rpath : Seq(RPathDirs)]
           n == Len(Order)
           first == {Frame(o, <<>>) : o \in started}
           body(g, m) == [i \in 0..m |-> IF i = 0 THEN first ELSE LoadFrom(g[i - 1])]
           Solves(g, m) == g = body(g, m)
           G == {m \in Nat : \E g : Solves(g, m)}
<1>0. n \in Nat
  BY ClosureAssumption, LenProperties
<1> HIDE DEF first
<1>1. 0 \in G
  <2> DEFINE g == [i \in 0..0 |-> first]
  <2>1. Solves(g, 0)
    OBVIOUS
  <2> QED
    BY <2>1
<1>2. ASSUME NEW m \in Nat, m \in G PROVE m + 1 \in G
  <2>1. PICK g : Solves(g, m)
    BY <1>2
  <2> DEFINE h == [i \in 0..(m + 1) |-> IF i = m + 1 THEN LoadFrom(g[m]) ELSE g[i]]
  <2>2. \A i \in 0..m : g[i] = IF i = 0 THEN first ELSE LoadFrom(g[i - 1])
    BY <2>1
  <2>3. h[m + 1] = LoadFrom(g[m]) /\ \A i \in 0..m : h[i] = g[i]
    OBVIOUS
  <2>4. h = body(h, m + 1)
    <3> HIDE DEF h
    <3>0. h = [i \in 0..(m + 1) |-> h[i]]
      BY DEF h
    <3> SUFFICES ASSUME NEW i \in 0..(m + 1) PROVE h[i] = IF i = 0 THEN first ELSE LoadFrom(h[i - 1])
      BY <3>0
    <3>1. CASE i = m + 1
      <4>1. m \in 0..m /\ (m + 1) - 1 = m /\ m + 1 # 0
        OBVIOUS
      <4> QED
        BY <2>3, <3>1, <4>1
    <3>2. CASE i \in 0..m
      <4>1. i # 0 => i - 1 \in 0..m
        BY <3>2
      <4> QED
        BY <2>2, <2>3, <3>2, <4>1
    <3> QED
      BY <3>1, <3>2
  <2> HIDE DEF h
  <2>5. Solves(h, m + 1)
    BY <2>4
  <2> QED
    BY <2>5
<1> HIDE DEF G
<1>3. n \in G
  BY <1>0, <1>1, <1>2, NumberInduction
<1> USE DEF G
<1>4. PICK g : Solves(g, n)
  BY <1>3
<1> DEFINE round == CHOOSE f : f = body(f, n)
<1>5. round = body(round, n)
  <2> HIDE DEF body
  <2> QED
    BY <1>4
<1>6. Loadable(started) = {f.object : f \in round[n]}
  BY DEF Loadable, round, first
<1> HIDE DEF round
<1>7. \A i \in 0..n : round[i] = IF i = 0 THEN first ELSE LoadFrom(round[i - 1])
  BY <1>5
<1> DEFINE H == {j \in Nat : j \in 0..n => round[j] \subseteq F}
<1>8. 0 \in H
  <2>1. first \subseteq F
    <3>1. <<>> \in Seq(RPathDirs)
      BY EmptyList
    <3>2. \A o \in started : Frame(o, <<>>) \in F
      BY <3>1 DEF Frame
    <3> HIDE DEF F
    <3> QED
      BY <3>2 DEF first
  <2> QED
    BY <1>0, <1>7, <2>1
<1>9. ASSUME NEW j \in Nat, j \in H PROVE j + 1 \in H
  <2> SUFFICES ASSUME j + 1 \in 0..n PROVE round[j + 1] \subseteq F
    OBVIOUS
  <2>1. round[j] \subseteq F /\ round[j + 1] = LoadFrom(round[j])
    <3>1. j \in 0..n /\ j + 1 # 0 /\ (j + 1) - 1 = j
      BY <1>0
    <3> QED
      BY <1>7, <1>9, <3>1
  <2> QED
    BY <2>1, LoadStays
<1> HIDE DEF H
<1>10. n \in H
  BY <1>0, <1>8, <1>9, NumberInduction
<1>11. round[n] \subseteq F
  BY <1>0, <1>10 DEF H
<1> QED
  BY <1>6, <1>11

LEMMA IInvUnreachable == IInv /\ RPathsAreOwn /\ OneFamily => UnreachableIsUnloadable
<1> SUFFICES ASSUME IInv, RPathsAreOwn, OneFamily, phase = "done",
                    NEW pkg \in Packages, NEW sym \in Symbols, Verdict(pkg, sym) = "needed-closure"
             PROVE  pkg.objects \cap Loadable(Started) = {} /\ Opaque \subseteq Cleared(pkg, sym)
  BY DEF UnreachableIsUnloadable
<1>1. pkg.objects \cap seen = {} /\ Blockers(pkg, Cleared(pkg, sym)) = {}
  BY DEF Verdict
<1>2. \A t \in taints : t.blocking /\ t.global => t.kind = "static-elf" /\ t.path \in Cleared(pkg, sym)
  BY <1>1 DEF Blockers
<1>3. Opaque \subseteq Cleared(pkg, sym)
  BY <1>2, OpaqueBlocks
<1>4. ClosureIsClosed /\ Programs \subseteq Objects
  BY DoneIsClosed DEF Programs
<1>5. Started \subseteq seen
  <2>1. Named \subseteq seen
    BY <1>4 DEF ClosureIsClosed
  <2>2. ASSUME AnyProgram PROVE Programs \subseteq seen
    <3>1. None \notin ToSet(scan.roots)
      BY <1>2 DEF IInv, UserRooted
    <3>2. ~CommandKnown /\ ~Asserted => Programs \subseteq seen
      BY <1>4 DEF IInv, EntryRooted, Walking, ClosureIsClosed
    <3>3. CASE (\E o \in Named : scan.spawns[o] = "yes") /\ ~scan.execAssumed /\ (CommandKnown \/ Asserted)
      <4>1. PICK t \in taints : t.kind = "exec" /\ t.blocking /\ t.global
        BY <3>3 DEF IInv, Probed, Walking
      <4> QED
        BY <1>2, <4>1
    <3> QED
      BY <2>2, <3>1, <3>2, <3>3 DEF AnyProgram
  <2> QED
    BY <2>1, <2>2 DEF Started
<1>6. ASSUME NEW o \in seen, Free(o) PROVE Bounded(o)
  <2> DEFINE t == Taint("dlopen", o, None, ~DlopenAnswered(o), ~DlopenAnswered(o), DlopenAnswered(o))
  <2> SUFFICES ASSUME ~Bounded(o) PROVE FALSE
    OBVIOUS
  <2>1. ~DlopenAnswered(o)
    BY <1>6 DEF DlopenAnswered, Free
  <2>2. t \in taints
    BY <1>6 DEF IInv, Collected, Dlopens, Free
  <2>3. t.kind = "dlopen" /\ t.blocking = ~DlopenAnswered(o) /\ t.global = ~DlopenAnswered(o)
    BY DEF Taint
  <2> HIDE DEF t
  <2> QED
    BY <1>2, <2>1, <2>2, <2>3
<1>7. Loadable(Started) \subseteq seen
  BY <1>5, <1>6, LoadableStays
<1> QED
  BY <1>1, <1>3, <1>7

\* A package is not in the execute path only if no process of the image can
\* load one of its objects and no program that runs may carry its code: for
\* every image whose DT_RPATHs are its objects' own and whose plugin directories
\* each hold plugins of one family, which is what the walk relies on.
THEOREM UnreachableUnloadable ==
  RPathsAreOwn /\ OneFamily => (Spec => []UnreachableIsUnloadable)
<1> SUFFICES ASSUME RPathsAreOwn, OneFamily PROVE Spec => []UnreachableIsUnloadable
  OBVIOUS
<1>1. IInv => UnreachableIsUnloadable
  BY IInvUnreachable
<1> QED
  BY <1>1, SpecIInv, PTL
=============================================================================
