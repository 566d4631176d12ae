---------------------------- MODULE VersionOrders ----------------------------
(***************************************************************************)
(* The version comparators of the offline match: rpm (internal/rpmver),    *)
(* dpkg (internal/debver), apk (internal/apkver), PEP 440                  *)
(* (internal/pep440) and Maven (internal/mavenver).  Each answers -1, 0 or *)
(* 1.  Versions are sequences of the tokens the code cuts the string into; *)
(* a word is the ordinal of its place among the words, and the separators  *)
(* that only cut are left out.                                             *)
(***************************************************************************)
EXTENDS Integers, Sequences, SequencesExt, FiniteSets

CONSTANTS
  MaxInt,   \* the largest number the machine holds
  Invalid   \* a version its ecosystem cannot read

ASSUME MaxIntAssumption == MaxInt \in Nat

Sign(n) == CASE n < 0 -> -1 [] n = 0 -> 0 [] n > 0 -> 1
\* The first place that decides.
Decision(places) == LET i == SelectInSeq(places, LAMBDA c : c # 0) IN IF i = 0 THEN 0 ELSE places[i]
Longer(s, t) == IF Len(s) > Len(t) THEN Len(s) ELSE Len(t)

Num(n) == [k |-> "num", n |-> n]
Word(n) == [k |-> "word", n |-> n]
Mark(k) == [k |-> k, n |-> 0]
End == Mark("end")
TokenAt(s, i) == IF i <= Len(s) THEN s[i] ELSE End
-----------------------------------------------------------------------------
(* rpm: [epoch (NoEpoch), version, release (empty for none)].              *)
NoEpoch == -1

\* One turn of the loop of rpmvercmp.
RpmTurn(x, y) ==
  CASE "tilde" \in {x.k, y.k} -> IF x.k # "tilde" THEN 1 ELSE IF y.k # "tilde" THEN -1 ELSE 0
    [] "tilde" \notin {x.k, y.k} /\ "caret" \in {x.k, y.k} ->
         IF x = End THEN -1 ELSE IF y = End THEN 1 ELSE IF x.k # "caret" THEN 1 ELSE IF y.k # "caret" THEN -1 ELSE 0
    [] {"tilde", "caret"} \cap {x.k, y.k} = {} /\ End \in {x, y} ->
         IF x = y THEN 0 ELSE IF y = End THEN 1 ELSE -1
    [] OTHER -> IF x.k # y.k THEN (IF x.k = "num" THEN 1 ELSE -1) ELSE Sign(x.n - y.n)
Rpmvercmp(s, t) == Decision([i \in 1..Longer(s, t) |-> RpmTurn(TokenAt(s, i), TokenAt(t, i))])

\* An epoch only one side states orders that side below, unless it is 0.
RpmEpochs(a, b) ==
  CASE a.epoch # NoEpoch /\ b.epoch # NoEpoch -> Sign(a.epoch - b.epoch)
    [] a.epoch # NoEpoch /\ b.epoch = NoEpoch -> IF a.epoch # 0 THEN -1 ELSE 0
    [] a.epoch = NoEpoch /\ b.epoch # NoEpoch -> IF b.epoch # 0 THEN 1 ELSE 0
    [] OTHER -> 0
RpmCompare(a, b) ==
  Decision(<<RpmEpochs(a, b), Rpmvercmp(a.version, b.version),
             IF a.release = <<>> \/ b.release = <<>> THEN 0 ELSE Rpmvercmp(a.release, b.release)>>)
-----------------------------------------------------------------------------
(* dpkg: [epoch, upstream, revision]; a token that is no number is one     *)
(* character: Tilde, or a letter, or another by its code.                  *)
Tilde == [k |-> "char", n |-> -1]
Char(n) == [k |-> "char", n |-> n]
DebOrder(x) == IF x.k = "char" THEN x.n ELSE 0
\* A character is compared with nothing as with a digit, and no digits at
\* all are a zero.
DebTurn(x, y) == IF "char" \in {x.k, y.k} THEN Sign(DebOrder(x) - DebOrder(y)) ELSE Sign(x.n - y.n)

Verrevcmp(s, t) == Decision([i \in 1..Longer(s, t) |-> DebTurn(TokenAt(s, i), TokenAt(t, i))])
DebCompare(a, b) ==
  Decision(<<Sign(a.epoch - b.epoch), Verrevcmp(a.upstream, b.upstream), Verrevcmp(a.revision, b.revision)>>)
-----------------------------------------------------------------------------
(* apk: lexemes [k, n, zero], zero for digits that begin with one (n is    *)
(* then their place among the digit strings, below every other).           *)
Lexeme(k, n) == [k |-> k, n |-> n, zero |-> FALSE]
Padded(k, n) == [k |-> k, n |-> n, zero |-> TRUE]
KindInitialDigit == 0
KindDigit == 1
KindLetter == 2
KindSuffix == 3
KindSuffixNo == 4
KindCommitHash == 5
KindRevisionNo == 6
KindEnd == 7
KindInvalid == 8
SuffixNone == 5   \* alpha, beta, pre and rc are below it

\* What the next lexeme is, after one of a kind.
KindAfter(kind, lex) ==
  CASE lex.k = "letter" /\ kind <= KindDigit -> KindLetter
    [] lex.k \in {"dot", "digits"} /\ kind <= KindDigit -> KindDigit
    [] lex.k = "digits" /\ kind = KindSuffix -> KindSuffixNo
    [] lex.k = "suffix" /\ kind <= KindSuffixNo -> KindSuffix
    [] lex.k = "hash" /\ kind < KindCommitHash -> KindCommitHash
    [] lex.k = "rev" /\ kind < KindRevisionNo -> KindRevisionNo
    [] OTHER -> KindInvalid
FirstKind(s) == IF s # <<>> /\ s[1].k = "digits" THEN KindInitialDigit ELSE KindInvalid
NextKind(s, kind, i) == IF kind >= KindEnd THEN kind ELSE IF i > Len(s) THEN KindEnd ELSE KindAfter(kind, s[i])
KindAt(s, i) ==
  LET kind[n \in 1..i] == IF n = 1 THEN FirstKind(s) ELSE NextKind(s, kind[n - 1], n)
  IN kind[i]
ApkValid(s) == KindAt(s, Len(s) + 1) = KindEnd

\* Digits after the first are compared as text once either begins with zero.
ApkTurn(kind, x, y) ==
  IF kind = KindDigit /\ (x.zero # y.zero) THEN (IF x.zero THEN -1 ELSE 1) ELSE Sign(x.n - y.n)
\* Where the kinds part: a suffix below the release is below; else what goes
\* on longer is above.
ApkParted(j, x, k, y) ==
  CASE j = k -> 0
    [] j # k /\ j = KindSuffix /\ x.n < SuffixNone -> -1
    [] j # k /\ ~(j = KindSuffix /\ x.n < SuffixNone) /\ k = KindSuffix /\ y.n < SuffixNone -> 1
    [] OTHER -> Sign(k - j)
ApkPlace(s, t, i) ==
  LET j == KindAt(s, i)
      k == KindAt(t, i)
      x == IF i <= Len(s) THEN s[i] ELSE Lexeme("end", 0)
      y == IF i <= Len(t) THEN t[i] ELSE Lexeme("end", 0)
  IN IF j = k /\ j < KindEnd THEN ApkTurn(j, x, y) ELSE ApkParted(j, x, k, y)
ApkCompare(s, t) == Decision([i \in 1..Longer(s, t) + 1 |-> ApkPlace(s, t, i)])
-----------------------------------------------------------------------------
(* PEP 440: [epoch, release, pre, post, dev, local], Absent where one is   *)
(* left out; pre is <<letter, number>>, a local segment Num or Word.       *)
Absent == <<>>
Saturating(n) == IF n > MaxInt THEN MaxInt ELSE n
\* Trailing zeros of a release are dropped, all but the first component.
Trimmed(release) ==
  LET kept == {i \in DOMAIN release : i = 1 \/ release[i] # 0}
  IN SubSeq(release, 1, CHOOSE i \in kept : \A j \in kept : j <= i)
PreRank(v) == IF v.pre # Absent THEN 0 ELSE IF v.dev # Absent /\ v.post = Absent THEN -1 ELSE 1
RankOr(n, absent) == IF n = Absent THEN absent ELSE Saturating(n[1])
CompareRelease(r, q) ==
  Decision([i \in 1..Longer(r, q) |-> Sign(Saturating(IF i <= Len(r) THEN r[i] ELSE 0) - Saturating(IF i <= Len(q) THEN q[i] ELSE 0))])
ComparePre(a, b) ==
  IF PreRank(a) # PreRank(b) THEN Sign(PreRank(a) - PreRank(b))
  ELSE IF PreRank(a) # 0 THEN 0
  ELSE Decision(<<Sign(a.pre[1] - b.pre[1]), Sign(Saturating(a.pre[2]) - Saturating(b.pre[2]))>>)
LocalPlace(x, y) == IF x.k # y.k THEN (IF x.k = "num" THEN 1 ELSE -1) ELSE Sign(x.n - y.n)
CompareLocal(l, m) ==
  LET common == IF Len(l) < Len(m) THEN Len(l) ELSE Len(m)
  IN IF common = 0 THEN Sign(Len(l) - Len(m))
     ELSE Decision([i \in 1..common |-> LocalPlace(l[i], m[i])] \o <<Sign(Len(l) - Len(m))>>)
PepCompare(a, b) ==
  Decision(<<Sign(Saturating(a.epoch) - Saturating(b.epoch)), CompareRelease(Trimmed(a.release), Trimmed(b.release)),
             ComparePre(a, b), Sign(RankOr(a.post, -1) - RankOr(b.post, -1)),
             Sign(RankOr(a.dev, MaxInt) - RankOr(b.dev, MaxInt)), CompareLocal(a.local, b.local)>>)
-----------------------------------------------------------------------------
(* Maven: num, word, dot and dash tokens, cut into lists each of which is  *)
(* the last item of the one before; a version is the sequence of what the  *)
(* lists hold besides.  A word is the name of a qualifier.                 *)
Qualifiers == <<"alpha", "beta", "milestone", "rc", "snapshot", "", "sp">>
ReleaseRank == 6
Qualifier(q) == [k |-> "word", q |-> q]
Dot == Mark("dot")
Dash == Mark("dash")
\* One that is not known comes after every one that is, by its name.
RankOf(item) == LET at == SelectInSeq(Qualifiers, LAMBDA q : q = item.q)
                IN IF at # 0 THEN at ELSE Len(Qualifiers) + (IF item.q = "foo" THEN 1 ELSE 2)

Shorthand == [a |-> "alpha", b |-> "beta", m |-> "milestone"]
Alias == [ga |-> "", final |-> "", release |-> "", cr |-> "rc"]
\* A single letter stands for a qualifier only before a digit.
StringItem(word, beforeDigit) ==
  LET q == IF beforeDigit /\ word.q \in DOMAIN Shorthand THEN Shorthand[word.q] ELSE word.q
  IN Qualifier(IF q \in DOMAIN Alias THEN Alias[q] ELSE q)

Added(lists, item) == [lists EXCEPT ![Len(lists)] = Append(@, item)]
Pushed(lists) == Append(lists, <<>>)
PushedIfAny(lists) == IF Last(lists) = <<>> THEN lists ELSE Pushed(lists)
Separator(token) == token.k \in {"dot", "dash"}

\* What a token adds once the next one is seen: nothing before a separator is
\* a zero, and a list opens at a dash, between digits and letters, and before
\* the letters that end a version.
Cut(tokens, lists, i) ==
  LET token == tokens[i]
      next == TokenAt(tokens, i + 1)
      empty == i = 1 \/ Separator(tokens[i - 1])
      filled == IF empty THEN Added(lists, Num(0)) ELSE lists
  IN CASE token.k = "dot" -> filled
       [] token.k = "dash" -> Pushed(filled)
       [] token.k = "num" -> IF next.k = "word" THEN Pushed(Added(lists, token)) ELSE Added(lists, token)
       [] token.k = "word" /\ next.k = "num" -> Pushed(Added(PushedIfAny(lists), StringItem(token, TRUE)))
       [] token.k = "word" /\ next = End -> Added(PushedIfAny(lists), StringItem(token, FALSE))
       [] OTHER -> Added(lists, StringItem(token, FALSE))

\* normalize: nulls at the end of a list are dropped, and lists left empty at
\* the end of the version.
IsNull(item) == IF item.k = "num" THEN item.n = 0 ELSE RankOf(item) = ReleaseRank
Stripped(list) == LET solid == {i \in DOMAIN list : ~IsNull(list[i])}
                  IN IF solid = {} THEN <<>> ELSE SubSeq(list, 1, CHOOSE i \in solid : \A j \in solid : j <= i)
MavenParse(tokens) ==
  LET lists == FoldLeft(LAMBDA l, i : Cut(tokens, l, i), <<<<>>>>, [i \in DOMAIN tokens |-> i])
      solid == {k \in DOMAIN lists : k = 1 \/ Stripped(lists[k]) # <<>>}
  IN [k \in 1..(CHOOSE k \in solid : \A j \in solid : j <= k) |-> Stripped(lists[k])]
MavenValid(tokens) == tokens # <<>> /\ tokens[1].k = "num"

\* cmp: an item against nothing, and against another.
VsNothing(item) == IF item.k = "num" THEN Sign(item.n) ELSE Sign(RankOf(item) - ReleaseRank)
KindRank(x) == CASE x.k = "word" -> 0 [] x.k = "list" -> 1 [] x.k = "num" -> 2

\* Fault: the answer for nothing against an item is not inverted.
ItemTurnUninverted(x, y) ==
  CASE x = End \/ y = End -> IF x = y THEN 0 ELSE VsNothing(IF x = End THEN y ELSE x)
    [] ~(x = End \/ y = End) /\ x.k # y.k -> Sign(KindRank(x) - KindRank(y))
    [] ~(x = End \/ y = End) /\ x.k = y.k ->
         IF x.k = "num" THEN Sign(x.n - y.n) ELSE IF x.k = "word" THEN Sign(RankOf(x) - RankOf(y)) ELSE 0

ItemTurn(x, y) ==
  CASE x = End /\ y = End -> 0
    [] x = End /\ y # End -> -VsNothing(y)
    [] x # End /\ y = End -> VsNothing(x)
    [] x # End /\ y # End /\ x.k # y.k -> Sign(KindRank(x) - KindRank(y))
    [] x # End /\ y # End /\ x.k = y.k ->
         IF x.k = "num" THEN Sign(x.n - y.n) ELSE IF x.k = "word" THEN Sign(RankOf(x) - RankOf(y)) ELSE 0

\* A list, against nothing, is its first item that is anything.
VsNoList(lists, k) == LET items == FlattenSeq(SubSeq(lists, k, Len(lists))) IN Decision([i \in DOMAIN items |-> VsNothing(items[i])])
List == Mark("list")
ItemsOf(lists, k) == lists[k] \o (IF k < Len(lists) THEN <<List>> ELSE <<>>)
ListTurn(l, m, k) ==
  LET a == ItemsOf(l, k)
      b == ItemsOf(m, k)
      turn(x, y) == IF x = List /\ y = End THEN VsNoList(l, k + 1)
                    ELSE IF x = End /\ y = List THEN -VsNoList(m, k + 1) ELSE ItemTurn(x, y)
  IN Decision([i \in 1..Longer(a, b) |-> turn(TokenAt(a, i), TokenAt(b, i))])
\* Lists that are last in both go on to the lists inside them.
MavenCompare(s, t) ==
  LET l == MavenParse(s)
      m == MavenParse(t)
      depth == IF Len(l) < Len(m) THEN Len(l) ELSE Len(m)
  IN Decision([k \in 1..depth |-> ListTurn(l, m, k)])
-----------------------------------------------------------------------------
(* osv/compare.go: the comparator of an ecosystem, and what it can order.  *)
Orders(eco, v) ==
  /\ v # Invalid
  /\ eco = "Alpine" => ApkValid(v)
  /\ eco = "Maven" => MavenValid(v)
Compare(eco, a, b) ==
  CASE eco = "Red Hat" -> RpmCompare(a, b)
    [] eco = "Debian" -> DebCompare(a, b)
    [] eco = "Alpine" -> ApkCompare(a, b)
    [] eco = "PyPI" -> PepCompare(a, b)
    [] eco = "Maven" -> MavenCompare(a, b)
=============================================================================
