----------------------------- MODULE MCVersions -----------------------------
(***************************************************************************)
(* Eight or nine versions of each ecosystem, one for each rule of its      *)
(* comparator, in every range of one introduced event and one that closes  *)
(* it, listed in either order, and in ranges of three events.              *)
(***************************************************************************)
EXTENDS VersionOrders, RangeSweep

Rpm(epoch, version) == [epoch |-> epoch, version |-> version, release |-> <<Num(1)>>]
RpmBare(version) == [epoch |-> NoEpoch, version |-> version, release |-> <<>>]
\* 1, 1.1, 1.a, 1~, 1^, 1^1, 1~^, 2 and 1:1: all state an epoch and a release;
\* and four that state neither.
RpmVersions ==
  {Rpm(0, v) : v \in {<<Num(1)>>, <<Num(1), Num(1)>>, <<Num(1), Word(1)>>, <<Num(1), Mark("tilde")>>,
                      <<Num(1), Mark("caret")>>, <<Num(1), Mark("caret"), Num(1)>>, <<Num(1), Mark("tilde"), Mark("caret")>>}}
  \cup {Rpm(1, <<Num(1)>>)}
RpmBareVersions == {RpmBare(v) : v \in {<<Num(1)>>, <<Num(1), Num(0)>>, <<Num(1), Mark("caret")>>, <<Word(1)>>}}

Deb(epoch, upstream, revision) == [epoch |-> epoch, upstream |-> upstream, revision |-> revision]
Period == Char(302)
Letter == Char(97)
\* 1, 1.0, 1., 1~, 1~~, 1a, 1+, 1-0, 1-1 and 1:1.
DebVersions ==
  {Deb(0, u, <<>>) : u \in {<<Num(1)>>, <<Num(1), Period, Num(0)>>, <<Num(1), Period>>, <<Num(1), Tilde>>,
                            <<Num(1), Tilde, Tilde>>, <<Num(1), Letter>>}}
  \cup {Deb(0, <<Num(1)>>, <<Num(0)>>), Deb(0, <<Num(1)>>, <<Num(1)>>), Deb(1, <<Num(1)>>, <<>>)}

Digits(n) == Lexeme("digits", n)
\* 1, 1.1, 1.01, 1.10, 1a, 1_rc, 1_rc1, 1_p, 1-r1, and what does not parse.
ApkVersions ==
  {<<Digits(1)>> \o rest : rest \in
     {<<>>, <<Lexeme("dot", 1)>>, <<Padded("dot", 2)>>, <<Lexeme("dot", 10)>>, <<Lexeme("letter", 1)>>,
      <<Lexeme("suffix", 4)>>, <<Lexeme("suffix", 4), Digits(1)>>, <<Lexeme("suffix", 10)>>, <<Lexeme("rev", 1)>>,
      <<Lexeme("letter", 1), Lexeme("dot", 1)>>}}

Pep(release, pre, post, dev, local) == [epoch |-> 0, release |-> release, pre |-> pre, post |-> post, dev |-> dev, local |-> local]
\* 1, 1.0.0, 1.0.1, 1a1, 1.dev1, 1a1.dev1, 1.post1.dev1, 1.post1, 1+1.a, and a
\* development release past the largest number.
PepVersions ==
  {Pep(<<1>>, Absent, Absent, Absent, <<>>), Pep(<<1, 0, 0>>, Absent, Absent, Absent, <<>>), Pep(<<1, 0, 1>>, Absent, Absent, Absent, <<>>),
   Pep(<<1>>, <<1, 1>>, Absent, Absent, <<>>), Pep(<<1>>, Absent, Absent, <<1>>, <<>>), Pep(<<1>>, <<1, 1>>, Absent, <<1>>, <<>>),
   Pep(<<1>>, Absent, <<1>>, <<1>>, <<>>), Pep(<<1>>, Absent, <<1>>, Absent, <<>>), Pep(<<1>>, Absent, Absent, Absent, <<Num(1), Word(1)>>),
   Pep(<<1>>, <<1, 1>>, Absent, <<MaxInt + 1>>, <<>>), Invalid}

\* 1, 1.0, 1-1, 1.1, 1-rc, 1rc1, 1a1, 1-foo, 1-sp, 1.ga, 1.0-1 and a word.
MavenVersions ==
  {<<Num(1)>> \o rest : rest \in
     {<<>>, <<Dot, Num(0)>>, <<Dash, Num(1)>>, <<Dot, Num(1)>>, <<Dash, Qualifier("rc")>>, <<Qualifier("rc"), Num(1)>>,
      <<Qualifier("a"), Num(1)>>, <<Dash, Qualifier("foo")>>, <<Dot, Qualifier("ga")>>, <<Dot, Num(0), Dash, Num(1)>>}}
  \cup {<<Qualifier("foo")>>}

Event(kind, at) == [kind |-> kind, at |-> at]
Opening(V) == {<<Event(Introduced, a), Event(Fixed, b)>> : a \in V \cup {Zero}, b \in V}
\* Every order of an introduced event and one that closes it, and three events.
Listings(V) ==
  {<<Event(k, b), Event(Introduced, a)>> : a \in V \cup {Zero}, k \in {Fixed, LastAffected}, b \in V}
  \cup {<<Event(Introduced, a), Event(Introduced, Zero), Event(Fixed, b)>> : a \in V, b \in V}
CasesOf(eco, V, listings) ==
  LET readable == {v \in V : Orders(eco, v)}
  IN [version : V, listing : listings, readable : {readable},
      order : {[a \in readable |-> [b \in readable |-> Compare(eco, a, b)]]}]
MCCases ==
  LET versions == <<<<"Red Hat", RpmVersions>>, <<"Red Hat", RpmBareVersions>>, <<"Alpine", ApkVersions>>, <<"PyPI", PepVersions>>,
                    <<"Maven", MavenVersions>>, <<"Debian", DebVersions>>>>
  IN UNION {CasesOf(e[1], e[2], Opening(e[2]) \cup IF e[1] = "Debian" THEN Listings(e[2]) ELSE {}) : e \in ToSet(versions)}
=============================================================================
