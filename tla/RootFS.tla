-------------------------------- MODULE RootFS --------------------------------
(***************************************************************************)
(* target.RootFS: how a path of the scanned tree is resolved, and what a   *)
(* walk sees of it.  A tree is a function from paths to nodes, a path the  *)
(* sequence of its names; the root is <<>>, always a directory, and not in *)
(* the function's domain.                                                  *)
(***************************************************************************)
EXTENDS Naturals, Sequences, SequencesExt, Functions

CONSTANTS
  Names,          \* names of directory entries
  MaxSymlinkHops  \* links followed before a path is called a loop (64)

Up == ".."

ASSUME RootFSAssumption == MaxSymlinkHops \in Nat /\ Up \notin Names

Dir == [kind |-> "dir"]
File(data) == [kind |-> "file", data |-> data]
Link(abs, to) == [kind |-> "link", abs |-> abs, to |-> to]

IsKind(t, p, kind) == p \in DOMAIN t /\ t[p].kind = kind
IsDir(t, p) == p = <<>> \/ IsKind(t, p, "dir")

\* What a directory entry may be, of files with the contents data.
Nodes(data) ==
  [kind : {"dir"}] \cup [kind : {"file"}, data : data]
  \cup [kind : {"link"}, abs : BOOLEAN, to : Seq(Names \cup {Up})]

\* What a node lies in is a directory.
IsTree(t, data) ==
  /\ t \in [DOMAIN t -> Nodes(data)] /\ DOMAIN t \subseteq Seq(Names) \ {<<>>}
  /\ \A p \in DOMAIN t : IsDir(t, Front(p))

\* t with the node at those of the paths where t has none.
With(t, paths, node) == [q \in DOMAIN t \cup paths |-> IF q \in DOMAIN t THEN t[q] ELSE node]

\* The paths of t at and below p.
Subtree(t, p) == {q \in DOMAIN t \cup {<<>>} : IsPrefix(p, q)}

\* path.Clean: ".." takes away the name before it as text, link or not, and
\* stays in front of a relative path.
Cleaned(abs, before, c) ==
  IF c # Up THEN Append(before, c)
  ELSE IF before # <<>> /\ Last(before) # Up THEN Front(before)
  ELSE IF abs THEN before ELSE Append(before, Up)

Clean(abs, to) ==
  LET out[n \in 0..Len(to)] == IF n = 0 THEN <<>> ELSE Cleaned(abs, out[n - 1], to[n])
  IN out[Len(to)]

\* The link's text is joined to the path and taken as it is.
FollowedAsText(t, s, link) ==
  [resolved |-> Clean(TRUE, (IF link.abs THEN <<>> ELSE s.resolved) \o link.to),
   rest |-> Tail(s.rest), hops |-> s.hops + 1]

\* One turn of Resolve's loop: a name that is a link is replaced by its text,
\* whose names are looked at in their turn.
Followed(t, s, link) ==
  [resolved |-> IF link.abs THEN <<>> ELSE s.resolved,
   rest |-> Clean(link.abs, link.to) \o Tail(s.rest), hops |-> s.hops + 1]

Turn(t, s) ==
  LET c == Head(s.rest)
      candidate == Append(s.resolved, c)
  IN IF c = Up
     THEN [s EXCEPT !.resolved = IF @ = <<>> THEN <<>> ELSE Front(@), !.rest = Tail(@)]
     ELSE IF IsKind(t, candidate, "link") THEN Followed(t, s, t[candidate])
     ELSE [s EXCEPT !.resolved = candidate, !.rest = Tail(@)]

Cursor == [resolved : Seq(Names), rest : Seq(Names \cup {Up}), hops : Nat]

\* The place in the tree that name leads to, {} for a loop.
Resolve(t, name) ==
  LET run[s \in Cursor] ==
        IF s.hops > MaxSymlinkHops THEN {}
        ELSE IF s.rest = <<>> THEN {s.resolved} ELSE run[Turn(t, s)]
  IN run[[resolved |-> <<>>, rest |-> name, hops |-> 0]]

\* The last name is followed too.
ResolveAll(t, name) == Resolve(t, name)

\* The same without following the last name.
ResolveParent(t, name) ==
  IF name = <<>> THEN {name}
  ELSE {Append(parent, Last(name)) : parent \in Resolve(t, Front(name))}

-----------------------------------------------------------------------------
\* What a user without all rights sees: denied holds the pairs <<directory,
\* right>> that are missing, "r" to list it and "x" to reach what is in it.

Above(p) == {SubSeq(p, 1, n) : n \in 0..(Len(p) - 1)}
Searchable(denied, p) == \A q \in Above(p) : <<q, "x">> \notin denied
Listable(denied, p) == Searchable(denied, p) /\ <<p, "r">> \notin denied

\* lstat's view: what lies under an unsearchable directory is not found.
Found(t, denied) == Restrict(t, {p \in DOMAIN t : Searchable(denied, p)})

\* The places a walk from host calls its function for: WalkDir lists every
\* directory it was able to open on the way down.
Visited(t, denied, host) ==
  IF ~Searchable(denied, host) THEN {}
  ELSE {q \in Subtree(t, host) :
          \A d \in Above(q) : IsPrefix(host, d) => Listable(denied, d)}

\* The place q below host by the name it has under the walk's base.
TreeName(base, host, q) == base \o SubSeq(q, Len(host) + 1, Len(q))

\* A start that cannot be looked at is taken for an absent one.
GapsBelow(t, denied, base, host) ==
  {TreeName(base, host, q) : q \in {d \in Visited(t, denied, host) :
                                       IsDir(t, d) /\ ~Listable(denied, d)}}

\* What the walk notes: directories that would not list, and its own start if
\* that could not be looked at; a start that is simply absent is no gap.
Gaps(t, denied, base, host) ==
  {TreeName(base, host, q) : q \in {d \in Visited(t, denied, host) :
                                       IsDir(t, d) /\ ~Listable(denied, d)}}
  \cup (IF Searchable(denied, host) THEN {} ELSE {base})
===============================================================================
