----------------------------- MODULE ImageLayers ------------------------------
(***************************************************************************)
(* The tree a scan reads: image.ExtractSource flattens an image's layers   *)
(* into a directory, or the user names a root file system that exists; the *)
(* analyzers then walk it, and DirFS accounts for what no walk could read. *)
(* What a layer's tar entry is: a record [type, path, data, abs, to], with *)
(* data for a file, abs and to for the target of a link.                   *)
(***************************************************************************)
EXTENDS RootFS, FiniteSets, FiniteSetsExt

CONSTANTS
  Layers,        \* layers that images are made of, sequences of entries
  MaxLayers,     \* layers of an image (bound)
  SizeOf,        \* SizeOf[d]: bytes of the file content d
  MaxImageBytes, \* budget of bytes for a whole image
  RootTrees,     \* trees of a root file system the user had
  DeniedSets,    \* rights its user may lack
  Bases,         \* paths that analyzers walk
  MaxWalks,      \* walks of a user's root file system (bound)
  MaxImageWalks, \* walks of an image, whose directories are all readable (bound)
  Nothing        \* content of a file that was created and not written

Contents == DOMAIN SizeOf

EntryType ==
  [type : {"dir", "file", "link", "hard", "white", "opaque", "other"}, path : Seq(Names),
   data : Contents, abs : BOOLEAN, to : Seq(Names \cup {Up})]

ASSUME LayersAssumption ==
  /\ Layers \subseteq Seq(EntryType)
  /\ MaxLayers \in Nat /\ MaxImageBytes \in Nat /\ MaxWalks \in Nat /\ MaxImageWalks \in Nat
  /\ SizeOf \in [Contents -> Nat]
  /\ Nothing \notin Contents
  /\ \A t \in RootTrees : IsTree(t, Contents)
  /\ Bases \subseteq Seq(Names)

VARIABLES
  tree,    \* the directory's contents
  status,  \* "layers", "entries", "failed" or "ready"
  left,    \* layers of the manifest not looked at yet
  layer,   \* entries of the current layer not read yet
  budget,  \* bytes that may still be written
  applied, \* history: the layers extracted so far, in order
  spoiled, \* history: some write failed
  denied,  \* rights the user of a root file system lacks
  seen,    \* DirFS.seen: names that could not be read
  walked   \* history: walked[b] is what the walk of b visited

vars == <<tree, status, left, layer, budget, applied, spoiled, denied, seen, walked>>
image == <<left, layer, budget, applied, spoiled>>
account == <<denied, seen, walked>>

NoPaths == [p \in {} |-> {}]

InitImage ==
  /\ status = "layers" /\ left \in 0..MaxLayers
  /\ tree = NoPaths /\ denied = {}

InitRoot ==
  /\ status = "ready" /\ left = 0
  /\ tree \in RootTrees /\ denied \in DeniedSets

Init ==
  /\ InitImage \/ InitRoot
  /\ layer = <<>> /\ budget = MaxImageBytes
  /\ applied = <<>> /\ spoiled = FALSE
  /\ seen = {} /\ walked = NoPaths

-----------------------------------------------------------------------------
\* Changes to the tree.  A change that the file system refuses is {}.

RemoveAll(t, p) == Restrict(t, {q \in DOMAIN t : ~IsPrefix(p, q)})

ClearDir(t, p) ==
  IF IsDir(t, p) THEN Restrict(t, {q \in DOMAIN t : ~IsStrictPrefix(p, q)}) ELSE t

MkdirAll(t, p) ==
  LET chain == (Above(p) \cup {p}) \ {<<>>}
  IN IF \E q \in chain \cap DOMAIN t : t[q].kind # "dir" THEN {}
     ELSE {With(t, chain, Dir)}

\* makeDir: a directory stays, anything else of the name goes.
MakeDir(t, p) ==
  MkdirAll(IF p \in DOMAIN t /\ ~IsDir(t, p) THEN RemoveAll(t, p) ELSE t, p)

\* replaceExisting, and then the new node.
Put(t, p, node) ==
  {With(RemoveAll(u, p), {p}, node) : u \in MkdirAll(t, Front(p))}

\* writeHardlink.  A link to a directory is refused; the copy that is tried
\* next creates a file it cannot fill.  A name linked to itself, or to what is
\* below it, is gone by then: it was removed to make way.
Hardlink(t, src, dst) ==
  LET cleared == {RemoveAll(u, dst) : u \in MkdirAll(t, Front(dst))}
  IN {IF src \notin DOMAIN u THEN u
      ELSE With(u, {dst}, IF IsDir(u, src) THEN File(Nothing) ELSE u[src]) : u \in cleared}

\* From whichever of the sources is there.
HardlinkFrom(t, srcs, dst) == UNION {Hardlink(t, src, dst) : src \in srcs \cap DOMAIN t}

\* The tree after one entry, without what the file system refuses: untar's
\* switch.  A skipped entry leaves the tree as it is.
Placed(t, e) ==
  LET dsts == ResolveParent(t, e.path)
  IN CASE e.type = "opaque" -> {ClearDir(t, p) : p \in Resolve(t, e.path)}
       [] e.type = "white" -> {RemoveAll(t, p) : p \in dsts}
       [] e.type = "dir" -> UNION {MakeDir(t, p) : p \in dsts}
       [] e.type = "file" -> UNION {Put(t, p, File(e.data)) : p \in dsts}
       [] e.type = "link" -> UNION {Put(t, p, Link(e.abs, e.to)) : p \in dsts}
       [] e.type = "hard" -> UNION {HardlinkFrom(t, ResolveParent(t, Clean(TRUE, e.to)), p) : p \in dsts}
       [] OTHER -> {}

\* "./" names the directory itself and is skipped; an opaque marker at the
\* root is not that name.
Extract(t, e) ==
  IF e.path = <<>> /\ e.type # "opaque" THEN {} ELSE Placed(t, e)

-----------------------------------------------------------------------------
\* A layer's blob that is not there is passed over.
MissingLayer ==
  /\ status = "layers" /\ left > 0
  /\ left' = left - 1
  /\ UNCHANGED <<tree, status, layer, budget, applied, spoiled, account>>

BeginLayer ==
  /\ status = "layers" /\ left > 0
  /\ \E l \in Layers : layer' = l /\ applied' = Append(applied, l)
  /\ status' = "entries" /\ left' = left - 1
  /\ UNCHANGED <<tree, budget, spoiled, account>>

\* What writing e takes from the budget; a hard link takes nothing when the
\* file system makes one, and what a copy takes when it will not.
Costs(t, e) ==
  LET copied == {src \in ResolveParent(t, Clean(TRUE, e.to)) :
                   IsKind(t, src, "file") /\ t[src].data # Nothing}
  IN IF Extract(t, e) = {} THEN {0}
     ELSE CASE e.type = "file" -> {SizeOf[e.data]}
            [] e.type = "hard" -> {0} \cup {SizeOf[t[src].data] : src \in copied}
            [] OTHER -> {0}

Outcomes(t, e) == IF Extract(t, e) = {} THEN {t} ELSE Extract(t, e)

ReadEntry ==
  /\ status = "entries" /\ layer # <<>>
  /\ \E cost \in Costs(tree, Head(layer)) :
       /\ cost <= budget
       /\ budget' = budget - cost
  /\ tree' \in Outcomes(tree, Head(layer))
  /\ layer' = Tail(layer)
  /\ UNCHANGED <<status, left, applied, spoiled, account>>

\* errImageTooLarge ends the run; the caller discards the directory.
TooLarge ==
  /\ status = "entries" /\ layer # <<>>
  /\ \E cost \in Costs(tree, Head(layer)) : cost > budget
  /\ status' = "failed"
  /\ UNCHANGED <<tree, image, account>>

\* So does a stream that ends or cannot be read in the middle.
StreamBreaks ==
  /\ status = "entries"
  /\ status' = "failed"
  /\ UNCHANGED <<tree, image, account>>

\* A write fails, the disk being full: the old file is gone, the new one holds
\* what was written, and untar goes on with the next entry.
WriteFails ==
  /\ status = "entries" /\ layer # <<>> /\ Head(layer).type = "file" /\ ~spoiled
  /\ tree' \in Extract(tree, [Head(layer) EXCEPT !.data = Nothing])
  /\ layer' = Tail(layer) /\ spoiled' = TRUE
  /\ UNCHANGED <<status, left, budget, applied, account>>

EndLayer ==
  /\ status = "entries" /\ layer = <<>>
  /\ status' = "layers"
  /\ UNCHANGED <<tree, image, account>>

Ready ==
  /\ status = "layers" /\ left = 0
  /\ status' = "ready"
  /\ UNCHANGED <<tree, image, account>>

\* DirFS.Walk: every walk of the tree adds to one account.
Walk(base) ==
  /\ status = "ready" /\ base \notin DOMAIN walked
  /\ Cardinality(DOMAIN walked) < IF denied = {} THEN MaxImageWalks ELSE MaxWalks
  /\ \E host \in Resolve(Found(tree, denied), base) :
       /\ seen' = seen \cup Gaps(tree, denied, base, host)
       /\ walked' = With(walked, {base}, {TreeName(base, host, q) :
                                             q \in Visited(tree, denied, host)})
  /\ UNCHANGED <<tree, status, image, denied>>

Next ==
  \/ MissingLayer \/ BeginLayer \/ ReadEntry \/ TooLarge \/ StreamBreaks \/ WriteFails
  \/ EndLayer \/ Ready
  \/ \E base \in Bases : Walk(base)

Spec == Init /\ [][Next]_vars

-----------------------------------------------------------------------------
\* The state has its types, and the tree is a tree: what a node lies in is a
\* directory of it, whatever entries came in which order (untar's helpers).
TypeOK ==
  /\ status \in {"layers", "entries", "failed", "ready"}
  /\ left \in 0..MaxLayers /\ budget \in 0..MaxImageBytes
  /\ layer \in Seq(EntryType) /\ spoiled \in BOOLEAN
  /\ IsTree(tree, Contents \cup {Nothing})

\* Resolution in the tree a scan reads is what a path means there (Resolve): no
\* name on the way to its result is a link, the last name of a path leads where
\* it leads from the place the names before it lead to, and a link leads where
\* its target does, from the root or from the directory the link lies in.
ResolvesPlainly ==
  status = "ready" =>
    \A name \in BoundedSeq(Names, 3) : \A p \in Resolve(tree, name) :
      /\ \A q \in Above(p) \cup {p} : ~IsKind(tree, q, "link")
      /\ name # <<>> => \A parent \in Resolve(tree, Front(name)) :
                          Resolve(tree, Append(parent, Last(name))) = {p}
      /\ IsKind(tree, name, "link") =>
           LET link == tree[name]
               start == IF link.abs THEN <<>> ELSE Front(name)
           IN Resolve(tree, Clean(TRUE, start \o Clean(link.abs, link.to))) = {p}

-----------------------------------------------------------------------------
\* What a runtime mounts, for layers as image builders write them: every entry
\* comes after the entries of the directories above it, adds its path once,
\* and a whiteout comes before what its layer puts in the place.
Adds(e) == e.type \in {"dir", "file", "link", "hard"}

Fits(before, e) ==
  LET above == IF e.type = "opaque" THEN Above(e.path) \cup {e.path} ELSE Above(e.path)
  IN /\ e.type # "other"
     /\ e.path = <<>> => e.type \in {"dir", "opaque"}
     /\ \A d \in above \ {<<>>} : \E f \in before : f.type = "dir" /\ f.path = d
     /\ Adds(e) => \A f \in before : Adds(f) => f.path # e.path
     /\ e.type = "white" => \A f \in before : Adds(f) => ~IsPrefix(e.path, f.path)
     /\ e.type = "opaque" => \A f \in before : Adds(f) => ~IsStrictPrefix(e.path, f.path)
     /\ e.type = "hard" => \E f \in before : f.type = "file" /\ f.path = Clean(TRUE, e.to)

WellFormed(l) == \A i \in DOMAIN l : Fits({l[j] : j \in 1..(i - 1)}, l[i])

\* The entry e hides what the layers below its own have at p.
Hides(e, p) ==
  CASE e.type = "white" -> IsPrefix(e.path, p)
    [] e.type = "dir" -> FALSE
    [] OTHER -> IsStrictPrefix(e.path, p)

\* The file among entries that the hard link e is another name of.
Targets(entries, e) == {f \in entries : f.type = "file" /\ f.path = Clean(TRUE, e.to)}

NodeOf(entries, e) ==
  CASE e.type = "dir" -> Dir [] e.type = "file" -> File(e.data)
    [] e.type = "link" -> Link(e.abs, e.to)
    [] e.type = "hard" -> File((CHOOSE f \in Targets(entries, e) : TRUE).data)

AddedAt(entries, p) == {e \in entries : Adds(e) /\ e.path = p}
NodeAt(entries, p) == NodeOf(entries, CHOOSE e \in AddedAt(entries, p) : TRUE)

\* The layer of these entries adds or hides p.
Covers(entries, p) == AddedAt(entries, p) # {} \/ \E e \in entries : Hides(e, p)

\* The k-th of the layers is the one that p is seen of.
ShownBy(ls, k, p) ==
  AddedAt(ToSet(ls[k]), p) # {} /\ \A j \in (k + 1)..Len(ls) : ~Covers(ToSet(ls[j]), p)

Union(ls) ==
  LET all == {e.path : e \in {f \in UNION {ToSet(ls[k]) : k \in DOMAIN ls} : Adds(f)}}
  IN [p \in {q \in all \ {<<>>} : \E k \in DOMAIN ls : ShownBy(ls, k, q)} |->
        NodeAt(ToSet(ls[CHOOSE k \in DOMAIN ls : ShownBy(ls, k, p)]), p)]

\* The tree made of well-formed layers is their union: each path as the topmost
\* layer that has it left it, and nothing that a layer above hides (ExtractSource,
\* untar).  This speaks of the layers whose blob was there, where every write
\* succeeded: the code passes over a layer without a blob and goes on after a
\* failed write, and then reads an image with files missing or cut.
ImageIsUnion ==
  status = "ready" /\ applied # <<>> /\ ~spoiled /\ (\A i \in DOMAIN applied : WellFormed(applied[i]))
    => tree = Union(applied)

\* Whatever lies in truth under a path that was walked was visited, or it lies
\* under a name that the account of the unreadable has (DirFS.Walk, note).
SkippedIsNoted ==
  \A base \in DOMAIN walked : \A host \in Resolve(tree, base) : \A q \in Subtree(tree, host) :
    \/ TreeName(base, host, q) \in walked[base]
    \/ \E name \in seen : IsPrefix(name, TreeName(base, host, q))
===============================================================================
