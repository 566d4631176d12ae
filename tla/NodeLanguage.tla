----------------------------- MODULE NodeLanguage -----------------------------
(***************************************************************************)
(* The Node.js half of modgraph.Language: which files an image's command   *)
(* line starts, what a file requires, and which files a specifier loads.   *)
(***************************************************************************)
EXTENDS ModuleFiles

CONSTANTS
  NodeBuiltins,  \* names of the modules compiled into node
  Scopes         \* components that begin with "@"

-----------------------------------------------------------------------------
(* Resolution                                                              *)

ProbeFile(im, target) ==
  LET hits == SelectSeq(JsExts, LAMBDA e : Append(target, e) \in im.files)
  IN  CASE target \in im.files -> <<target>>
        [] target \notin im.files /\ hits # <<>> -> <<Append(target, Head(hits))>>
        [] OTHER -> <<>>

ProbeIndex(im, dir) ==
  LET hits == SelectSeq(JsExts, LAMBDA e : dir \o <<"index", e>> \in im.files)
  IN  IF hits = <<>> THEN <<>> ELSE <<dir \o <<"index", Head(hits)>>>>

HasManifest(im, dir) == dir \in DOMAIN im.manifest

PackageMain(im, dir) ==
  LET main == IF HasManifest(im, dir) THEN im.manifest[dir].main ELSE <<>>
      named == IF main = <<>> THEN <<>>
               ELSE FirstOf(ProbeFile(im, dir \o main), ProbeIndex(im, dir \o main))
  IN  FirstOf(named, ProbeIndex(im, dir))

\* The node_modules directories a file of dir sees, nearest first.
NodeModulesAbove(im, dir) ==
  LET up == [i \in 1 .. Len(dir) + 1 |-> SubSeq(dir, 1, Len(dir) + 1 - i)]
      hosts == SelectSeq(up, LAMBDA d : /\ d = <<>> \/ Last(d) # "node_modules"
                                        /\ Append(d, "node_modules") \in im.dirs)
  IN  [i \in DOMAIN hosts |-> Append(hosts[i], "node_modules")]

\* splitSpecifier: a scope and a name, or a name; a lone scope is no package.
PackageOf(parts) ==
  CASE Head(parts) \notin Scopes -> SubSeq(parts, 1, 1)
    [] Head(parts) \in Scopes /\ Len(parts) > 1 -> SubSeq(parts, 1, 2)
    [] OTHER -> <<>>
SubpathOf(parts) == SubSeq(parts, Len(PackageOf(parts)) + 1, Len(parts))

ExportConditions == <<"require", "node", "default", "import">>

\* fromExports: the target of the first condition that names one.
FromExports(im, base, sub) ==
  LET exports == im.manifest[base].exports
      chosen == IF sub \notin DOMAIN exports THEN <<>>
                ELSE SelectSeq(ExportConditions, LAMBDA c : c \in DOMAIN exports[sub])
  IN  IF chosen = <<>> THEN <<>> ELSE ProbeFile(im, base \o exports[sub][Head(chosen)])

\* An exports map that does not answer leaves the file tree to answer.
ResolveInPackage(im, base, sub) ==
  LET mapped == IF HasManifest(im, base) THEN FromExports(im, base, sub) ELSE <<>>
      probed == IF sub = <<>> THEN PackageMain(im, base)
                ELSE FirstOf(ProbeFile(im, base \o sub), PackageMain(im, base \o sub))
  IN  FirstOf(mapped, probed)

\* The nearest copy answers, or nothing does.
ResolveBare(im, dir, parts) ==
  LET pkg == PackageOf(parts)
      homes == SelectSeq(NodeModulesAbove(im, dir), LAMBDA nm : nm \o pkg \in im.dirs)
  IN  IF pkg = <<>> \/ homes = <<>> THEN <<>>
      ELSE ResolveInPackage(im, Head(homes) \o pkg, SubpathOf(parts))

ResolveRelative(im, dir, parts) == FirstOf(ProbeFile(im, dir \o parts), PackageMain(im, dir \o parts))

IsBuiltin(s) == s.kind = "bare" /\ Head(s.parts) \in NodeBuiltins

\* Resolve: whether the specifier is accounted for, and the files it loads.  An
\* alias ("#x") of a manifest's imports is left unresolved.
NodeResolve(im, from, s) ==
  LET files == CASE s.kind = "relative" -> ResolveRelative(im, Up(DirOf(from), s.up), s.parts)
                 [] s.kind = "absolute" -> ResolveRelative(im, <<>>, s.parts)
                 [] s.kind = "bare" -> ResolveBare(im, DirOf(from), s.parts)
                 [] OTHER -> <<>>
  IN  IF IsBuiltin(s) THEN [ok |-> TRUE, files |-> <<>>]
      ELSE [ok |-> files # <<>>, files |-> files]

-----------------------------------------------------------------------------
(* Imports                                                                 *)

\* IsModule: what Node's loader would load; TypeScript is not.
NodeIsModule(f) == ExtOf(f) \in ToSet(JsExts)

PackageDirs(im) == {p.dir : p \in Pkgs(im)}

\* ownerDir: the innermost installed package the file is in, <<>> for none.
OwnerDir(im, f) ==
  LET owners == {d \in PackageDirs(im) : IsStrictPrefix(d, f)}
  IN  IF owners = {} THEN <<>> ELSE CHOOSE d \in owners : \A o \in owners : Len(o) <= Len(d)

\* Where the packages that the one in dir declares are found, those that are.
DeclaredIn(im, dir) ==
  LET At(dep) == SelectSeq(NodeModulesAbove(im, dir), LAMBDA nm : nm \o dep \in PackageDirs(im))
  IN  {Head(At(dep)) \o dep : dep \in {x \in im.manifest[dir].deps : At(x) # <<>>}}

\* Mutant: the package that computes the name and what it declares, no further.
ScopeOneLevel(im, dir) ==
  {dir} \cup (IF HasManifest(im, dir) THEN DeclaredIn(im, dir) ELSE {})

\* dynamicScope: the packages a computed require in one of dir can load.
ScopeDirs(im, dir) ==
  LET walk[n \in 0 .. Cardinality(PackageDirs(im))] ==
        LET before == walk[n - 1]
        IN  IF n = 0 THEN {dir}
            ELSE before \cup UNION {DeclaredIn(im, d) : d \in {x \in before : HasManifest(im, x)}}
  IN  walk[Cardinality(PackageDirs(im))]

NamesOf(im, dirs) == {p.name : p \in {q \in Pkgs(im) : q.dir \in dirs}}

\* Whether that is known to be all: every manifest read, every package found.
ScopeComplete(im, dir) ==
  \A d \in ScopeDirs(im, dir) :
    /\ HasManifest(im, d)
    /\ Cardinality(DeclaredIn(im, d)) = Cardinality(im.manifest[d].deps)

\* The file's text as the scanner sees it: nothing in a file that is no source
\* or larger than maxSource.
NodeScanned(im, f) ==
  /\ ExtOf(f) \in {".js", ".mjs", ".cjs"} \/ (ExtOf(f) = "" /\ f \in im.scripts)
  /\ f \notin im.large

NodeImports(im, f) ==
  LET owner == OwnerDir(im, f)
      computed == Taint("dynamic-import", f, NoSpec, NamesOf(im, ScopeDirs(im, owner)), TRUE,
                        owner = <<>> \/ ~ScopeComplete(im, owner))
  IN  CASE NodeScanned(im, f) /\ f \in im.unread -> FailedImports
        [] NodeScanned(im, f) /\ f \notin im.unread ->
             [failed |-> FALSE, specs |-> im.source[f].specs,
              taints |-> IF im.source[f].computed THEN {computed} ELSE {}]
        [] OTHER -> NoImports

-----------------------------------------------------------------------------
(* Roots                                                                   *)

\* resolveEntry: from the working directory, then from the root.
ResolveEntry(im, workdir, arg) ==
  FirstOf(ResolveRelative(im, workdir, arg), ResolveRelative(im, <<>>, arg))

\* A command line of node: a script, a text that is not on disk, or a prompt.
NodeInterpreterRoots(im, workdir, args) ==
  LET d == Decisive(args)
      files == ResolveEntry(im, workdir, d.path)
  IN  CASE d.kind = "eval" -> Start(<<>>, {GlobalTaint("dynamic-import")})
        [] d.kind = "end" -> Start(<<>>, {GlobalTaint("no-entrypoint")})
        [] d.kind = "script" /\ files = <<>> -> Start(<<>>, {GlobalTaint("unresolved-import")})
        [] d.kind = "script" /\ files # <<>> -> Start(RootsOf(files, "entrypoint"), {})

\* npm, yarn and pnpm: the script they name, if its text begins with node.
PackageManagerRoots(im, sc) ==
  IF sc.script = "node" THEN NodeInterpreterRoots(im, sc.workdir, sc.args)
  ELSE Start(<<>>, {GlobalTaint("foreign-entrypoint")})

NodeEntryRoots(im, sc) ==
  CASE sc.command = "none" -> Start(<<>>, {GlobalTaint("no-entrypoint")})
    [] sc.command = "interpreter" -> NodeInterpreterRoots(im, sc.workdir, sc.args)
    [] sc.command = "manager" -> PackageManagerRoots(im, sc)
    [] sc.command = "program" /\ sc.program \in im.scripts ->
         Start(<<Root(sc.program, "entrypoint")>>, {})
    [] OTHER -> Start(<<>>, {GlobalTaint("foreign-entrypoint")})

\* explicitRoot: a path, or a package's name seen from the working directory.
NodeExplicitRoots(im, sc) ==
  LET Named(e) == IF e.kind = "path" THEN ResolveRelative(im, <<>>, e.parts)
                  ELSE ResolveBare(im, sc.workdir, e.parts)
  IN  RootsOf(FlattenSeq([i \in DOMAIN sc.roots |-> Named(sc.roots[i])]), "explicit")

PackageEntries(im, p) ==
  LET bins == IF HasManifest(im, p.dir) THEN im.manifest[p.dir].bins ELSE {}
  IN  ToSet(PackageMain(im, p.dir))
        \cup UNION {ToSet(ProbeFile(im, p.dir \o b)) : b \in bins}

\* escalate: every package's entries, and all of a package that has none.
NodeEscalate(im) ==
  LET Of(p) == IF PackageEntries(im, p) # {} THEN PackageEntries(im, p)
               ELSE {f \in p.files : NodeIsModule(f)}
  IN  RootsOf(InOrder(UNION {Of(p) : p \in Pkgs(im)}), "escalated")

\* bundledTaint: there are programs, and none sees a node_modules directory.
BundledTaint(im, roots) ==
  IF /\ roots # <<>>
     /\ \A i \in DOMAIN roots : NodeModulesAbove(im, DirOf(roots[i].path)) = <<>>
  THEN {GlobalTaint("bundled-entrypoint")} ELSE {}

NodeRoots(im, sc) ==
  LET entry == NodeEntryRoots(im, sc)
      explicit == NodeExplicitRoots(im, sc)
      named == entry.roots \o explicit
  IN  Start(IF named = <<>> THEN NodeEscalate(im) ELSE named,
            Demoted(entry.taints, explicit) \cup BundledTaint(im, named))
=============================================================================
