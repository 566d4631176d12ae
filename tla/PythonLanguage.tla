---------------------------- MODULE PythonLanguage ----------------------------
(***************************************************************************)
(* The Python half of modgraph.Language: sys.path as the interpreter would *)
(* build it, which files an image's command line starts, what a file       *)
(* imports, and which files a dotted name loads.                           *)
(*                                                                         *)
(* im.pth is every line of every .pth file, in the order they are read: a  *)
(* directory to search, a plain import, other code, or a file that could   *)
(* not be read.                                                            *)
(***************************************************************************)
EXTENDS ModuleFiles

CONSTANT PyBuiltins  \* names of the modules compiled into the interpreter

-----------------------------------------------------------------------------
(* sys.path                                                                *)

\* buildSearchPath, before any .pth line.
BaseSearch(im) == im.pythonpath \cup im.stdlib \cup im.siteRoots

\* The directories searched once the first n lines of .pth files are read.
SearchAfter(im, n) ==
  BaseSearch(im) \cup {im.pth[i].dir : i \in {j \in 1 .. n : im.pth[j].kind = "dir"}}

PyProbe(im, dir, parts) ==
  LET at == dir \o parts
      hit(f) == IF f \in im.files THEN <<f>> ELSE <<>>
  IN  FirstOf(hit(at \o <<"__init__", ".py">>),
        FirstOf(hit(Append(at, ".py")), FirstOf(hit(Append(at, ".pyc")), hit(Append(at, ".so")))))

ProbeIn(im, dirs, parts) == UNION {ToSet(PyProbe(im, d, parts)) : d \in dirs}

\* A script's own directory goes first, and what was resolved is forgotten.
Prepended(im, sc) ==
  CASE sc.command = "interpreter" /\ Decisive(sc.args).kind = "script" ->
         {DirOf(f) : f \in {Decisive(sc.args).path} \cap im.files}
    [] sc.command = "program" /\ sc.program \in im.scripts -> {DirOf(sc.program)}
    [] OTHER -> {}

\* The .pth lines that import a name and so resolved it first, for as long as
\* the answer is remembered.
FirstAsked(im, sc, parts) ==
  {i \in DOMAIN im.pth : /\ im.pth[i].kind = "import"
                         /\ im.pth[i].parts = parts
                         /\ Prepended(im, sc) = {}}

\* resolveAbsolute: a name loads what every searched directory has for it.  A
\* name a .pth line imported keeps the answer of the path as it was then.
ResolveAbsolute(im, sc, parts) ==
  LET asked == FirstAsked(im, sc, parts)
      lines == IF asked = {} THEN Len(im.pth) ELSE CHOOSE i \in asked : \A j \in asked : i <= j
  IN  ProbeIn(im, SearchAfter(im, lines) \cup Prepended(im, sc), parts)

IsNamespace(im, sc, parts) ==
  \E d \in SearchAfter(im, Len(im.pth)) \cup Prepended(im, sc) : d \o parts \in im.dirs

PyResolveRelative(im, from, s) ==
  LET dir == Up(DirOf(from), s.up)
      init == dir \o <<"__init__", ".py">>
  IN  IF s.parts = <<>> THEN [ok |-> TRUE, files |-> InOrder({init} \cap im.files)]
      ELSE [ok |-> PyProbe(im, dir, s.parts) # <<>>, files |-> PyProbe(im, dir, s.parts)]

\* Resolve.
PyResolve(im, sc, from, s) ==
  LET files == ResolveAbsolute(im, sc, s.parts)
  IN  CASE s.kind = "relative" -> PyResolveRelative(im, from, s)
        [] s.kind = "bare" /\ Head(s.parts) \in PyBuiltins -> [ok |-> TRUE, files |-> <<>>]
        [] OTHER -> [ok |-> files # {} \/ IsNamespace(im, sc, s.parts), files |-> InOrder(files)]

-----------------------------------------------------------------------------
(* Imports                                                                 *)

PyIsModule(f) ==
  \/ ExtOf(f) \in {".py", ".so"}
  \/ ExtOf(f) = ".pyc" /\ Last(DirOf(f)) # "__pycache__"

\* owners: the first component below the innermost site-packages directory.
Owners(im, f) ==
  LET roots == {r \in im.siteRoots : IsStrictPrefix(r, f)}
      best == CHOOSE r \in roots : \A o \in roots : Len(o) <= Len(r)
  IN  IF roots = {} THEN {} ELSE {<<f[Len(best) + 1]>>}

\* indexDists: the first distribution of a name, or to claim an import name.
FirstDist(dists) == {dists[i] : i \in DOMAIN dists \cap {1}}
DistNamed(im, name) == FirstDist(SelectSeq(im.packages, LAMBDA p : p.name = name))
DistImportedAs(im, name) == FirstDist(SelectSeq(im.packages, LAMBDA p : name \in p.importNames))

\* requireClosure: the distributions one requires, and those they require.
RequiredBy(im, dist) ==
  LET walk[n \in 0 .. Len(im.packages)] ==
        LET before == walk[n - 1]
        IN  IF n = 0 THEN {dist}
            ELSE before \cup UNION {DistNamed(im, r.name) : r \in UNION {d.requires : d \in before}}
  IN  walk[Len(im.packages)]

\* That is known to be all: each one's metadata was read and nothing that is
\* required without a condition is missing.
RequiresComplete(im, dist) ==
  \A d \in RequiredBy(im, dist) :
    d.requiresKnown /\ \A r \in d.requires : r.conditional \/ DistNamed(im, r.name) # {}

PyComputed(im, f) ==
  LET own == Owners(im, f)
      dists == UNION {DistImportedAs(im, o) : o \in own}
      scope == UNION {UNION {q.importNames : q \in RequiredBy(im, d)} : d \in dists}
  IN  Taint("dynamic-import", f, NoSpec, IF dists = {} THEN own ELSE scope, TRUE,
            dists = {} \/ \E d \in dists : ~RequiresComplete(im, d))

\* A listing of the installed distributions: only what declares an entry point
\* can be found by one, and when nothing does, anything could.
PyDiscovery(im, f) ==
  LET none == \A p \in Pkgs(im) : p.entryPoints = <<>>
  IN  Taint("plugin-discovery", f, NoSpec, Owners(im, f), none, none)

EntryPointSpecs(im) ==
  LET eps == FlattenSeq([i \in DOMAIN im.packages |-> im.packages[i].entryPoints])
  IN  [i \in DOMAIN eps |-> [kind |-> "bare", parts |-> eps[i], up |-> 0, optional |-> TRUE]]

PyScanned(im, f) ==
  /\ ExtOf(f) = ".py" \/ (ExtOf(f) = "" /\ f \in im.scripts)
  /\ f \notin im.large

PyImports(im, f) ==
  LET src == im.source[f]
  IN  CASE ExtOf(f) = ".pyc" -> [NoImports EXCEPT !.taints = {GlobalTaint("unreadable")}]
        [] PyScanned(im, f) /\ f \in im.unread -> FailedImports
        [] PyScanned(im, f) /\ f \notin im.unread ->
             [failed |-> FALSE,
              specs |-> src.specs \o (IF src.discovery THEN EntryPointSpecs(im) ELSE <<>>),
              taints |-> (IF src.computed THEN {PyComputed(im, f)} ELSE {})
                           \cup (IF src.discovery THEN {PyDiscovery(im, f)} ELSE {})]
        [] OTHER -> NoImports

-----------------------------------------------------------------------------
(* Roots                                                                   *)

\* What the interpreter imports at startup, whatever it is started for.
StartupRoots(im, sc) ==
  LET hooks == {d \o <<n, ".py">> : d \in SearchAfter(im, Len(im.pth)) \cup Prepended(im, sc),
                                    n \in {"sitecustomize", "usercustomize"}}
      imported == UNION {ProbeIn(im, SearchAfter(im, i), im.pth[i].parts) :
                           i \in {j \in DOMAIN im.pth : im.pth[j].kind = "import"}}
  IN  RootsOf(InOrder((hooks \cap im.files) \cup imported), "plugin")

StartupTaints(im) ==
  {GlobalTaint(IF im.pth[i].kind = "code" THEN "dynamic-import" ELSE "unreadable") :
     i \in {j \in DOMAIN im.pth : im.pth[j].kind \in {"code", "unread"}}}

\* A command line of python: a module, a script, a text that is not on disk,
\* or a prompt.
PyInterpreterRoots(im, sc) ==
  LET d == Decisive(sc.args)
      main == ResolveAbsolute(im, sc, d.parts)
      files == IF d.kind = "script" THEN {d.path} \cap im.files
               ELSE main \cup ResolveAbsolute(im, sc, Append(d.parts, "__main__"))
  IN  CASE d.kind = "eval" -> Start(<<>>, {GlobalTaint("dynamic-import")})
        [] d.kind = "end" -> Start(<<>>, {GlobalTaint("no-entrypoint")})
        [] d.kind \in {"script", "module"} /\ (files = {} \/ (d.kind = "module" /\ main = {})) ->
             Start(<<>>, {GlobalTaint("unresolved-import")})
        [] OTHER -> Start(RootsOf(InOrder(files), "entrypoint"), {})

PyEntryRoots(im, sc) ==
  CASE sc.command = "none" -> Start(<<>>, {GlobalTaint("no-entrypoint")})
    [] sc.command = "interpreter" -> PyInterpreterRoots(im, sc)
    [] sc.command = "program" /\ sc.program \in im.scripts ->
         Start(<<Root(sc.program, "entrypoint")>>, {})
    [] OTHER -> Start(<<>>, {GlobalTaint("foreign-entrypoint")})

PyExplicitRoots(im, sc) ==
  LET Named(e) == IF e.kind = "path" THEN InOrder({e.parts} \cap im.files)
                  ELSE InOrder(ResolveAbsolute(im, sc, e.parts))
  IN  RootsOf(FlattenSeq([i \in DOMAIN sc.roots |-> Named(sc.roots[i])]), "explicit")

\* escalate: every installed module.
PyEscalate(im) ==
  RootsOf(InOrder({f \in UNION {p.files : p \in Pkgs(im)} : PyIsModule(f)}), "escalated")

\* A startup hook is no program: with nothing else to run, all of it may.
PyRoots(im, sc) ==
  LET entry == PyEntryRoots(im, sc)
      explicit == PyExplicitRoots(im, sc)
      named == entry.roots \o StartupRoots(im, sc) \o explicit
  IN  Start(named \o (IF entry.roots \o explicit = <<>> THEN PyEscalate(im) ELSE <<>>),
            Demoted(entry.taints \cup StartupTaints(im), explicit))
=============================================================================
