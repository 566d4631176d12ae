---------------------------- MODULE PackageVerdicts ----------------------------
(***************************************************************************)
(* What the npm, PyPI and Maven plugins conclude of one package and one    *)
(* advisory, from the inventory, the hints mined from the advisory's text  *)
(* and, for npm and PyPI, the closure.  Maven has no closure: its scans    *)
(* skip it.  A scan's image is a record with the inventory read from it.   *)
(***************************************************************************)
EXTENDS ModuleGraph, NodeLanguage, PythonLanguage

Verdict(status, why) == [status |-> status, why |-> why]
Linked == Verdict("linked", "present")

IsCode(lang, f) ==
  \/ ExtOf(f) \in CASE lang = "node" -> {".js", ".mjs", ".cjs", ".node"}
                    [] lang = "python" -> {".py", ".pyc", ".so"}
                    [] OTHER -> {".class"}
  \/ lang # "java" /\ ExtOf(f) = "" /\ "bin" \in ToSet(DirOf(f))

\* component: every installed copy of a name is one component.
CopiesOf(name) == {p \in Pkgs(scan.image) : p.name = name}
FilesOf(pkgs) == UNION {p.files : p \in pkgs}
CodeOf(pkgs) == {f \in FilesOf(pkgs) : IsCode(scan.lang, f)}
NamesFor(pkgs) == UNION {p.importNames : p \in pkgs}
AllKnown(pkgs) == \A p \in pkgs : p.filesKnown
CoordsKnown(pkgs) == \A p \in pkgs : p.coordsKnown
Blocked(pkgs) == Blockers(NamesFor(pkgs)) # {}

\* What could be the package that was asked about, and could not be named.
Holes(im) == im.unreadable \cup {u.path : u \in {x \in im.unidentified : x.hasClasses}}

\* Absence: a name that no package has, among packages that all have a name.
AbsentVerdict ==
  IF ~scan.meta /\ Holes(scan.image) # {} THEN Verdict("undetermined", "unreadable")
  ELSE Verdict("not_present", "component")

-----------------------------------------------------------------------------
(* Mined hints: what an advisory's text says is vulnerable.  A hint that    *)
(* fails a gate is as if it had not been given.                            *)

\* checkSubpaths: in the text, of this package, and below it.
NodeHints(pkgs, hints) ==
  {m \in hints : /\ m.literal
                 /\ PackageOf(m.parts) \in NamesFor(pkgs)
                 /\ SubpathOf(m.parts) # <<>>}
\* subpathFiles.
NodeHintFiles(pkgs, m) ==
  UNION {ToSet(ResolveInPackage(scan.image, p.dir, SubpathOf(m.parts))) : p \in pkgs}

\* modulePath and moduleFiles: the files a dotted name is installed as.
ModulePath(f) ==
  LET at == IF ExtOf(f) = "" THEN f ELSE Front(f)
  IN  IF at # <<>> /\ Last(at) = "__init__" THEN Front(at) ELSE at
ModuleFilesOf(parts, code) == {f \in code : IsSuffix(parts, ModulePath(f))}

\* checkModules: in the text, of this distribution, below a package it
\* installs, and not also mined as a function.
PyHints(pkgs, hints) ==
  {m \in hints : /\ m.literal
                 /\ <<Head(m.parts)>> \in NamesFor(pkgs)
                 /\ Len(m.parts) > 1
                 /\ ~m.symbol
                 /\ ModuleFilesOf(Front(m.parts), CodeOf(pkgs)) # {}}

\* checkClasses and findClass: in the text and shaped like a class, found in
\* whatever package of the archive.
JavaHints(hints) == {m \in hints : m.literal /\ m.classShaped}
ClassFiles(pkgs, m) == {f \in CodeOf(pkgs) : f[Len(f) - 1] = Last(m.parts)}

Hints(pkgs, hints) ==
  CASE scan.lang = "node" -> NodeHints(pkgs, hints)
    [] scan.lang = "python" -> PyHints(pkgs, hints)
    [] OTHER -> JavaHints(hints)
HintFiles(pkgs, m) ==
  CASE scan.lang = "node" -> NodeHintFiles(pkgs, m)
    [] scan.lang = "python" -> ModuleFilesOf(m.parts, CodeOf(pkgs))
    [] OTHER -> ClassFiles(pkgs, m)
AllHintFiles(pkgs, hints) == UNION {HintFiles(pkgs, m) : m \in Hints(pkgs, hints)}

\* mined: the package ships none of what the advisory names.
HintsAbsent(pkgs, hints) ==
  /\ Hints(pkgs, hints) # {}
  /\ AllHintFiles(pkgs, hints) = {}
  /\ AllKnown(pkgs) /\ CoordsKnown(pkgs)
  /\ ~Blocked(pkgs)

\* mined: the package is reached and what the advisory names is not, and the
\* user trusts that to mean something.
HintsUnreached(pkgs, hints) ==
  /\ ReachedOf(CodeOf(pkgs)) # {}
  /\ ModulesOf(AllHintFiles(pkgs, hints)) # {}
  /\ ReachedOf(AllHintFiles(pkgs, hints)) = {}
  /\ scan.trust /\ ~Blocked(pkgs)

-----------------------------------------------------------------------------
(* The verdict                                                             *)

\* A listing that says no code is shipped is believed when it was read: one that
\* is empty was not, but for the manifest of a Python distribution.
NoCodeBelieved(pkgs) ==
  AllKnown(pkgs) /\ (scan.lang = "python" \/ FilesOf(pkgs) # {})

\* reachability: nothing that is reached is of the package, every name it goes
\* by is accounted for, and the listing is all of it.
Unreached(pkgs) ==
  /\ ModulesOf(FilesOf(pkgs)) # {}
  /\ ReachedOf(FilesOf(pkgs)) = {}
  /\ ~Blocked(pkgs)
  /\ AllKnown(pkgs)

\* What a package known to ship code is told.
CodeVerdict(pkgs, hints) ==
  CASE HintsAbsent(pkgs, hints) -> Verdict("not_present", "hint absent")
    [] phase = "done" /\ HintsUnreached(pkgs, hints) -> Verdict("not_in_path", "hint unreached")
    [] phase = "done" /\ ~HintsAbsent(pkgs, hints) /\ Unreached(pkgs) ->
         Verdict("not_in_path", "unreached")
    [] OTHER -> Linked

\* evaluate: by increasing cost and decreasing certainty.  An advisory is one
\* that OSV mapped to the package, or not, with the hints mined from it.
Evaluate(name, adv) ==
  LET pkgs == CopiesOf(name)
  IN  CASE pkgs = {} -> AbsentVerdict
        [] pkgs # {} /\ (~adv.mapped \/ scan.meta) -> Verdict("undetermined", "no test")
        [] pkgs # {} /\ adv.mapped /\ ~scan.meta /\ CodeOf(pkgs) # {} ->
             CodeVerdict(pkgs, adv.hints)
        [] OTHER -> IF NoCodeBelieved(pkgs) THEN Verdict("not_present", "no code") ELSE Linked
=============================================================================
