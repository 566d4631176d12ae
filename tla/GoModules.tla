------------------------------- MODULE GoModules -------------------------------
(***************************************************************************)
(* The Go analyzer: which modules the binaries of an image link, at which  *)
(* version when the build did not say, what is concluded of one advisory   *)
(* and one binary, and what govulncheck's word on a source tree is worth.  *)
(*                                                                         *)
(* A version is <<major, minor, patch, pre>>, pre being -1 for a           *)
(* prerelease and 0 otherwise; Devel stands for "(devel)" and whatever     *)
(* else OSV cannot compare, Unstated for the empty string.                 *)
(***************************************************************************)
EXTENDS Integers, Sequences, FiniteSets, SequencesExt

CONSTANTS
  Kubernetes,    \* the module whose staging layout is known
  StagedModules, \* modules whose path begins as a staging module's does
  Stdlib         \* the name the standard library goes by

Devel == <<>>
Unstated == <<0>>
NoModule == ""

\* isDevelVersion: nothing that is a version, or the zero of a build without one.
IsDevelVersion(v) == v \in {Devel, Unstated, <<0, 0, 0, 0>>}

Below(v, w) ==
  \E i \in 1 .. 4 : v[i] < w[i] /\ \A j \in 1 .. i - 1 : v[j] = w[j]

-----------------------------------------------------------------------------
(* Recovering the version of a binary's own module                         *)

VersionNames == {"version", "ver", "release"}

\* Mutant: a stamp is believed whoever's variable it is written into.
AnyStamps(module, stamps) == {s \in stamps : s.name \in VersionNames /\ ~IsDevelVersion(s.version)}

\* versionStamps and elfVersionStamps: what the build wrote into a version
\* variable of the module itself, or of package main.
VersionStamps(module, stamps) ==
  {s \in stamps : /\ s.name \in VersionNames
                  /\ s.of \in {"main", module}
                  /\ ~IsDevelVersion(s.version)}

\* Stamps that disagree say nothing.
Agreed(stamps) ==
  LET said == {s.version : s \in stamps}
  IN  IF Cardinality(said) = 1 THEN CHOOSE v \in said : TRUE ELSE Devel

\* The symbol table has what the linker flags said, when it was kept.
SymbolStamps(bin) == IF bin.stripped THEN {} ELSE bin.symbols

\* normalizeTagVersion: a tag that is no full version is none, and neither k3s's
\* suffix nor that of a distribution's packaging makes a prerelease of one.
TagVersion(tag) ==
  CASE tag.kind \in {"none", "latest", "partial"} -> Devel
    [] tag.kind = "rc" -> [tag.version EXCEPT ![4] = -1]
    [] OTHER -> tag.version

\* entrypointPaths: what the command names before its first option.
EntrypointPaths(im) ==
  LET options == {i \in DOMAIN im.argv : im.argv[i].option}
  IN  UNION {im.argv[i].paths : i \in {j \in DOMAIN im.argv : \A o \in options : j < o}}
RunModules(im) == {b.main : b \in {x \in im.bins : x.path \in EntrypointPaths(im)}} \ {NoModule}

\* tagAuthority: why the image's tag may be this module's version.
TagAuthority(im, module) ==
  module \in RunModules(im) \/ im.tag.kind = "k3s" \/ module \in im.namedAfter

\* mainModuleVersion: from the strongest source there is, or as it is.
MainModuleVersion(im, bin) ==
  LET Said(v, origin) == [version |-> v, origin |-> origin, uncomparable |-> FALSE]
      flags == Agreed(VersionStamps(bin.main, bin.flags))
      symbols == Agreed(VersionStamps(bin.main, SymbolStamps(bin)))
      tag == IF TagAuthority(im, bin.main) THEN TagVersion(im.tag) ELSE Devel
      sources == SelectSeq(<<Said(flags, "ldflags"), Said(symbols, "elf-symbol"), Said(tag, "image-tag")>>,
                           LAMBDA s : s.version # Devel)
  IN  IF ~IsDevelVersion(bin.mainVersion) \/ sources = <<>> THEN Said(bin.mainVersion, "")
      ELSE Head(sources)

\* stagingModuleVersion: v0.Y.Z of what Kubernetes vendors out of its own tree is
\* released beside its v1.Y.Z.
StagingVersion(mainModule, mainVersion, dep) ==
  IF /\ mainModule = Kubernetes /\ dep \in StagedModules \ {Kubernetes}
     /\ ~IsDevelVersion(mainVersion) /\ mainVersion[1] = 1
  THEN [mainVersion EXCEPT ![1] = 0] ELSE Devel

\* depVersion: a version, or the account of having none.
DepVersion(im, bin, dep, version) ==
  LET staged == StagingVersion(bin.main, MainModuleVersion(im, bin).version, dep)
  IN  IF IsDevelVersion(version) /\ staged # Devel
      THEN [version |-> staged, origin |-> "staging", uncomparable |-> FALSE]
      ELSE [version |-> version, origin |-> "", uncomparable |-> IsDevelVersion(version)]

-----------------------------------------------------------------------------
(* The inventory: what links what                                          *)

Link(module, v, bin) ==
  [module |-> module, version |-> v.version, origin |-> v.origin,
   uncomparable |-> v.uncomparable, path |-> bin.path]
Stated(v) == [version |-> v, origin |-> "", uncomparable |-> FALSE]

\* What a dependency was replaced with, if it was.
Effective(dep) == IF dep.replace = <<>> THEN dep ELSE dep.replace[1]

\* groupAll: everything a binary's build info names, but for a main module or a
\* dependency that states no version at all.
GroupAll(im) ==
  UNION {{Link(Stdlib, Stated(b.goVersion), b)}
           \cup {Link(b.main, v, b) :
                   v \in {x \in {MainModuleVersion(im, b)} : b.main # NoModule /\ x.version # Unstated}}
           \cup {Link(d.path, DepVersion(im, b, d.path, d.version), b) :
                   d \in {x \in {Effective(e) : e \in b.deps} : x.path # NoModule /\ x.version # Unstated}} :
         b \in im.bins}

\* Binary.ModuleVersion: a dependency goes by its own name and by that of what
\* replaced it.
ModuleVersion(bin, module) ==
  LET named == {d \in bin.deps : module \in {d.path, Effective(d).path}}
  IN  CASE module = Stdlib -> bin.goVersion
        [] module = bin.main /\ bin.mainVersion # Unstated -> bin.mainVersion
        [] OTHER -> IF named = {} THEN Unstated ELSE Effective(CHOOSE d \in named : TRUE).version

\* group: what it says of one binary and one of the modules that were asked for.
Targeted(im, b, m, override) ==
  CASE override # Unstated -> Stated(override)
    [] override = Unstated /\ m = b.main -> MainModuleVersion(im, b)
    [] override = Unstated /\ m # b.main /\ ModuleVersion(b, m) # Unstated ->
         DepVersion(im, b, m, ModuleVersion(b, m))
    [] OTHER -> Stated(Unstated)

Group(im, modules, override) ==
  UNION {{Link(m, Targeted(im, b, m, override), b) :
            m \in {x \in modules : Targeted(im, b, x, override).version # Unstated}} : b \in im.bins}

\* wantedModules and InventoryImage: an empty sequence of names asks for all.
Links(im, names, override) ==
  IF names = <<>> THEN GroupAll(im) ELSE Group(im, ToSet(names), override)

\* grouper: a component is a module at a version, and its binaries share the
\* account of where the version came from.
Sharing(links, l) == {k \in links : k.module = l.module /\ k.version = l.version}

\* markInferred: no account does not erase one.
Inferred(links, l) == \E k \in Sharing(links, l) : k.origin # ""
Uncomparable(links, l) == \E k \in Sharing(links, l) : k.uncomparable

-----------------------------------------------------------------------------
(* The verdict                                                             *)

\* evaluate: an advisory that names no package is judged by its module, and only
\* one that does, in a binary with symbols, is put to govulncheck.
GoStatus(bin, adv, govulncheck) ==
  LET linked == IF adv.pkgs # {} THEN adv.pkgs \cap bin.pkgs # {} ELSE adv.module \in bin.modules
      tested == adv.pkgs # {} /\ ~bin.stripped /\ govulncheck
  IN  CASE ~linked -> "not_present"
        [] linked /\ tested /\ adv.id \in bin.notAffected -> "not_in_path"
        [] OTHER -> "linked"

\* uncomparableVersion: what is there may already be fixed.
ComparedStatus(links, l, status) ==
  IF Uncomparable(links, l) /\ status = "linked" THEN "undetermined" ELSE status

\* The advisories OSV has for a component: all of the module's, when it cannot
\* compare the version.
OsvAnswers(advisories, l) ==
  {a \in advisories : a.module = l.module /\ (IsDevelVersion(l.version) \/ Below(l.version, a.fixed))}

\* AnalyzeImage: a finding for each binary that can be read.
GoFindings(im, links, advisories, govulncheck) ==
  LET bin(l) == CHOOSE b \in im.bins : b.path = l.path
  IN  UNION {{[path |-> l.path, module |-> l.module, version |-> l.version, id |-> a.id,
               inferred |-> Inferred(links, l),
               status |-> ComparedStatus(links, l, GoStatus(bin(l), a, govulncheck))] :
                a \in OsvAnswers(advisories, l)} : l \in {k \in links : bin(k).readable}}

-----------------------------------------------------------------------------
(* Source mode: a statement of govulncheck is a set of ids, the module and  *)
(* what it says of it; the last statement with an id is the one that counts. *)

\* sourceFinding without a statement: whether the module was looked at at all.
UnflaggedStatus(module, stmts, id) ==
  IF \E i \in DOMAIN stmts : stmts[i].module = module THEN "not_present" ELSE "undetermined"

StatedStatus(stmt) ==
  CASE stmt.says = "affected" -> "reachable"
    [] stmt.says = "not_in_execute_path" -> "not_in_path"
    [] OTHER -> "not_present"

\* findingsForModule: for a module the user named, an answer to every id.
SourceFindings(module, stmts, requested, targeted) ==
  LET of(id) == {i \in DOMAIN stmts : stmts[i].module = module /\ id \in stmts[i].ids}
      last(id) == CHOOSE i \in of(id) : \A j \in of(id) : j <= i
      all == {i \in DOMAIN stmts : stmts[i].module = module}
  IN  IF requested # {}
      THEN {[module |-> module, id |-> id,
             status |-> IF of(id) = {} THEN UnflaggedStatus(module, stmts, id)
                        ELSE StatedStatus(stmts[last(id)])] :
              id \in {x \in requested : targeted \/ of(x) # {}}}
      ELSE {[module |-> module, id |-> stmts[i].display, status |-> StatedStatus(stmts[i])] :
              i \in all}

\* AnalyzeSource: the modules that were named, or all that it had a word on.
AnalyzeSource(stmts, names, requested) ==
  LET modules == IF names = <<>> THEN {stmts[i].module : i \in DOMAIN stmts} \ {NoModule} ELSE ToSet(names)
  IN  UNION {SourceFindings(m, stmts, requested, names # <<>>) : m \in modules}
=============================================================================
