------------------------------ MODULE ElfClosure ------------------------------
(***************************************************************************)
(* elfgraph.Build and ospkg's evaluate: which shared objects the dynamic   *)
(* linker would load from what an image runs, what the closure could not   *)
(* account for, and the verdict about a package that follows from both.    *)
(***************************************************************************)
EXTENDS Integers, Sequences, FiniteSets, SequencesExt, Selections

CONSTANTS
  Scans,       \* the option sets considered, see ScanType
  Order,       \* the ELF objects of the image in path order
  Sonames,     \* names a DT_NEEDED may have
  Dirs,        \* library directories
  DefaultDirs, \* ld.so.conf's and the built-in directories, in order
  At,          \* At[d][s]: the object the entry s of d leads to, or None
  Elf,         \* Elf[o]: an object's header, see HeaderType
  InPath,      \* objects in a directory programs are looked up in
  WaitsFor,    \* WaitsFor[o]: the library that opens a plugin by name, "any" if
               \* that could be any program, "" if o is no plugin
  Loads,       \* Loads[o]: the library that o is, for WaitsFor, or ""
  PluginsOf,   \* PluginsOf[o]: the plugins a recognized loader is confined to
  Mentions,    \* Mentions[o]: programs whose path occurs in o
  Answers,     \* Answers[n]: the objects whose path or SONAME the name n is
  Packages,    \* the packages judged, with the objects each installs
  Symbols,     \* what the symbol check may answer about an advisory's symbols
  None

Objects == ToSet(Order)
Programs == {o \in Objects : Elf[o].program}
RootKinds == {"none", "plugin", "escalated", "explicit"}
TaintKinds ==
  {"missing-root", "no-entrypoint", "shell-entrypoint", "exec", "unresolved-needed",
   "dlopen", "static-elf", "inert-assertion"}

HeaderType ==
  [needed : Seq(Sonames), rpath : Seq(Dirs), runpath : Seq(Dirs), interp : Objects \cup {None},
   abi : {"32", "64"}, program : BOOLEAN, names : SUBSET Sonames, soname : BOOLEAN]

TokenType == [kind : {"wrapper", "odd_wrapper", "shell", "command"}, object : Objects \cup {None}]

ScanType ==
  [entrypoint : Seq(TokenType), cmd : Seq(TokenType),
   overEntrypoint : Seq(TokenType) \cup {None}, overCmd : Seq(TokenType) \cup {None},
   roots : Seq(Objects \cup {None}), execAssumed : BOOLEAN, dlopenAssumed : BOOLEAN,
   assumedFor : Seq(DOMAIN Answers), dlopen : SUBSET Objects, redirected : BOOLEAN,
   spawns : [Objects -> {"yes", "no", "unknown"}], closed : SUBSET Objects, ldpath : Seq(Dirs)]

ASSUME ClosureAssumption ==
  /\ Scans \subseteq ScanType
  /\ Order \in Seq(Objects)
  /\ At \in [Dirs -> [Sonames -> Objects \cup {None}]]
  /\ Elf \in [Objects -> HeaderType]
  /\ DefaultDirs \in Seq(Dirs)
  /\ InPath \subseteq Objects
  /\ PluginsOf \in [Objects -> SUBSET Objects] /\ Mentions \in [Objects -> SUBSET Objects]
  /\ \A n \in DOMAIN Answers : Answers[n] \subseteq Objects
  /\ None \notin Objects \cup DOMAIN Answers
  /\ \A pkg \in Packages : pkg.objects \subseteq Objects
  \* Build refuses the two assertions together.
  /\ \A s \in Scans : s.dlopenAssumed => s.assumedFor = <<>>

VARIABLES
  scan,    \* the image's command line, the user's options, what probers say
  phase,   \* what Build does next
  root,    \* root[o]: the strongest reason to start from o
  pending, \* plugins whose loader the walk has not reached
  queue,   \* objects to visit, with the DT_RPATH of what loads them
  seen,    \* the closure: objects visited, which are the reachable ones
  missing, \* <<o, s>>: nothing satisfied o's need of s
  taints   \* what the closure could not account for

vars == <<scan, phase, root, pending, queue, seen, missing, taints>>

walk == <<pending, queue, seen, missing>>

Init ==
  /\ scan \in Scans
  /\ phase = "plugins"
  /\ root = [o \in Objects |-> "none"]
  /\ pending = {} /\ queue = <<>> /\ seen = {} /\ missing = {} /\ taints = {}

Taint(kind, path, soname, blocking, global, discharged) ==
  [kind |-> kind, path |-> path, soname |-> soname, blocking |-> blocking,
   global |-> global, discharged |-> discharged]

-----------------------------------------------------------------------------
(* markRoots                                                               *)

Strength == [none |-> 0, plugin |-> 1, escalated |-> 2, explicit |-> 3]

\* addRoot: the strongest reason wins.
AddRoots(roots, objects, kind) ==
  [o \in Objects |->
     IF o \in objects /\ Strength[kind] > Strength[roots[o]] THEN kind ELSE roots[o]]

MarkPlugins ==
  /\ phase = "plugins"
  /\ root' = AddRoots(root, {o \in Objects : WaitsFor[o] = "any"}, "plugin")
  /\ pending' = {o \in Objects : WaitsFor[o] \notin {"", "any"}}
  /\ phase' = "roots"
  /\ UNCHANGED <<scan, queue, seen, missing, taints>>

UserRoots == ToSet(scan.roots) \cap Objects

\* --roots: one that names no object of the image blocks.
MarkUserRoots ==
  /\ phase = "roots"
  /\ root' = AddRoots(root, UserRoots, "explicit")
  /\ taints' = taints \cup (IF None \in ToSet(scan.roots)
                            THEN {Taint("missing-root", None, None, TRUE, TRUE, FALSE)} ELSE {})
  /\ phase' = "entrypoint"
  /\ UNCHANGED <<scan, walk>>

\* Options.argv: an override replaces its half of the command, an empty one too.
Argv ==
  (IF scan.overEntrypoint # None THEN scan.overEntrypoint ELSE scan.entrypoint)
    \o (IF scan.overCmd # None THEN scan.overCmd ELSE scan.cmd)

\* The transparent wrappers in front of the command, and what is left of it.
Wrappers ==
  {i \in DOMAIN Argv : \A j \in 1 .. i : Argv[j].kind = "wrapper"}

Command == SubSeq(Argv, Cardinality(Wrappers) + 1, Len(Argv))

\* Mutant: an unknown entrypoint roots what is on the PATH only.
EscalatePath == InPath

Escalated == Programs \cup InPath

\* The user has said both where execution starts and that nothing else does.
Asserted == UserRoots # {} /\ scan.execAssumed

\* unknownEntrypoint, with what the command line names rooted all the same.
UnknownEntrypoint(kind, named) ==
  /\ taints' = taints \cup {Taint(kind, None, None, FALSE, FALSE, Asserted)}
  /\ root' = AddRoots(IF Asserted THEN root ELSE AddRoots(root, Escalated, "escalated"),
                      named \ {None}, "explicit")
  /\ phase' = IF Asserted THEN "probe" ELSE "walk"

WrapperObjects == {Argv[i].object : i \in Wrappers}

MarkEntrypoint ==
  /\ phase = "entrypoint"
  /\ \/ /\ Command = <<>>
        /\ UnknownEntrypoint("no-entrypoint", WrapperObjects)
     \/ /\ Command # <<>>
        /\ Head(Command).kind \in {"shell", "odd_wrapper"}
        /\ UnknownEntrypoint("shell-entrypoint", WrapperObjects \cup {Head(Command).object})
     \/ /\ Command # <<>>
        /\ Head(Command).kind = "command" /\ Head(Command).object = None
        /\ UnknownEntrypoint("no-entrypoint", WrapperObjects)
     \/ /\ Command # <<>>
        /\ Head(Command).kind = "command" /\ Head(Command).object # None
        /\ root' = AddRoots(root, (WrapperObjects \cup {Head(Command).object}) \ {None}, "explicit")
        /\ phase' = "probe"
        /\ UNCHANGED taints
  /\ UNCHANGED <<scan, walk>>

\* probeExec: the explicit roots are asked whether they start other programs,
\* and the programs they mention are rooted too.
ProbeExec ==
  /\ phase = "probe"
  /\ LET subjects == {o \in Objects : root[o] = "explicit" /\ scan.spawns[o] # "unknown"}
         spawners == {o \in subjects : scan.spawns[o] = "yes"}
         threat(o) == o \in spawners /\ ~scan.execAssumed
     IN  /\ root' = AddRoots(root, UNION {(Mentions[o] \cap Programs) \ {o} : o \in spawners}, "explicit")
         /\ taints' = taints \cup
              {Taint("exec", o, None, threat(o), threat(o), ~threat(o)) : o \in subjects}
  /\ phase' = "walk"
  /\ UNCHANGED <<scan, walk>>

-----------------------------------------------------------------------------
(* walkClosure                                                             *)

Frame(o, rpath) == [object |-> o, rpath |-> rpath]

StartWalk ==
  /\ phase = "walk"
  /\ LET roots == Select(Order, {i \in DOMAIN Order : root[Order[i]] # "none"})
     IN  queue' = [i \in DOMAIN roots |-> Frame(roots[i], <<>>)]
  /\ phase' = "visit"
  /\ UNCHANGED <<scan, root, pending, seen, missing, taints>>

\* Where a DT_NEEDED of o is looked for: DT_RUNPATH turns off DT_RPATH, the
\* object's own and what it inherited, and is not inherited itself.
OwnRPath(o, rpath) == IF Elf[o].runpath = <<>> THEN Elf[o].rpath \o rpath ELSE <<>>
Search(o, rpath) == OwnRPath(o, rpath) \o scan.ldpath \o Elf[o].runpath \o DefaultDirs
ChildRPath(o, rpath) == IF Elf[o].runpath = <<>> THEN Elf[o].rpath \o rpath ELSE rpath

Resolve(o, soname, dirs) ==
  LET fits(d) == At[d][soname] # None /\ Elf[At[d][soname]].abi = Elf[o].abi
      hits == {i \in DOMAIN dirs : fits(dirs[i])}
  IN  IF hits = {} THEN None ELSE At[dirs[Min(hits)]][soname]

\* Mutant: only the roots are marked as visited.
VisitedRoot(o) == o \in seen /\ root[o] # "none"

Visited(o) == o \in seen

Skip ==
  /\ phase = "visit" /\ queue # <<>>
  /\ Visited(Head(queue).object)
  /\ queue' = Tail(queue)
  /\ UNCHANGED <<scan, phase, root, pending, seen, missing, taints>>

\* The program interpreter is loaded by the kernel; the rest by DT_NEEDED.
Visit ==
  /\ phase = "visit" /\ queue # <<>>
  /\ LET o == Head(queue).object
         rpath == Head(queue).rpath
         dep(s) == Resolve(o, s, Search(o, rpath))
         found == Select(Elf[o].needed, {i \in DOMAIN Elf[o].needed : dep(Elf[o].needed[i]) # None})
         interp == IF Elf[o].interp = None THEN <<>> ELSE <<Frame(Elf[o].interp, <<>>)>>
     IN  /\ ~Visited(o)
         /\ seen' = seen \cup {o}
         /\ missing' = missing \cup {<<o, s>> : s \in {t \in ToSet(Elf[o].needed) : dep(t) = None}}
         /\ queue' = Tail(queue) \o interp
                       \o [i \in DOMAIN found |-> Frame(dep(found[i]), ChildRPath(o, rpath))]
  /\ UNCHANGED <<scan, phase, root, pending, taints>>

Openable(o) == \E l \in seen : Loads[l] = WaitsFor[o]

\* admitPlugins: what waits and is not in the closure by another route.
Admitted == {o \in pending : root[o] = "none" /\ o \notin seen /\ Openable(o)}

\* The queue has drained: the plugins whose loader is now in reach are rooted
\* and walked from, until there are none.
AdmitPlugins ==
  /\ phase = "visit" /\ queue = <<>>
  /\ pending' = {o \in pending : root[o] = "none" /\ o \notin seen /\ ~Openable(o)}
  /\ root' = AddRoots(root, Admitted, "plugin")
  /\ LET admitted == Select(Order, {i \in DOMAIN Order : Order[i] \in Admitted})
     IN  /\ queue' = [i \in DOMAIN admitted |-> Frame(admitted[i], <<>>)]
         /\ phase' = IF admitted = <<>> THEN "taints" ELSE "visit"
  /\ UNCHANGED <<scan, seen, missing, taints>>

-----------------------------------------------------------------------------
(* collectTaints                                                           *)

\* A recognized loader is bounded to its plugin directories when nothing
\* redirects it and the closure roots one of its plugins there.
Bounded(o) == ~scan.redirected /\ \E p \in PluginsOf[o] : root[p] = "plugin"

\* matchDlopenAssertion: the first name the user gave that is o's.
AssumedBy(o) ==
  LET names == {i \in DOMAIN scan.assumedFor : o \in Answers[scan.assumedFor[i]]}
  IN  IF names = {} THEN None ELSE scan.assumedFor[Min(names)]

DlopenAnswered(o) == scan.dlopenAssumed \/ Bounded(o) \/ AssumedBy(o) # None

Unresolved == {Taint("unresolved-needed", m[1], m[2], TRUE, FALSE, FALSE) : m \in missing}

Dlopens ==
  {Taint("dlopen", o, None, ~DlopenAnswered(o), ~DlopenAnswered(o), DlopenAnswered(o)) :
     o \in seen \cap scan.dlopen}

\* Only a static entrypoint blocks; a prober may account for what it carries.
StaticBlocks(o) == root[o] = "explicit" /\ o \notin scan.closed

StaticDischarged(o) == root[o] = "explicit" /\ o \in scan.closed

Statics ==
  LET statics == {o \in Objects : /\ o \in seen /\ root[o] \in {"escalated", "explicit"}
                                  /\ Elf[o].interp = None}
  IN  {Taint("static-elf", o, None, StaticBlocks(o), StaticBlocks(o), StaticDischarged(o)) :
         o \in statics}

\* Mutant: a name that lost to what the graph found is inert too.
InertIfBounded ==
  ToSet(scan.assumedFor) \ {AssumedBy(o) : o \in {c \in seen \cap scan.dlopen : ~Bounded(c)}}

\* The names the user gave that answered no caller.
Inert == ToSet(scan.assumedFor) \ {AssumedBy(o) : o \in seen \cap scan.dlopen}

CollectTaints ==
  /\ phase = "taints"
  /\ taints' = taints \cup Unresolved \cup Dlopens \cup Statics
                 \cup {Taint("inert-assertion", a, None, FALSE, FALSE, FALSE) : a \in Inert}
  /\ phase' = "done"
  /\ UNCHANGED <<scan, root, walk>>

Done == phase = "done" /\ UNCHANGED vars

MarkRoots == MarkPlugins \/ MarkUserRoots \/ MarkEntrypoint \/ ProbeExec
Walk == StartWalk \/ Skip \/ Visit \/ AdmitPlugins

Next == MarkRoots \/ Walk \/ CollectTaints \/ Done

\* Build is one goroutine that runs to its end.
Spec == Init /\ [][Next]_vars /\ WF_vars(MarkRoots \/ Walk \/ CollectTaints)

-----------------------------------------------------------------------------
(* ospkg's evaluate, for a package and the outcome of the symbol check      *)

SonamesOf(pkg) == UNION {Elf[o].names : o \in pkg.objects}

\* An unresolved soname is about the package that provides it.
Blockers(pkg, cleared) ==
  {t \in taints : /\ t.blocking
                  /\ t.kind = "static-elf" => t.path \notin cleared
                  /\ t.global \/ t.soname \in SonamesOf(pkg)}

\* Mutant: a static entrypoint threatens reachability only.
ThreatensPresenceNever(kind) == kind \notin {"dlopen", "unresolved-needed", "static-elf"}

ThreatensPresence(kind) == kind \notin {"dlopen", "unresolved-needed"}

\* A package of programs alone is linked into nothing.
ProgramsOnly(pkg) ==
  ~pkg.archive /\ \A o \in pkg.objects : Elf[o].program /\ ~Elf[o].soname

\* The static entrypoints that cannot hide the package's code.
Cleared(pkg, sym) ==
  IF ProgramsOnly(pkg) THEN Objects ELSE IF sym.usable THEN sym.proof ELSE {}

Verdict(pkg, sym) ==
  LET blockers == Blockers(pkg, Cleared(pkg, sym))
      presence == {t \in blockers : ThreatensPresence(t.kind)}
      reached == pkg.objects \cap seen
  IN  CASE pkg.objects = {} -> "no-code"
        [] pkg.objects # {} /\ sym.usable /\ ~sym.defined /\ presence = {} -> "dynsym-absent"
        [] pkg.objects # {} /\ sym.usable /\ sym.defined /\ sym.importers \cap seen = {}
             /\ reached # {} /\ sym.trust /\ blockers = {} -> "import-absent"
        [] pkg.objects # {} /\ ~(sym.usable /\ ~sym.defined /\ presence = {})
             /\ reached = {} /\ blockers = {} -> "needed-closure"
        [] OTHER -> "linked"

-----------------------------------------------------------------------------
(* What may really be loaded, if what the user asserts is true             *)

\* The command line names a program that runs nothing but itself.
CommandKnown ==
  Command # <<>> /\ Head(Command).kind = "command" /\ Head(Command).object # None

\* Programs the user or the command line names: they run.
Named ==
  (UserRoots \cup WrapperObjects
     \cup IF Command = <<>> THEN {} ELSE {Head(Command).object}) \ {None}

\* Any program may run beside them when something the closure cannot see into
\* starts it: a shell, an unknown command, a root that is no ELF object, an
\* entrypoint that execs, unless the user has answered for it.
AnyProgram ==
  \/ None \in ToSet(scan.roots)
  \/ ~CommandKnown /\ ~Asserted
  \/ (\E o \in Named : scan.spawns[o] = "yes") /\ ~scan.execAssumed

Started == Named \cup IF AnyProgram THEN Programs ELSE {}

\* One round of loading, from frames of what has been loaded: the interpreter,
\* each DT_NEEDED along the chain that led to it, the plugins of a loaded
\* loader, what a dlopen caller is free to load.
LoadFrom(frames) ==
  LET loaded == {f.object : f \in frames}
      free(o) == o \in scan.dlopen /\ ~scan.dlopenAssumed /\ AssumedBy(o) = None
  IN  frames
      \cup {Frame(Elf[o].interp, <<>>) : o \in {x \in loaded : Elf[x].interp # None}}
      \cup (UNION {{Frame(Resolve(f.object, s, Search(f.object, f.rpath)), ChildRPath(f.object, f.rpath)) :
                      s \in {t \in ToSet(Elf[f.object].needed) :
                               Resolve(f.object, t, Search(f.object, f.rpath)) # None}} : f \in frames})
      \cup {Frame(p, <<>>) : p \in {q \in Objects : \E l \in loaded : WaitsFor[q] # "" /\ WaitsFor[q] \in {"any", Loads[l]}}}
      \cup {Frame(p, <<>>) : p \in UNION {IF scan.redirected \/ PluginsOf[o] = {} THEN Objects ELSE PluginsOf[o] :
                                          o \in {x \in loaded : free(x)}}}

\* All that a set of processes may load.
Loadable(started) ==
  LET round[n \in 0 .. Len(Order)] ==
        IF n = 0 THEN {Frame(o, <<>>) : o \in started} ELSE LoadFrom(round[n - 1])
  IN  {f.object : f \in round[Len(Order)]}

\* What the walk relies on and does not check.  It keeps the DT_RPATH of the
\* first chain that leads to an object: no chain may find the object something
\* that its own DT_RPATH does not.
RPathsAreOwn ==
  \A o \in Objects : Elf[o].runpath = <<>> =>
    \A p \in Objects : \A d \in ToSet(Elf[p].rpath) : \A s \in ToSet(Elf[o].needed) :
      At[d][s] # None /\ Elf[At[d][s]].abi = Elf[o].abi => d \in ToSet(Elf[o].rpath)

\* It discharges a recognized loader when one plugin of its directories is
\* rooted: what else lies there must wait for the same library.
OneFamily == \A o \in Objects : \A p, q \in PluginsOf[o] : WaitsFor[p] = WaitsFor[q]

\* The static programs that run and may carry a copy of a library's code.
Opaque == {o \in Named : Elf[o].interp = None} \ scan.closed

-----------------------------------------------------------------------------
TypeOK ==
  /\ scan \in Scans
  /\ phase \in {"plugins", "roots", "entrypoint", "probe", "walk", "visit", "taints", "done"}
  /\ root \in [Objects -> RootKinds]
  /\ pending \subseteq Objects /\ seen \subseteq Objects
  /\ queue \in Seq([object : Objects, rpath : Seq(Dirs)])
  /\ missing \subseteq seen \X Sonames
  /\ \A t \in taints :
       /\ t.kind \in TaintKinds
       /\ t.path \in Objects \cup DOMAIN Answers \cup {None} /\ t.soname \in Sonames \cup {None}
       /\ t.blocking => ~t.discharged

\* A package is said not to be in the execute path only if no process of the
\* image can load one of its objects: not by DT_NEEDED along any chain, not as
\* a plugin, by dlopen, or in a program that something else starts; and no
\* program that runs may carry its code inside itself.
UnreachableIsUnloadable ==
  phase = "done" =>
    LET loadable == Loadable(Started) IN
    \A pkg \in Packages : \A sym \in Symbols : Verdict(pkg, sym) = "needed-closure" =>
      /\ pkg.objects \cap loadable = {}
      /\ Opaque \subseteq Cleared(pkg, sym)

\* A vulnerable function is said to be absent from an image only if no program
\* that runs may hold a copy of it that the package's own tables do not show,
\* and every program that runs has been found.
AbsenceIsComplete ==
  phase = "done" =>
    \A pkg \in Packages : \A sym \in Symbols : Verdict(pkg, sym) = "dynsym-absent" =>
      /\ Opaque \subseteq Cleared(pkg, sym)
      /\ None \notin ToSet(scan.roots)

\* Nothing that could have withheld a clean verdict goes unsaid: every dlopen
\* caller and static program in the closure and every entrypoint that execs has
\* a taint, which blocks unless something answered it, and every assertion the
\* user made either met a caller or is reported to have met none.
ThreatsAreSaid ==
  phase = "done" =>
    /\ \A o \in seen \cap scan.dlopen : \E t \in taints : t.kind = "dlopen" /\ t.path = o
    /\ \A o \in Opaque : \E t \in taints : t.kind = "static-elf" /\ t.path = o /\ t.blocking
    /\ \A o \in {x \in Named : scan.spawns[x] = "yes"} :
         \/ \E t \in taints : t.kind = "exec" /\ t.path = o /\ (t.blocking \/ scan.execAssumed)
         \/ ~CommandKnown /\ Programs \subseteq seen
    /\ \A a \in ToSet(scan.assumedFor) :
         LET inert == \E t \in taints : t.kind = "inert-assertion" /\ t.path = a
             callers == {t \in taints : t.kind = "dlopen" /\ t.path \in Answers[a]}
         IN  (callers = {} => inert) /\ (inert => \A t \in callers : AssumedBy(t.path) # a)

\* The walk ends, although libraries may need each other, loaders arrive through
\* plugins and plugins through loaders.
BuildEnds == <>(phase = "done")
=============================================================================
