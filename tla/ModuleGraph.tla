----------------------------- MODULE ModuleGraph -----------------------------
(***************************************************************************)
(* modgraph.Build: the breadth-first closure of what an image's program    *)
(* imports, with every hole in it recorded as a taint, and what a package  *)
(* may be told of it.                                                      *)
(*                                                                         *)
(* The language is a parameter, as it is in the code: where the program    *)
(* starts, what a file imports and where a specifier leads.                *)
(***************************************************************************)
EXTENDS Integers, Sequences, FiniteSets

CONSTANTS
  Scans,                      \* the images and command lines to look at
  LangRoots(_),               \* Language.Roots of a scan
  LangImports(_, _),          \* Language.Imports of one file
  LangResolve(_, _, _),       \* Language.Resolve of a specifier in a file
  LangIsModule(_, _),         \* Language.IsModule
  NeedsGraph(_),              \* whether any package of the scan is to be judged by it
  CanonPath(_, _),            \* a path with its symbolic links followed
  SpecTopLevel(_)             \* the name a specifier is looked up by

\* Where a specifier of a file leads, and where all of them do.
TargetsOf(sc, f, s) ==
  LET r == LangResolve(sc, f, s)
  IN  IF r.ok THEN {CanonPath(sc, r.files[j]) : j \in DOMAIN r.files} ELSE {}
SpecsOf(sc, f) ==
  LET specs == LangImports(sc, f).specs IN {specs[i] : i \in DOMAIN specs}
ImportsOf(sc, f) == UNION {TargetsOf(sc, f, s) : s \in SpecsOf(sc, f)}

\* The specifiers of a file that lead nowhere and had to lead somewhere.
Unresolved(sc, f) == {s \in SpecsOf(sc, f) : ~s.optional /\ ~LangResolve(sc, f, s).ok}

RootPaths(sc) == LET roots == LangRoots(sc).roots IN {CanonPath(sc, roots[i].path) : i \in DOMAIN roots}

VARIABLES
  scan,     \* the scan this closure is for
  phase,    \* "roots", then "walk", then "done"; "skipped" without a graph
  rootKind, \* the files that are roots, and why
  queue,    \* files still to visit: the code's order is that of the imports
  reached,  \* the nodes that are reachable
  edges,    \* <<importer, imported>>
  taints    \* what the closure could not account for

buildVars == <<scan, phase, rootKind, queue, reached, edges, taints>>

BuildTypeOK ==
  /\ scan \in Scans
  /\ phase \in {"roots", "walk", "done", "skipped"}
  /\ DOMAIN rootKind \subseteq reached \cup queue
  /\ edges \subseteq reached \X (reached \cup queue)

\* addTaints: what the user asserted away is recorded and no longer blocks.
Assumed(t) ==
  IF t.kind = "dynamic-import" /\ scan.policy = "assume-none"
  THEN [t EXCEPT !.blocking = FALSE, !.global = FALSE] ELSE t
AddTaints(ts) == taints' = taints \cup {Assumed(t) : t \in ts}

UnreadableTaint(f) ==
  [kind |-> "unreadable", path |-> f, spec |-> <<>>, scope |-> {}, blocking |-> TRUE, global |-> TRUE]
UnresolvedTaint(f, s) ==
  [kind |-> "unresolved-import", path |-> f, spec |-> SpecTopLevel(s), scope |-> {},
   blocking |-> TRUE, global |-> FALSE]

BuildInit ==
  /\ scan \in Scans
  /\ phase = "roots"
  /\ rootKind = << >>
  /\ queue = {}
  /\ reached = {}
  /\ edges = {}
  /\ taints = {}

\* A path rooted twice keeps the first reason.
ReasonFor(sc, f) ==
  LET roots == LangRoots(sc).roots
      of == {i \in DOMAIN roots : CanonPath(sc, roots[i].path) = f}
  IN  roots[CHOOSE i \in of : \A j \in of : i <= j].kind

\* Roots and addRoot.
TakeRoots ==
  /\ phase = "roots" /\ NeedsGraph(scan)
  /\ phase' = "walk"
  /\ queue' = RootPaths(scan)
  /\ rootKind' = [f \in RootPaths(scan) |-> ReasonFor(scan, f)]
  /\ AddTaints(LangRoots(scan).taints)
  /\ UNCHANGED <<scan, reached, edges>>

\* AnalyzeImage builds no closure for packages that are absent, or that a bill of
\* materials lists.
Skip ==
  /\ phase = "roots" /\ ~NeedsGraph(scan)
  /\ phase' = "skipped"
  /\ UNCHANGED <<scan, rootKind, queue, reached, edges, taints>>

\* A reachable file that cannot be read hides everything it imports.
VisitUnreadable(f) ==
  /\ phase = "walk" /\ f \in queue /\ LangImports(scan, f).failed
  /\ queue' = queue \ {f}
  /\ reached' = reached \cup {f}
  /\ AddTaints({UnreadableTaint(f)})
  /\ UNCHANGED <<scan, phase, rootKind, edges>>

\* Mutant: nothing is followed from a file one of whose imports leads nowhere.
VisitUntilUnresolved(f) ==
  /\ phase = "walk" /\ f \in queue /\ ~LangImports(scan, f).failed
  /\ reached' = reached \cup {f}
  /\ edges' = edges
  /\ queue' = (queue \cup (IF Unresolved(scan, f) = {} THEN ImportsOf(scan, f) ELSE {})) \ reached'
  /\ AddTaints({UnresolvedTaint(f, s) : s \in Unresolved(scan, f)})
  /\ UNCHANGED <<scan, phase, rootKind>>

\* The scan of one file: its imports are followed to the files not yet visited,
\* and the ones that lead nowhere are tainted.
Visit(f) ==
  /\ phase = "walk" /\ f \in queue /\ ~LangImports(scan, f).failed
  /\ reached' = reached \cup {f}
  /\ edges' = edges \cup ({f} \X ImportsOf(scan, f))
  /\ queue' = (queue \cup ImportsOf(scan, f)) \ reached'
  /\ AddTaints(LangImports(scan, f).taints
                 \cup {UnresolvedTaint(f, s) : s \in Unresolved(scan, f)})
  /\ UNCHANGED <<scan, phase, rootKind>>

Finish ==
  /\ phase = "walk" /\ queue = {}
  /\ phase' = "done"
  /\ UNCHANGED <<scan, rootKind, queue, reached, edges, taints>>

BuildNext ==
  TakeRoots \/ Skip \/ Finish \/ \E f \in queue : Visit(f) \/ VisitUnreadable(f)

BuildSpec == BuildInit /\ [][BuildNext]_buildVars

-----------------------------------------------------------------------------
(* What the closure answers                                                *)

\* Classify: the files of a package that are code, and those that are reached.
ModulesOf(files) == {f \in {CanonPath(scan, g) : g \in files} : LangIsModule(scan, f)}
ReachedOf(files) == ModulesOf(files) \cap reached

\* TaintsFor: what bears on a package that is imported by these names.
TaintsFor(names) ==
  {t \in taints : t.global \/ t.spec \in names \/ t.scope \cap names # {}}

Blockers(names) == {t \in TaintsFor(names) : t.blocking}

-----------------------------------------------------------------------------
(* Properties                                                              *)

\* The closure is closed: once the walk has ended, every root was visited, and
\* every file that a visited one imports (walk and its queue).
ClosureClosed ==
  phase = "done" =>
    /\ RootPaths(scan) \subseteq reached
    /\ \A f \in reached : ~LangImports(scan, f).failed => ImportsOf(scan, f) \subseteq reached

\* Every hole in it is on record: a file that could not be read, what the
\* language said of a file, an import that leads nowhere (walk, addTaints).
HolesRecorded ==
  \A f \in reached :
    IF LangImports(scan, f).failed THEN UnreadableTaint(f) \in taints
    ELSE /\ \A t \in LangImports(scan, f).taints : Assumed(t) \in taints
         /\ \A s \in Unresolved(scan, f) : UnresolvedTaint(f, s) \in taints

\* Both: nothing a package could be reached through is passed over unsaid.
NothingPassedOver == ClosureClosed /\ HolesRecorded
=============================================================================
