------------------------------ MODULE ModuleFiles ------------------------------
(***************************************************************************)
(* What the language analyzers share: paths, the records of modgraph, and  *)
(* the reading of a command line's arguments.                              *)
(*                                                                         *)
(* A path is the sequence of its components, the extension of a file being *)
(* one of its own: <<"app", "server", ".js">>.  A package's name is a      *)
(* sequence too, <<"left">> or <<"@org", "pad">>.                          *)
(***************************************************************************)
EXTENDS Integers, Sequences, FiniteSets, SequencesExt

CONSTANT Dotted  \* Dotted[c]: what precedes the first dot of component c

JsExts == <<".js", ".json", ".node", ".mjs", ".cjs">>
Extensions == ToSet(JsExts) \cup {".py", ".pyc", ".so", ".ts", ".txt", ".class"}

DirOf(f) == SubSeq(f, 1, Len(f) - (IF Last(f) \in Extensions THEN 2 ELSE 1))
ExtOf(f) == IF f # <<>> /\ Last(f) \in Extensions THEN Last(f) ELSE ""
Up(dir, n) == SubSeq(dir, 1, Len(dir) - n)

\* The first of two answers that is one.
FirstOf(a, b) == IF a # <<>> THEN a ELSE b

\* A set as a sequence (SetToSeq looks through every sequence there is).
InOrder(S) ==
  LET order[T \in SUBSET S] ==
        IF T = {} THEN <<>> ELSE LET x == CHOOSE y \in T : TRUE IN <<x>> \o order[T \ {x}]
  IN  order[S]

Pkgs(im) == ToSet(im.packages)

-----------------------------------------------------------------------------
(* The records of modgraph                                                 *)

Taint(kind, path, spec, scope, blocking, global) ==
  [kind |-> kind, path |-> path, spec |-> spec, scope |-> scope,
   blocking |-> blocking, global |-> global]

NoSpec == <<>>
GlobalTaint(kind) == Taint(kind, <<>>, NoSpec, {}, TRUE, TRUE)

Root(path, kind) == [path |-> path, kind |-> kind]
RootsOf(files, kind) == [i \in DOMAIN files |-> Root(files[i], kind)]
Start(roots, taints) == [roots |-> roots, taints |-> taints]

NoImports == [failed |-> FALSE, specs |-> <<>>, taints |-> {}]
FailedImports == [NoImports EXCEPT !.failed = TRUE]

\* The first component of a specifier: up to a slash or a dot.  One that is
\* relative has none that names a package.
TopLevel(spec) ==
  LET c == Head(spec.parts)
  IN  IF spec.kind # "bare" \/ spec.parts = <<>> THEN <<>>
      ELSE <<IF c \in DOMAIN Dotted THEN Dotted[c] ELSE c>>

\* With a root that the user named, not knowing the command no longer blocks.
Demoted(taints, explicit) ==
  {IF explicit # <<>> /\ t.kind \in {"no-entrypoint", "foreign-entrypoint"}
   THEN [t EXCEPT !.blocking = FALSE, !.global = FALSE] ELSE t : t \in taints}

-----------------------------------------------------------------------------
(* Arguments                                                               *)

\* The arguments that are the value of the option before them.
IsValue(args) ==
  LET value[i \in 0 .. Len(args)] ==
        IF i <= 1 THEN FALSE ELSE args[i - 1].kind = "valued" /\ ~value[i - 1]
  IN  value

\* What an interpreter goes by: the first argument that is neither an option
\* it ignores nor the value of one, or none.
Decisive(args) ==
  LET plain == {i \in DOMAIN args : ~IsValue(args)[i] /\ args[i].kind \notin {"flag", "valued"}}
  IN  IF plain = {} THEN [kind |-> "end"]
      ELSE args[CHOOSE i \in plain : \A j \in plain : i <= j]
=============================================================================
