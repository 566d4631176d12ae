----------------------------- MODULE ImageLists -----------------------------
(***************************************************************************)
(* How a fleet is named: a list of lines with assertions and profiles      *)
(* (imagelist.go), a Kubernetes manifest whose containers say how each     *)
(* image is started (k8smanifest.go, internal/k8s), or a hauler manifest   *)
(* (haulmanifest.go).  Each reader returns entries, in order, or refuses   *)
(* the whole list.                                                         *)
(*                                                                         *)
(* An assertion is a function from Keys to a sequence of words, or Unset   *)
(* where it says nothing; a field of a line is a key and the words of its  *)
(* comma-separated value.  A word list that does not parse is the value    *)
(* BadWords.                                                               *)
(***************************************************************************)
EXTENDS Integers, Sequences, SequencesExt, Selections

CONSTANTS Unset, NoAssertion   \* a key an assertion leaves alone; a nil assertion

ListKeys == {"roots", "dlopen-assume-none", "entrypoint", "cmd"}
PolicyKeys == {"dlopen-policy", "exec-policy", "dynamic-import-policy"}
Keys == ListKeys \cup PolicyKeys \cup {"profile", "from"}
BadWords == <<"unparsable">>

Refused == [ok |-> FALSE, entries |-> <<>>]
Accepted(entries) == [ok |-> TRUE, entries |-> entries]
Entry(ref, how) == [ref |-> ref, assert |-> how]
Silent == [k \in Keys |-> Unset]
-----------------------------------------------------------------------------
(* Fields.                                                                 *)
Named(fields, k) == {i \in DOMAIN fields : fields[i].key = k}
WordsOf(fields, k) == FlattenSeq([i \in DOMAIN fields |-> IF fields[i].key = k THEN fields[i].words ELSE <<>>])

\* applyAssertFields refuses a list at its first bad field.
FieldRefused(fields, i, inProfile) ==
  LET f == fields[i] IN
  \/ f.key \notin ListKeys \cup PolicyKeys \cup {"profile"}
  \/ f.key = "profile" /\ inProfile
  \/ f.key \in PolicyKeys /\ f.words = BadWords
  \/ f.key = "entrypoint" /\ f.words = <<>>
  \/ f.key \in {"roots", "dlopen-assume-none"} /\ WordsOf(SubSeq(fields, 1, i), f.key) = <<>>
FieldsRefused(fields, inProfile) == \E i \in DOMAIN fields : FieldRefused(fields, i, inProfile)

\* A key the line names replaces what its profile said; the words of a key
\* named twice add up; the last policy named wins.
ApplyFields(a, fields, from) ==
  [k \in Keys |->
     CASE k \in ListKeys /\ Named(fields, k) # {} -> WordsOf(fields, k)
       [] k \in PolicyKeys /\ Named(fields, k) # {} -> fields[Max(Named(fields, k))].words
       [] k = "from" /\ Named(fields, "entrypoint") \cup Named(fields, "cmd") # {} -> from
       [] OTHER -> a[k]]
-----------------------------------------------------------------------------
(* A list of lines.                                                        *)
ProfileLines(lines) == {i \in DOMAIN lines : lines[i].kind = "profile"}
ProfileNames(lines) == {lines[i].name : i \in ProfileLines(lines)}
Profile(lines, name, from) ==
  ApplyFields(Silent, lines[CHOOSE i \in ProfileLines(lines) : lines[i].name = name].fields, from)

ProfilesRefused(lines) ==
  \E i \in ProfileLines(lines) :
     \/ lines[i].name = ""
     \/ lines[i].fields = <<>>
     \/ FieldsRefused(lines[i].fields, TRUE)
     \/ \E j \in ProfileLines(lines) : j # i /\ lines[j].name = lines[i].name

LineRefused(lines, i) ==
  LET fields == lines[i].fields IN
  \/ \E j \in Named(fields, "profile") : ~ \E p \in ProfileNames(lines) : fields[j].words = <<p>>
  \/ FieldsRefused(fields, FALSE)

\* parseImageLine: the last profile named, then the line's own fields.
LineAssertion(lines, i, from) ==
  LET fields == lines[i].fields
      names == Named(fields, "profile")
      base == IF names = {} THEN Silent
              ELSE LET p == fields[Max(names)].words IN
                   [Profile(lines, p[1], from) EXCEPT !["profile"] = p]
  IN IF fields = <<>> THEN NoAssertion ELSE ApplyFields(base, fields, from)

\* parseImageList: a repeat is dropped if neither it nor the first asserts
\* anything, and refused otherwise.
SameRef(lines, i, j) == lines[i].kind = "image" /\ lines[j].kind = "image" /\ lines[i].name = lines[j].name
RepeatRefused(lines, i, j) == lines[i].fields # <<>> \/ lines[j].fields # <<>>
ParseImageList(lines, from) ==
  LET images == {i \in DOMAIN lines : lines[i].kind = "image"}
      firsts == InOrder(Len(lines), {i \in images : ~ \E j \in 1..(i - 1) : SameRef(lines, i, j)})
  IN IF \/ ProfilesRefused(lines)
        \/ \E i \in images : LineRefused(lines, i)
        \/ \E i, j \in images : j < i /\ SameRef(lines, i, j) /\ RepeatRefused(lines, i, j)
     THEN Refused
     ELSE Accepted([n \in DOMAIN firsts |-> Entry(lines[firsts[n]].name, LineAssertion(lines, firsts[n], from))])
-----------------------------------------------------------------------------
(* A Kubernetes manifest: documents of a kind, with containers (each an    *)
(* image, a command and args, Unset when absent, and whether it sets PATH) *)
(* or, for a List, items.  A hauler manifest: documents with names.        *)
Workloads == {"Pod", "Deployment", "DaemonSet", "StatefulSet", "ReplicaSet", "ReplicationController",
              "Job", "CronJob", "PodTemplate"}

Documents(docs) == FlattenSeq([i \in DOMAIN docs |-> IF docs[i].kind = "List" THEN docs[i].items ELSE <<docs[i]>>])
Containers(docs) ==
  FlattenSeq([i \in DOMAIN Documents(docs) |->
                LET d == Documents(docs)[i] IN IF d.kind \in Workloads THEN d.containers ELSE <<>>])

DocumentRefused(d) == d.kind \notin Workloads /\ d.containers # <<>>
ContainerRefused(c) == \/ c.image = ""
                       \/ BadWords \in {c.command, c.args}
                       \/ c.setsPath /\ c.command \notin {Unset, <<>>} /\ c.command[1] = "relative"

\* Dedupe: one scan can answer for two containers only if they start alike.
SameArgv(c, d) == c.command = d.command /\ c.args = d.args

K8sAssertion(c, from) ==
  [Silent EXCEPT !["entrypoint"] = c.command, !["from"] = from,
                 !["cmd"] = IF c.command # Unset /\ c.args = Unset THEN <<>> ELSE c.args]

K8sEntries(docs, from) ==
  LET cs == Containers(docs)
      firsts == InOrder(Len(cs), {i \in DOMAIN cs : ~ \E j \in 1..(i - 1) : cs[j].image = cs[i].image})
  IN IF \/ \E i \in DOMAIN Documents(docs) : DocumentRefused(Documents(docs)[i])
        \/ \E i \in DOMAIN cs : ContainerRefused(cs[i])
        \/ cs = <<>>
        \/ \E i, j \in DOMAIN cs : cs[i].image = cs[j].image /\ ~SameArgv(cs[i], cs[j])
     THEN Refused
     ELSE Accepted([n \in DOMAIN firsts |-> Entry(cs[firsts[n]].image, K8sAssertion(cs[firsts[n]], from))])
-----------------------------------------------------------------------------
(* A hauler manifest: documents of a kind with the names they list.  Only  *)
(* images are scanned; every other kind is warned about.                   *)
HaulerNames(docs) ==
  FlattenSeq([i \in DOMAIN docs |-> IF docs[i].kind = "Images" THEN docs[i].names ELSE <<>>])
HaulerEntries(docs) ==
  LET names == HaulerNames(docs)
      firsts == InOrder(Len(names), {i \in DOMAIN names : names[i] # "" /\ ~ \E j \in 1..(i - 1) : names[j] = names[i]})
  IN Accepted([n \in DOMAIN firsts |-> Entry(names[firsts[n]], NoAssertion)])
\* A file says what it is by the kinds in it, a workload before the rest.
LooksLikeK8s(docs) == \E i \in DOMAIN docs : docs[i].kind \in Workloads \cup {"List"}
ReadImageList(list) == IF LooksLikeK8s(list.docs) THEN K8sEntries(list.docs, list.from)
                       ELSE IF list.docs # <<>> THEN HaulerEntries(list.docs)
                       ELSE ParseImageList(list.lines, list.from)
-----------------------------------------------------------------------------
(* The command line's images and the list's, each reference once: at its   *)
(* first position, under the assertion of whichever occurrence carried one *)
(* (main.go).                                                              *)
Plain(refs) == [i \in DOMAIN refs |-> Entry(refs[i], NoAssertion)]
DedupeEntries(entries) ==
  LET firsts == InOrder(Len(entries), {i \in DOMAIN entries : ~ \E j \in 1..(i - 1) : entries[j].ref = entries[i].ref})
      Stated(ref) == {i \in DOMAIN entries : entries[i].ref = ref /\ entries[i].assert # NoAssertion}
  IN [n \in DOMAIN firsts |->
        LET ref == entries[firsts[n]].ref IN
        Entry(ref, IF Stated(ref) = {} THEN NoAssertion ELSE entries[Min(Stated(ref))].assert)]
EveryEntrySaysHow(entries) ==
  \A i \in DOMAIN entries : entries[i].assert # NoAssertion /\ entries[i].assert["from"] # Unset

\* scanAssert.apply: what the list said about this image, over the run's
\* options.  How it is started is one statement, not three.
Apply(a, options) ==
  IF a = NoAssertion THEN options
  ELSE [k \in Keys |-> IF k \in {"entrypoint", "cmd", "from"}
                       THEN IF a["from"] # Unset THEN a[k] ELSE options[k]
                       ELSE IF a[k] # Unset THEN a[k] ELSE options[k]]
=============================================================================
