------------------------------ MODULE HaulStore ------------------------------
(***************************************************************************)
(* A hauler bundle, read as a fleet (internal/haul, haul.go): an OCI       *)
(* layout in a directory or in an archive that is first unpacked into a    *)
(* temporary directory.                                                    *)
(*                                                                         *)
(* A bundle is a record: packed and whether it unpacks; layouts, the       *)
(* directories holding an index ("top", or names one level down);          *)
(* readable, whether the index parses; and index, the entries in order.    *)
(* An entry's name is hauler's own ("" for a child manifest), original and *)
(* containerd the references recorded beside it ("" or "a|b" when          *)
(* unusable), kind the annotation, media the manifest's type and config    *)
(* what the manifest says of itself ("unreadable" when it cannot be read). *)
(***************************************************************************)
EXTENDS Integers, Sequences, SequencesExt, Selections

Top == "top"

\* layoutRoot: the top, else the only directory below it with an index.
HasLayout(bundle) == Top \in bundle.layouts \/ Cardinality(bundle.layouts) = 1
LayoutRoot(bundle) == IF Top \in bundle.layouts THEN Top ELSE CHOOSE d \in bundle.layouts : TRUE

\* qualify: the first usable reference recorded, else hauler's own name.
Usable(ref) == ref \notin {"", "a|b"}
Recorded(entry) == SelectSeq(<<entry.original, entry.containerd>>, Usable)
Qualified(entry) == Recorded(entry) # <<>>
Qualify(entry) == IF Qualified(entry) THEN Head(Recorded(entry)) ELSE entry.name

\* classify: by annotation, then by media type, then by the manifest read.
Classified(entry) ==
  CASE entry.kind \in {"image", "imageIndex"} -> "image"
    [] entry.kind \in {"sigs", "atts", "sboms", "referrers"} -> "attached"
    [] entry.media \in {"oci index", "docker list", "docker manifest"} -> "image"
    [] entry.media # "oci manifest" -> "unknown"
    [] entry.config = "image" -> "image"
    [] entry.config = "chart" -> "chart"
    [] entry.config = "file" -> "file"
    [] entry.config = "bundle" -> "attached"
    [] OTHER -> "unknown"

\* readIndex: entries without a name are the children of others.
Artifacts(bundle) ==
  LET named == Select(bundle.index, {i \in DOMAIN bundle.index : bundle.index[i].name # ""}) IN
  [i \in DOMAIN named |-> [ref |-> Qualify(named[i]), storeRef |-> named[i].name,
                           qualified |-> Qualified(named[i]), type |-> Classified(named[i])]]
Images(bundle) == Select(Artifacts(bundle), {i \in DOMAIN Artifacts(bundle) : Artifacts(bundle)[i].type = "image"})

Opens(bundle) == /\ bundle.packed => bundle.unpacks
                 /\ HasLayout(bundle) /\ bundle.readable
=============================================================================
