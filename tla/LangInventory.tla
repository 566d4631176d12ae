----------------------------- MODULE LangInventory -----------------------------
(***************************************************************************)
(* langdb: the installed packages of an image's file tree, one reader per  *)
(* language.  A reader's answer is a sequence of packages and what it could *)
(* not read or name, which a claim of absence must not pass over.          *)
(***************************************************************************)
EXTENDS ModuleFiles

CONSTANT MaxNPMDepth

Inventory(pkgs, unreadable, unidentified) ==
  [packages |-> InOrder(pkgs), unreadable |-> unreadable, unidentified |-> unidentified]

-----------------------------------------------------------------------------
(* npm: tree.dirs, tree.files, the readable package.json files by their     *)
(* directory, the directories that hold one, those that cannot be listed.  *)

\* Directories that hold packages, that no other such directory contains.
TopNodeModules(tree) ==
  LET all == {d \in tree.dirs : d # <<>> /\ Last(d) = "node_modules"}
  IN  {d \in all : ~\E o \in all : IsStrictPrefix(o, d)}

\* What a node_modules directory has for packages: its entries, and those of
\* its scopes.  A directory that cannot be listed has none.
EntriesOf(tree, nm) ==
  {d \in tree.dirs : /\ nm \notin tree.unlistable
                     /\ \/ Len(d) = Len(nm) + 1 /\ Last(d) \notin tree.scopeDirs
                        \/ Len(d) = Len(nm) + 2 /\ d[Len(nm) + 1] \in tree.scopeDirs
                     /\ IsStrictPrefix(nm, d)}

\* readNodeModules: those of one level, then of the node_modules inside each.
NodePackageDirs(tree) ==
  LET level[n \in 0 .. MaxNPMDepth] ==
        LET homes == IF n = 0 THEN TopNodeModules(tree)
                     ELSE {Append(d, "node_modules") : d \in level[n - 1]} \cap tree.dirs
        IN  UNION {EntriesOf(tree, nm) : nm \in homes}
  IN  UNION {level[n] : n \in 0 .. MaxNPMDepth}

\* walkFiles: all below the package, but for what its own node_modules hold.
FilesBelow(tree, d) ==
  {f \in tree.files : IsStrictPrefix(d, f) /\ ~IsPrefix(Append(d, "node_modules"), f)}

\* readNPMPackage: a directory is a package when it has a manifest.
ReadNPM(tree) ==
  LET found == {d \in NodePackageDirs(tree) : d \in tree.hasManifest}
      read == found \cap DOMAIN tree.manifest
  IN  Inventory({[name |-> tree.manifest[d].name, dir |-> d, files |-> FilesBelow(tree, d),
                  filesKnown |-> TRUE, coordsKnown |-> TRUE,
                  importNames |-> {tree.manifest[d].name}] : d \in read},
                found \ read, {})

-----------------------------------------------------------------------------
(* PyPI: tree.dists is the metadata directories of every site-packages.    *)

\* importNamesFromFiles: the first component of what is installed below the
\* site-packages directory.
ImportNamesFrom(root, files) ==
  {<<f[Len(root) + 1]>> : f \in {g \in files : IsStrictPrefix(root, g)}}

\* The directories and modules that the import names name.
GuessedFiles(tree, d, names) ==
  {f \in tree.files : \E n \in names : IsStrictPrefix(d.root \o n, f)}

\* readDist: each fact from the best source there is for it.
ReadDist(tree, d) ==
  LET name == IF d.name # <<>> THEN d.name ELSE d.dirName
      known == d.record # {}
      fromFiles == IF known THEN ImportNamesFrom(d.root, d.record) ELSE {}
      names == CASE d.topLevel # {} -> d.topLevel
                 [] d.topLevel = {} /\ fromFiles # {} -> fromFiles
                 [] OTHER -> {name}
  IN  [name |-> name, dir |-> d.dir, importNames |-> names,
       files |-> IF known THEN d.record ELSE GuessedFiles(tree, d, names),
       filesKnown |-> known, coordsKnown |-> TRUE,
       requires |-> d.requires, requiresKnown |-> d.metadata, entryPoints |-> d.entryPoints]

NamedDist(d) == d.name # <<>> \/ d.dirName # <<>>

ReadPyPI(tree) ==
  Inventory({ReadDist(tree, d) : d \in {x \in tree.dists : NamedDist(x)}},
            {d.dir : d \in {x \in tree.dists : ~NamedDist(x)}}, {})

-----------------------------------------------------------------------------
(* Maven: tree.archives, each with what it says of itself.                 *)

\* readCoords: the coordinates an archive states, or else the one its manifest
\* or its name suggests.
CoordsOf(a) ==
  CASE a.stated # {} -> {[name |-> n, known |-> TRUE] : n \in a.stated}
    [] a.stated = {} /\ a.suggested # {} -> {[name |-> n, known |-> FALSE] : n \in a.suggested}
    [] OTHER -> {}

\* Mutant: embedded archives are not looked at.
OpenedOutside(tree) == {a \in tree.archives : a.opens}

\* newArchive: an archive and those embedded in it, one level down.
Opened(tree) ==
  LET outer == {a \in tree.archives : a.opens}
  IN  outer \cup {n \in UNION {a.nested : a \in outer} : n.opens}

Unopened(tree) ==
  LET all == tree.archives \cup UNION {a.nested : a \in {b \in tree.archives : b.opens}}
  IN  {a.path : a \in {b \in all : ~b.opens}}

\* collect: an archive that names no artifact is of no package, unless it is
\* part of the Java runtime.
ReadMaven(tree) ==
  Inventory(UNION {{[name |-> c.name, dir |-> a.path, files |-> a.entries, filesKnown |-> TRUE,
                     coordsKnown |-> c.known, importNames |-> {c.name}] : c \in CoordsOf(a)} :
                     a \in Opened(tree)},
            Unopened(tree),
            {[path |-> a.path, hasClasses |-> \E e \in a.entries : Last(e) = ".class"] :
               a \in {b \in Opened(tree) : CoordsOf(b) = {} /\ ~b.platform}})
=============================================================================
