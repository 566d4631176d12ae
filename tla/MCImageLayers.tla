----------------------------- MODULE MCImageLayers ----------------------------
(***************************************************************************)
(* Layers that each do one thing untar treats specially, stacked in every  *)
(* order; and a root file system whose user lacks up to two rights.        *)
(***************************************************************************)
EXTENDS ImageLayers

CONSTANTS usr, lib, so, old, new, huge

U == <<usr>>
UL == <<usr, lib>>
ULS == <<usr, lib, so>>
L == <<lib>>
LS == <<lib, so>>

Entry(type, path) == [type |-> type, path |-> path, data |-> old, abs |-> FALSE, to |-> <<>>]
D(path) == Entry("dir", path)
F(path, data) == [Entry("file", path) EXCEPT !.data = data]
Ln(path, abs, to) == [Entry("link", path) EXCEPT !.abs = abs, !.to = to]
Hard(path, to) == [Entry("hard", path) EXCEPT !.to = to]
White(path) == Entry("white", path)
Opaque(path) == Entry("opaque", path)

MCLayers ==
  {<<D(<<>>), D(U), D(UL), F(ULS, old), F(<<usr, so>>, old)>>, \* a base
   <<Ln(L, FALSE, UL)>>, \* a merged /usr
   <<Ln(L, TRUE, <<usr, Up, usr, lib>>), Ln(<<so>>, FALSE, LS)>>, \* a link to a path with a link
   <<Ln(<<so>>, FALSE, <<Up, so>>)>>, \* a loop
   <<F(LS, new)>>, \* through a link, or without its directory's entry
   <<D(L), F(LS, new)>>, \* a directory over a link or file
   <<F(U, new)>>, \* a file over a directory
   <<D(L), Opaque(L), D(U), White(UL)>>,
   <<White(LS)>>, \* through a link
   <<D(U), D(UL), Opaque(UL), F(<<usr, lib, lib>>, new)>>,
   <<D(U), Opaque(U), Ln(UL, TRUE, <<so>>)>>,
   <<Opaque(<<>>), F(<<so>>, new)>>,
   <<D(U), F(<<usr, so>>, new), Hard(<<so>>, <<usr, so>>)>>,
   <<Hard(<<usr, so>>, <<so>>), Hard(<<so>>, U)>>, \* to a lower layer's, to a directory
   <<White(<<so>>), F(<<so>>, huge)>>,
   <<D(U), F(<<usr, so>>, new), White(<<usr, so>>), Entry("other", L)>>} \* added, then deleted

MCSizeOf == (old :> 1) @@ (new :> 1) @@ (huge :> 3)

\* /lib leads into /usr/lib; /usr/so leads out of /usr to /so.
MCRootTree ==
  (U :> Dir) @@ (UL :> Dir) @@ (ULS :> File(old)) @@ (<<usr, lib, lib>> :> Dir)
  @@ (<<usr, lib, lib, so>> :> File(new)) @@ (L :> Link(FALSE, UL)) @@ (<<so>> :> Dir)
  @@ (<<so, lib>> :> File(old)) @@ (<<usr, so>> :> Link(FALSE, <<Up, so>>))
MCRootTrees == {MCRootTree}
MCRights == {<<>>, U, UL, <<so>>, <<usr, lib, lib>>} \X {"r", "x"}
MCDeniedSets == {S \in SUBSET MCRights : Cardinality(S) \in 1..2}
MCBases == {<<>>, U, L, LS, <<usr, so, lib>>}
===============================================================================
