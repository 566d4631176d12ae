------------------------------ MODULE MCResolver ------------------------------
(***************************************************************************)
(* Three analyzers find something.  "lib" is found twice by the first and  *)
(* again by the others, "os" is asked under two names that share an        *)
(* advisory, "app" has no ecosystem, "jar" comes alone so that its single  *)
(* ref skips the batch, and "anon" has no name at all.  "libssl" and       *)
(* "libcrypto" are two binary packages of one source and version: one key, *)
(* the source's name in common, and each its own.                          *)
(***************************************************************************)
EXTENDS Resolver

MCComponents == {"lib", "os", "app", "jar", "anon", "libssl", "libcrypto"}
MCKeys == {"lib", "os", "app", "jar", "anon", "openssl"}
MCKeyOf ==
  [c \in MCComponents |-> IF c \in {"libssl", "libcrypto"} THEN "openssl" ELSE c]
MCNames == {"n1", "n2", "n3", "n4", "n5"}
MCAdvisories == {"A", "B", "C", "D"}
MCNamesOf ==
  [c \in MCComponents |->
     CASE c = "lib" -> <<"n1">> [] c = "os" -> <<"n2", "n3">>
       [] c = "app" -> <<"n4">> [] c = "jar" -> <<"n4">> [] c = "anon" -> <<>>
       [] c = "libssl" -> <<"n4", "n3">> [] c = "libcrypto" -> <<"n4", "n5">>]
MCHasEcosystem == [k \in MCKeys |-> k # "app"]
MCListing ==
  [n \in MCNames |->
     CASE n = "n1" -> {"A"} [] n = "n2" -> {"A", "B"} [] n = "n3" -> {"B", "C"}
       [] n = "n4" -> {"C"} [] n = "n5" -> {"D"}]
MCInventories ==
  <<<<"lib", "os", "lib", "app">>, <<"os", "lib", "jar">>, <<>>,
    <<"anon", "jar", "libssl", "lib", "libcrypto">>>>
=============================================================================
