----------------------------- MODULE MCDistroFeed -----------------------------
(***************************************************************************)
(* Four CVEs and four findings.  "bundle" is one advisory for three of     *)
(* them, whose documents disagree: not affected, affected in one of two    *)
(* products, and one SUSE has no document for.  "plain" is cleared         *)
(* outright, "answered" already has a hub's statement, and "module" is a   *)
(* Go finding, which only the score pass asks about, by a CVE the index    *)
(* does not name.                                                          *)
(***************************************************************************)
EXTENDS DistroFeed

MCCVEs == {"c1", "c2", "c3", "c4"}
MCRefs == {"bundle", "plain", "answered", "module"}
MCOSRefs == MCRefs \ {"module"}
MCHubSpoke == {"answered"}
MCBundle ==
  [r \in MCRefs |->
     CASE r = "bundle" -> <<"c3", "c1", "c2">> [] r = "plain" -> <<"c1">>
       [] r = "answered" -> <<"c1">> [] r = "module" -> <<"c4">>]
MCDistros == {"sles", "debian"}
MCProducts == {"server", "desktop"}
MCPublished == {"c1", "c2", "c4"}
MCListed == {"c1", "c2", "c3"}
MCIndexKinds == BOOLEAN
MCLists ==
  [c \in MCCVEs |-> [p \in MCProducts |-> [r \in MCRefs |->
     CASE c = "c1" -> {"not_affected"}
       [] c = "c2" /\ p = "server" -> {"fix_newer", "affected"}
       [] c = "c2" /\ p = "desktop" -> {"fix_reached", "affected"}
       [] OTHER -> {}]]]
MCRow ==
  [c \in MCCVEs |-> [r \in MCRefs |->
     CASE c = "c1" -> "fix_reached" [] c = "c2" -> "open" [] OTHER -> "none"]]
=============================================================================
