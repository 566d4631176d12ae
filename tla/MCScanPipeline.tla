---------------------------- MODULE MCScanPipeline ----------------------------
(***************************************************************************)
(* Two plugins.  The OS one reports an affected and a cleared package, or  *)
(* cleans it cannot support; the Go one an affected module.  Three         *)
(* advisories: "A" rated low, rescored critical by the vendor and without  *)
(* a fix; "B" critical, rescored low and with a fix; "C" unrated.  The     *)
(* option sets cover every mode, each filter alone and both together, and  *)
(* a hub named twice.                                                      *)
(***************************************************************************)
EXTENDS ScanPipeline

MCIds == {"A", "B", "C"}
MCEcosystems == {"os", "golang"}
MCHubs == {"own", "vendor"}
MCAnalyzersOf == [m \in Modes |-> <<"golang", "os">>]

Row(i, e, s, t, p) ==
  [id |-> i, eco |-> e, status |-> s, tainted |-> t, proven |-> p, reason |-> "",
   rating |-> "none", fix |-> FALSE, vex |-> NoStatement]

MCReports ==
  [e \in MCEcosystems |->
     IF e = "os"
     THEN {{}, {Row("A", e, "linked", FALSE, TRUE), Row("B", e, "not_present", FALSE, TRUE)},
           {Row("A", e, "not_in_execute_path", TRUE, TRUE), Row("B", e, "not_present", FALSE, FALSE),
            Row("C", e, "linked", FALSE, FALSE)}}
     ELSE {{}, {Row("B", e, "reachable", FALSE, TRUE)}}]
MCRating == [i \in MCIds |-> CASE i = "A" -> "LOW" [] i = "B" -> "CRITICAL" [] i = "C" -> "none"]
MCVendorRating == [i \in MCIds |-> CASE i = "A" -> "CRITICAL" [] i = "B" -> "LOW" [] i = "C" -> "none"]
MCHasFix == [i \in MCIds |-> i = "B"]
MCHubSays ==
  [h \in MCHubs |-> [i \in MCIds |->
     CASE i = "A" -> IF h = "own" THEN "affected" ELSE "not_affected"
       [] i = "B" -> "not_affected" [] i = "C" -> "none"]]
MCFeedSays == [i \in MCIds |-> IF i = "C" THEN "fixed" ELSE "not_affected"]

Options(mode, requested, keep, fixedOnly, hubs_, feed, vendor, llm) ==
  [mode |-> mode, requested |-> requested, keep |-> keep, fixedOnly |-> fixedOnly,
   hubs |-> hubs_, feed |-> feed, vendor |-> vendor, llm |-> llm]

MCConfigs ==
  {Options("image", {}, {}, FALSE, <<"own", "vendor">>, TRUE, FALSE, TRUE),
   Options("image", {"B", "C"}, {"CRITICAL"}, TRUE, <<"vendor">>, TRUE, TRUE, TRUE),
   Options("rootfs", {"A"}, {}, TRUE, <<"own">>, TRUE, FALSE, FALSE),
   Options("rpm", {}, {"CRITICAL", "UNKNOWN"}, FALSE, <<>>, TRUE, TRUE, FALSE),
   Options("rpmdeep", {}, {}, FALSE, <<>>, FALSE, FALSE, FALSE),
   Options("sbom", {"C"}, {"LOW"}, FALSE, <<>>, FALSE, FALSE, TRUE),
   Options("image", {"B"}, {}, FALSE, <<"own", "own">>, FALSE, FALSE, FALSE),
   Options("repo", {}, {"CRITICAL"}, FALSE, <<"vendor", "own">>, FALSE, TRUE, TRUE)}
=============================================================================
