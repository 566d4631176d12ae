---------------------------- MODULE DistroVerdicts ----------------------------
(***************************************************************************)
(* How the SUSE and Debian providers of internal/distrofeed turn the rows  *)
(* of a vendor's feed into the one statement they make about a finding.    *)
(* A row is reduced to what decides: which status lists name the package,  *)
(* and whether the installed version has reached the published fix.        *)
(***************************************************************************)
EXTENDS Sequences, SequencesExt

\* distrofeed.Status.Exculpatory
Exculpatory(status) == status \in {"not_affected", "fixed"}

-----------------------------------------------------------------------------
(* SUSE                                                                    *)

\* The product-status lists of a CSAF document a package can be on; of the
\* versions a fix shipped in the document keeps one, the highest.
SuseLists == {l \in SUBSET {"not_affected", "fix_reached", "fix_newer", "affected"} :
                ~({"fix_reached", "fix_newer"} \subseteq l)}

\* Not affected wins over a fix, and a fix over the affected list; the fix has
\* to have reached what is installed.
ProductVerdict(lists) ==
  CASE "not_affected" \in lists -> "not_affected"
    [] "not_affected" \notin lists /\ "fix_reached" \in lists -> "fixed"
    [] "not_affected" \notin lists /\ "fix_newer" \in lists -> "affected"
    [] lists = {"affected"} -> "affected"
    [] OTHER -> "silent"

\* Over the products the image's CPE selects, one that leaves the package
\* affected decides; the rest are taken in the order of how sure they are.
DocVerdict(perProduct) ==
  CASE "affected" \in perProduct -> "affected"
    [] "affected" \notin perProduct /\ "not_affected" \in perProduct -> "not_affected"
    [] perProduct \cap {"affected", "not_affected"} = {} /\ "fixed" \in perProduct -> "fixed"
    [] OTHER -> "silent"

FirstOf(verdicts, Test(_)) ==
  LET hits == SelectSeq(verdicts, Test)
  IN  IF hits = <<>> THEN "silent" ELSE Head(hits)

\* Mutant: the first id that speaks decides.
SuseStatementFirst(verdicts) == FirstOf(verdicts, LAMBDA v : v # "silent")

\* The ids of a finding in order; any of them affected vetoes a clear.
SuseStatement(verdicts) ==
  IF \E i \in DOMAIN verdicts : verdicts[i] = "affected"
  THEN "affected"
  ELSE FirstOf(verdicts, Exculpatory)

-----------------------------------------------------------------------------
(* Debian                                                                  *)

\* One release row of the tracker: resolved with the "0" marker, resolved at a
\* version the package has or has not reached, resolved with no version, open
\* with or without a nodsa note, undetermined, or no row for the release.
DebianRows == {"none", "zero", "fix_reached", "fix_newer", "blank", "open", "nodsa", "undetermined"}

RowVerdict(row) ==
  CASE row = "zero" -> "not_affected"
    [] row = "fix_reached" -> "fixed"
    [] row \in {"fix_newer", "open", "nodsa"} -> "affected"
    [] row = "undetermined" -> "under_investigation"
    [] row \in {"none", "blank"} -> "silent"

\* The first of the finding's ids the tracker has a verdict for.
DebianStatement(rows) ==
  FirstOf([i \in DOMAIN rows |-> RowVerdict(rows[i])], LAMBDA v : v # "silent")
=============================================================================
