---------------------------- MODULE BatchAnswer ----------------------------
(***************************************************************************)
(* What one advisory batch promises its caller: a single answer, delivered *)
(* whole or not at all.  The caller never sees a half-resolved batch, and  *)
(* never sees the answer change once it has it.                            *)
(***************************************************************************)
EXTENDS Naturals

CONSTANTS
  Refs,       \* the components asked about, by position
  Ids,        \* advisory ids
  Matches     \* Matches[r]: the ids the advisory source lists for r

VARIABLE answer

Pending == [tag |-> "pending"]
Failed  == [tag |-> "error"]
Whole   == [tag |-> "answer", per |-> Matches]

Init == answer = Pending

Deliver == answer = Pending /\ answer' = Whole
GiveUp  == answer = Pending /\ answer' = Failed

Next == Deliver \/ GiveUp

SafetySpec == Init /\ [][Next]_answer
Spec == SafetySpec /\ WF_answer(Next)
=============================================================================
