---------------------------- MODULE FailureLedger ----------------------------
(***************************************************************************)
(* memory/failure_ledger.py: every gating failure anybody saw, by its      *)
(* fingerprint, in the memory shared by the loops and the CI jobs of a     *)
(* scope.  A session that passes marks what it saw as fixed; a fixed       *)
(* failure that is seen again is raised as an error of a contract grader.  *)
(* The store is memory/local.py: a record written again with the same text *)
(* is confirmed, with another text (a fingerprint scrubs numbers and       *)
(* paths) it is replaced, flags and all.                                   *)
(***************************************************************************)
EXTENDS Gate

CONSTANT Fps          \* fingerprints
VARIABLE ledger       \* Fps -> entry

Status == {"none", "open", "reintroduced", "fixed"}
Entry == [status : Status, volatile : BOOLEAN, pinned : BOOLEAN]
Unknown == [status |-> "none", volatile |-> FALSE, pinned |-> FALSE]

_gating_issues(reports) == UNION {gating_failures(r) : r \in reports}

\* A failure is written: flaky says ci-medic called it transient, same that the text is as it was.
Written(e, flaky, same) ==
  IF e = Unknown THEN [status |-> "open", volatile |-> flaky, pinned |-> FALSE]
  ELSE [status   |-> IF e.status = "fixed" THEN "reintroduced" ELSE "open",
        volatile |-> flaky /\ ~same,
        pinned   |-> e.pinned /\ same]

record(fps, flaky, same) ==
  [f \in Fps |-> IF f \in fps THEN Written(ledger[f], f \in flaky, f \in same) ELSE ledger[f]]

\* A confirmed fix is promoted and pinned.
mark_fixed(fps) ==
  [f \in Fps |-> IF f \in fps /\ ledger[f] # Unknown
                 THEN [status |-> "fixed", volatile |-> FALSE, pinned |-> TRUE] ELSE ledger[f]]

\* Bug: whatever is remembered counts as fixed before.
CheckKnown(fps) == {f \in fps : ledger[f].status # "none"}

check_regressions(fps) == {f \in fps : ledger[f].status = "fixed"}

regression_report(fps) == Report("contract", FALSE, {Issue("error", "high", f) : f \in fps})
Remembered(fps) == IF fps = {} THEN {} ELSE {regression_report(fps)}

\* The store's decay forgets a volatile record that is not confirmed in its window.
Forgettable(e) == e.volatile /\ ~e.pinned
Forget(f) ==
  /\ Forgettable(ledger[f])
  /\ ledger' = [ledger EXCEPT ![f] = Unknown]
=============================================================================
