------------------------------- MODULE AgentCI -------------------------------
(***************************************************************************)
(* ci/pipeline.py, ci/graders.py (run_grader), ci/heal.py, ci/medic.py,    *)
(* ci/canary.py and ci/rollback.py: stages of graders over a checkout, the *)
(* healing rounds of a red stage, and the canary that reverts after a      *)
(* merge.  The failure ledger is the one the loops use.                    *)
(*                                                                         *)
(* A tree is the set of defects in it.  A canary grades the checkout of    *)
(* main, which others merge into at any time; a healing job its own tree.  *)
(***************************************************************************)
EXTENDS FailureLedger, SequencesExt

CONSTANTS
  Jobs,
  Stage,               \* the graders of a stage, in order
  Required, Bound,     \* those the gate requires; those whose spec names files (covers)
  Finds,               \* grader -> fingerprints it reports
  Weather,             \* fingerprints of failures that are not in the tree
  Confidence,          \* Fps -> confidence
  FlakySignatures, Wording,   \* known flaky; Fps -> "dep", "infra" or "code"
  MaxRounds,           \* heal's budget
  MaxCommits           \* bound: commits on main

ASSUME CIAssumption ==
  /\ Stage \in Seq(DOMAIN Finds) /\ Stage # <<>>
  /\ \A g \in DOMAIN Finds : Finds[g] \subseteq Fps

VARIABLES
  main,    \* the trees after each commit on main
  jobs     \* Jobs -> the job's state

ciVars == <<main, jobs>>

NoJob == [kind |-> "none", at |-> "idle", i |-> 1, reports |-> {}, found |-> {}, errored |-> FALSE,
          torn |-> FALSE, tree |-> {}, regressions |-> {}, work |-> {}, nonce |-> 0, round |-> 0,
          sigs |-> <<>>, start |-> 0, head |-> 0, verdict |-> "none", result |-> "none"]

\* medic.py
classify_issue(f) ==
  IF f \in FlakySignatures THEN "quarantine_flaky"
  ELSE CASE Wording[f] = "dep" -> "regen_lockfile"
         [] Wording[f] = "infra" -> "retry"
         [] OTHER -> "fix_branch"
Transient(fps) == {f \in fps : classify_issue(f) \in {"retry", "quarantine_flaky"}}

Tree(j) == IF jobs[j].kind = "heal" THEN jobs[j].work ELSE Last(main)

\* The receipt of a run: bound to the files the grader names, salted with the run's nonce.
bound_input_digest(g, tree, nonce) ==
  [content |-> IF g \in Bound THEN tree ELSE {}, nonce |-> nonce]
_receipt(g, tree, nonce, r) ==
  [alg |-> "hmac-sha256", signed |-> TRUE, suite_sha |-> g, scanned |-> {},
   inputs_digest |-> bound_input_digest(g, tree, nonce), result_digest |-> report_result_digest(r)]

\* What run_stage pins for the gate, from its own configuration and the files on disk.
Pinned(j) ==
  [g \in ToSet(Stage) |-> [algs |-> {}, suite |-> g, diff |-> {},
                           inputs |-> bound_input_digest(g, jobs[j].tree, jobs[j].nonce)]]

StageVerdict(j) ==
  gate(jobs[j].reports \cup Remembered(jobs[j].regressions), Required, Pinned(j))

\* Bug: a finding of any source justifies a rollback.
DecideAny(reports) == \E r \in reports : gating_failures(r) # {}

\* rollback.py: only the severity and the source of a cited issue count.
decide(reports) == \E r \in reports : r.grader \notin ADVISORY_GRADERS /\ gating_failures(r) # {}

CIInit ==
  /\ main \in {<<t>> : t \in SUBSET (Fps \ Weather)}
  /\ jobs = [j \in Jobs |-> NoJob]

Update(j, s) == jobs' = [jobs EXCEPT ![j] = s]

Begin(j) ==
  /\ jobs[j] = NoJob
  /\ \/ Update(j, [NoJob EXCEPT !.kind = "canary", !.at = "run", !.nonce = 1, !.start = Len(main)])
     \/ \E w \in SUBSET (Fps \ Weather) :
          Update(j, [NoJob EXCEPT !.kind = "heal", !.at = "run", !.nonce = 1, !.round = 1, !.work = w])
  /\ UNCHANGED <<main, ledger>>

\* The next grader is done: go on, or to the gate.
Advance(s, r) ==
  [s EXCEPT !.reports = @ \cup {r}, !.i = @ + 1, !.found = {}, !.errored = FALSE,
            !.at = IF s.i = Len(Stage) THEN "gate" ELSE "run"]

\* The tool runs over the tree.  It may be missing or time out (no receipt), or
\* exit with an error and nothing that can be parsed.
Run(j) ==
  LET s == jobs[j]
      g == Stage[s.i]
  IN  /\ s.at = "run"
      /\ \/ Update(j, Advance(s, Report(g, TRUE, {})))
         \/ Update(j, [s EXCEPT !.at = "seal", !.errored = TRUE])
         \/ \E w \in SUBSET (Weather \cap Finds[g]) :
              Update(j, [s EXCEPT !.at = "seal", !.found = (Finds[g] \cap Tree(j)) \cup w])
      /\ UNCHANGED <<main, ledger>>

\* The report is made and its receipt signed over the files as they are by then.
Seal(j) ==
  LET s == jobs[j]
      g == Stage[s.i]
      r == Report(g, s.errored, {Issue("error", Confidence[f], f) : f \in s.found})
  IN  /\ s.at = "seal"
      /\ Update(j, Advance(s, [r EXCEPT !.receipt = _receipt(g, Tree(j), s.nonce, r)]))
      /\ UNCHANGED <<main, ledger>>

\* run_stage reads the files and the ledger ...
Recall(j) ==
  LET s == jobs[j] IN
  /\ s.at = "gate"
  /\ Update(j, [s EXCEPT !.at = "record", !.tree = Tree(j),
                         !.regressions = check_regressions(_gating_issues(s.reports))])
  /\ UNCHANGED <<main, ledger>>

\* ... writes what failed to it, and gates.
Gated(j) ==
  LET s == jobs[j]
      fps == _gating_issues(s.reports)
      v == StageVerdict(j)
  IN  /\ s.at = "record"
      /\ \E same \in SUBSET fps : ledger' = record(fps, Transient(fps), same)
      /\ Update(j, [s EXCEPT !.verdict = v,
                             !.reports = @ \cup Remembered(s.regressions),
                             !.result = IF v = "pass" THEN "passed" ELSE @,
                             !.at = IF v = "pass" THEN "done"
                                    ELSE IF s.kind = "heal" THEN "triage" ELSE "decide"])
      /\ UNCHANGED main

Found(s) == {i.fp : i \in UNION {r.issues : r \in s.reports}}
NextRound(s) ==
  IF s.round = MaxRounds THEN [s EXCEPT !.at = "done", !.result = "escalate"]
  ELSE [s EXCEPT !.at = "run", !.i = 1, !.reports = {}, !.regressions = {}, !.torn = FALSE,
                 !.nonce = @ + 1, !.round = @ + 1, !.sigs = <<Found(s)>>]

\* self_heal: a failure that needs a fix goes to the agent, the others are tried
\* again; the same failures twice with nothing to fix end it.
Heal(j) ==
  LET s == jobs[j] IN
  /\ s.at = "triage"
  /\ IF \E f \in Found(s) : classify_issue(f) = "fix_branch"
     THEN \/ Update(j, [s EXCEPT !.at = "done", !.result = "escalate"])
          \/ \E w \in SUBSET (Fps \ Weather) : Update(j, NextRound([s EXCEPT !.work = w]))
     ELSE Update(j, IF s.sigs = <<Found(s)>> THEN [s EXCEPT !.at = "done", !.result = "no_progress"]
                    ELSE NextRound(s))
  /\ UNCHANGED <<main, ledger>>

\* The agent proposes a rollback citing the precise failures; the policy decides,
\* and the executor looks up HEAD.
Propose(j) ==
  LET s == jobs[j] IN
  /\ s.at = "decide"
  /\ Update(j, IF decide(s.reports) THEN [s EXCEPT !.at = "revert", !.head = Len(main)]
               ELSE [s EXCEPT !.at = "done", !.result = "denied"])
  /\ UNCHANGED <<main, ledger>>

Before(k) == IF k = 1 THEN {} ELSE main[k - 1]
Undone(k) == (Last(main) \ (main[k] \ Before(k))) \cup (Before(k) \ main[k])

\* A canary between the run and the seal of a grader reads two trees when main moves.
Overtaken(s) == [s EXCEPT !.torn = @ \/ (s.kind = "canary" /\ s.at = "seal")]

\* git revert of the commit that was HEAD; a conflict or a dirty tree aborts it.
Revert(j) ==
  LET s == jobs[j] IN
  /\ s.at = "revert"
  /\ \/ /\ Len(main) < MaxCommits
        /\ main' = Append(main, Undone(s.head))
        /\ jobs' = [k \in Jobs |-> IF k = j THEN [s EXCEPT !.at = "done", !.result = "reverted"] ELSE Overtaken(jobs[k])]
     \/ /\ Update(j, [s EXCEPT !.at = "done", !.result = "revert_failed"])
        /\ UNCHANGED main
  /\ UNCHANGED ledger

\* Somebody merges.
Merge ==
  /\ Len(main) < MaxCommits
  /\ \E t \in SUBSET (Fps \ Weather) : main' = Append(main, t)
  /\ jobs' = [j \in Jobs |-> Overtaken(jobs[j])]
  /\ UNCHANGED ledger

CINext ==
  \/ \E j \in Jobs : Begin(j) \/ Run(j) \/ Seal(j) \/ Recall(j) \/ Gated(j) \/ Heal(j) \/ Propose(j) \/ Revert(j)
  \/ Merge

-----------------------------------------------------------------------------
\* A green stage vouches for the tree it was gated on: merges and reverts between
\* two graders, or before the gate, void it (the receipts bind the files, run_stage
\* pins them again).  Only one within a grader's run goes unseen.
PassIsClean ==
  \A j \in Jobs : jobs[j].result = "passed" /\ ~jobs[j].torn =>
    \A g \in Required \cap Bound : Finds[g] \cap jobs[j].tree = {}

\* "A destructive action NEVER depends on an advisory grader"
\* (ci/rollback.py:3): main is reverted only on what a precise grader found.
RevertIsEarned ==
  \A j \in Jobs : jobs[j].result = "reverted" =>
    \E r \in jobs[j].reports : r.grader \in PRECISE_GRADERS /\ gating_failures(r) # {}

\* "Auto-revert the bad commit" (ci/canary.py:45): what is reverted is what was graded.
RevertsTheGraded ==
  \A j \in Jobs : jobs[j].result = "reverted" => jobs[j].head = jobs[j].start
=============================================================================
