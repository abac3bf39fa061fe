---------------------------- MODULE PilotPolicy ----------------------------
(***************************************************************************)
(* pilot/policy.py, pilot/evaluate.py, pilot/mode.py and the deciding part *)
(* of pilot/shadow.py: what a policy log means, what a decision lets       *)
(* through under it, and when the evidence earns or loses enforcement.     *)
(*                                                                         *)
(* A decision record keeps what evidence is counted from:                  *)
(* [artifact, content, by, verel, bound, outcomes], where verel says that  *)
(* a worker or the hot folder wrote it and outcomes maps graders to the    *)
(* worst outcome of their reports.  Rates are fractions <<num, den>>.      *)
(***************************************************************************)
EXTENDS Gate

CONSTANTS
    MinSamples, MinPrecision, MinRecall, MaxErrored,            \* to be enforced
    Window, MinFlagged, PrecisionFloor, HealthErrored           \* to stay enforced

ASSUME PolicyNumbers ==
    /\ MinSamples \in Nat
    /\ MinPrecision[1] \in Nat /\ MinPrecision[2] \in Nat \ {0} /\ MinPrecision[1] <= MinPrecision[2]

AtMost(n, m, rate) == n * rate[2] <= rate[1] * m
Reaches(n, m, rate) == n * rate[2] >= rate[1] * m

ModeRank == [shadow |-> 0, advisory |-> 1, enforce |-> 2]
Levels == DOMAIN ModeRank

-----------------------------------------------------------------------------
\* The policy is the fold of its log: the newest entry of a grader, or the
\* newest default ("*").
Newest(policy, g) ==
    LET at == {k \in DOMAIN policy : policy[k].grader = g}
    IN  IF at = {} THEN 0 ELSE CHOOSE k \in at : \A j \in at : j <= k
mode_for(policy, g) ==
    IF Newest(policy, g) # 0 THEN policy[Newest(policy, g)].mode
    ELSE IF Newest(policy, "*") # 0 THEN policy[Newest(policy, "*")].mode
    ELSE "shadow"

\* enforced_verdict, the kill switch aside: the enforcing graders are gated in
\* full, the advisory ones can raise a pass to a warning, the others are not heard.
Heard(reports, policy, m) == {r \in reports : mode_for(policy, r.grader) = m}
enforced_verdict(reports, policy) ==
    LET full == plain_gate(Heard(reports, policy, "enforce"))
    IN  IF full = "pass" /\ plain_gate(Heard(reports, policy, "advisory")) # "pass" THEN "warn" ELSE full

apply_mode(would_be, mode) ==
    CASE mode = "enforce"  -> would_be
      [] mode = "advisory" -> IF would_be = "fail" THEN "warn" ELSE would_be
      [] mode = "shadow"   -> "pass"

\* run_pilot: the verdict the pipeline acts on.  A gate that raises (crashed)
\* fails the artifact where something enforces.
Enforcing(reports, policy) == Heard(reports, policy, "enforce") # {}
would_be(reports, crashed) == IF crashed THEN "fail" ELSE plain_gate(reports)
run_pilot(reports, mode, policy, kill, crashed) ==
    IF kill THEN "pass"
    ELSE IF mode = "policy"
    THEN IF ~crashed THEN enforced_verdict(reports, policy)
         ELSE IF Enforcing(reports, policy) THEN "fail" ELSE "pass"
    ELSE IF crashed /\ mode = "enforce" THEN "fail" ELSE apply_mode(would_be(reports, crashed), mode)

-----------------------------------------------------------------------------
\* A decision log only grows, so what was read of it is a set of its indices: ev.
\* evaluate: the first decision of an artifact counts, and the first decision
\* about a file (content) whatever its artifact is called.
ScoredById(log, ev) ==                                  \* mutant: a file counts under every name
    {i \in ev : \A j \in ev : j < i => log[j].artifact # log[i].artifact}
Scored(log, ev) ==
    {i \in ev : \A j \in ev : j < i =>
        /\ log[j].artifact # log[i].artifact
        /\ log[i].content = "" \/ log[j].content # log[i].content}

\* labels: the usable labels, a set of [artifact, defect].
IsLabeled(r, labels) == \E l \in labels : l.artifact = r.artifact
IsDefect(r, labels) == \E l \in labels : l.artifact = r.artifact /\ l.defect
Ordered(log, ev, labels) == {i \in Scored(log, ev) : IsLabeled(log[i], labels)}

With(log, at, g, out) == {i \in at : g \in DOMAIN log[i].outcomes /\ log[i].outcomes[g] \in out}
Bad(log, at, labels) == {i \in at : IsDefect(log[i], labels)}

\* The Wilson lower bound of s successes in n trials reaches q = a/b exactly
\* when s/n is at least q and (s/n - q)^2 >= z^2 q (1 - q) / n; z^2 = 3.8415.
wilson_reaches(s, n, q) ==
    /\ n > 0 /\ s * q[2] >= q[1] * n
    /\ 10000 * (s * q[2] - q[1] * n) * (s * q[2] - q[1] * n) >= 38415 * q[1] * (q[2] - q[1]) * n

_ready(tp, fp, tn, fn, errored) ==
    /\ tp + fp >= MinSamples
    /\ wilson_reaches(tp, tp + fp, MinPrecision)
    /\ tp + fn > 0 /\ Reaches(tp, tp + fn, MinRecall)
    /\ AtMost(errored, tp + fp + tn + fn + errored, MaxErrored)

\* GraderStats.ready_to_enforce of one grader.
evaluate(log, ev, labels, g) ==
    LET at      == Ordered(log, ev, labels)
        flagged == With(log, at, g, {"fail"})
        quiet   == With(log, at, g, {"pass", "warn"})
        tp      == Cardinality(Bad(log, flagged, labels))
        fn      == Cardinality(Bad(log, quiet, labels))
    IN  _ready(tp, Cardinality(flagged) - tp, Cardinality(quiet) - fn, fn,
               Cardinality(With(log, at, g, {"errored"})))

-----------------------------------------------------------------------------
LastOf(S, n) == {i \in S : Cardinality({j \in S : j > i}) < n}

\* health of an enforcing grader, over its most recent flags and the most recent
\* labeled artifacts.
healthy(log, ev, labels, g) ==
    LET at     == Ordered(log, ev, labels)
        flags  == LastOf(With(log, at, g, {"fail"}), Window)
        recent == LastOf(at, Window)
        seen   == Cardinality(With(log, recent, g, {"pass", "warn", "fail", "errored"}))
        errs   == Cardinality(With(log, recent, g, {"errored"}))
        tp     == Cardinality(Bad(log, flags, labels))
    IN  /\ seen = 0 \/ AtMost(errs, seen, HealthErrored)
        /\ Cardinality(flags) < MinFlagged \/ wilson_reaches(tp, Cardinality(flags), PrecisionFloor)

\* promote(): does the log let the grader go to the target, and is it an override.
MayClimb(current, target) == ModeRank[target] > ModeRank[current]
NeedsOverride(current, target, ready, reviewers, required) ==
    target = "enforce" /\ (~ready \/ current # "advisory" \/ reviewers < required)
=============================================================================
