-------------------------------- MODULE Gate --------------------------------
(***************************************************************************)
(* verdict/gate.py: the reducer that turns the graders' reports into one   *)
(* verdict, and the two questions the loops ask of a report (what gates,   *)
(* and has it shrunk).  Pure operators, used by every module that decides. *)
(*                                                                         *)
(* A report is [grader, errored, issues, receipt]; an issue is             *)
(* [sev, conf, fp].  What a receipt binds is a record of abstract digests: *)
(* two digests are equal exactly when the digested things are.             *)
(***************************************************************************)
EXTENDS Integers, FiniteSets, Sequences

CONSTANTS
    PRECISE_GRADERS,   \* the kinds whose findings may gate
    ADVISORY_GRADERS   \* the kinds that can raise at most a warning

SEV_ORDER == <<"info", "warning", "error", "critical">>
Severity == {"info", "warning", "error", "critical"}
Rank(s) == CHOOSE k \in 1..4 : SEV_ORDER[k] = s
AtLeast(s, floor) == Rank(s) >= Rank(floor)

Verdict == {"pass", "warn", "fail"}
NoReceipt == [alg |-> "none"]

Issue(s, c, f) == [sev |-> s, conf |-> c, fp |-> f]
Report(g, e, is) == [grader |-> g, errored |-> e, issues |-> is, receipt |-> NoReceipt]

clamp_ceiling(s, ceil) == IF Rank(s) <= Rank(ceil) THEN s ELSE ceil

\* A signature is good when it verifies under its own scheme; the verifier's
\* policy may admit some schemes only ({} stands for no policy).
verify_signature(rr, allowed) ==
    /\ rr # NoReceipt
    /\ rr.signed
    /\ allowed = {} \/ rr.alg \in allowed
    /\ rr.alg \in {"hmac-sha256", "ed25519"}

\* The outcome a receipt commits to: everything of the report the gate trusts.
report_result_digest(r) == [errored |-> r.errored, issues |-> r.issues]

coverage_satisfied(scanned, diff_files) == diff_files = {} \/ scanned \cap diff_files # {}

\* What the verifier asks of a required grader's receipt: ask[g] holds what was
\* pinned for grader g.  A digest of inputs is salted with the run's nonce.
Unbound == [content |-> {}, nonce |-> 0]
Attests(r, ask) ==
    /\ verify_signature(r.receipt, ask.algs)
    /\ r.receipt.suite_sha = ask.suite
    /\ ask.inputs = Unbound \/ r.receipt.inputs_digest = ask.inputs
    /\ coverage_satisfied(r.receipt.scanned, ask.diff)
    /\ r.receipt.result_digest = report_result_digest(r)

Absent(reports, required) == required \ {r.grader : r \in {x \in reports : ~x.errored}}
Hollow(reports, required, ask) == {r \in reports : r.grader \in required /\ ~Attests(r, ask[r.grader])}

Effective(r, i) ==
    IF r.grader \in ADVISORY_GRADERS \/ i.conf = "low" THEN clamp_ceiling(i.sev, "warning") ELSE i.sev
Severities(reports) == UNION {{Effective(r, i) : i \in r.issues} : r \in reports}

Verdict_(sevs) ==
    IF \E s \in sevs : AtLeast(s, "error") THEN "fail"
    ELSE IF "warning" \in sevs THEN "warn" ELSE "pass"

gate(reports, required, ask) ==
    IF Absent(reports, required) # {} \/ Hollow(reports, required, ask) # {}
    THEN "fail"
    ELSE Verdict_(Severities(reports))

\* The gate as it is called without required graders: nothing to attest.
NoAsk == [g \in {} |-> Unbound]
plain_gate(reports) == gate(reports, {}, NoAsk)

gating_failures(r) == {i.fp : i \in {x \in r.issues : AtLeast(x.sev, "error")}}
progressed(curr, prev) ==
    /\ gating_failures(curr) \subseteq gating_failures(prev)
    /\ gating_failures(curr) # gating_failures(prev)
=============================================================================
