------------------------------ MODULE Graders ------------------------------
(***************************************************************************)
(* ci/graders.py and the stages of ci/pipeline.py: a tool runs, or does    *)
(* not; what it prints is parsed into issues; the report is signed; a      *)
(* stage asks some graders for evidence and gates on all of them.          *)
(*                                                                         *)
(* What a tool prints is a set of lines [fp, label]: what the line is      *)
(* about and what the tool calls it; json tells whether a tool that prints *)
(* JSON printed it whole.                                                  *)
(***************************************************************************)
EXTENDS Gate

VARIABLES bench        \* one grading: [at, stage, left, runs, reports, verdict]
benchVars == <<bench>>

PythonTools == [test |-> "pytest", lint |-> "ruff", types |-> "mypy"]
JsTools == [test |-> "node_test", lint |-> "eslint", types |-> "tsc"]
GoTools == [test |-> "go_test", lint |-> "go_vet", types |-> "none"]
LANGS == [python |-> PythonTools, js |-> JsTools, go |-> GoTools]
\* The scanners of infrastructure code, of ci/iac.py and ci/k8s.py.
ScanTools == {"trivy", "checkov", "kube_score", "kube_linter", "polaris"}
Kind(tool) ==
  IF tool \in {"pytest", "node_test", "go_test"} THEN "test"
  ELSE IF tool \in {"ruff", "eslint", "go_vet", "tflint"} THEN "lint"
  ELSE IF tool \in {"mypy", "tsc"} THEN "typecheck"
  ELSE IF tool \in {"bandit", "npm_audit"} \cup ScanTools THEN "security"
  ELSE IF tool \in {"parliament", "cloudsplaining"} THEN "iam"
  ELSE IF tool = "terraform_validate" THEN "iac" ELSE tool

\* The labels of a tool's format that are findings, with their severities; what
\* is not whole JSON has no findings.
Labelled(out, sev) ==
  {Issue(sev[l.label], "high", l.fp) : l \in {x \in out.lines : x.label \in DOMAIN sev}}
Decoded(out, sev) == IF out.json THEN Labelled(out, sev) ELSE {}

\* Test runners, line by line: FAILED and ERROR; "not ok" unless it is a skipped
\* or a todo test; a fail event of a test.
parse_pytest(out) == Labelled(out, [failure |-> "error", critical |-> "error"])
parse_tap(out) == Labelled(out, [failure |-> "error"])
parse_go_test(out) == Labelled(out, [failure |-> "error"])

\* ruff, mypy, tsc, go vet: every line in the tool's format is a finding.
parse_findings(out) == Labelled(out, [failure |-> "error", critical |-> "error", weak |-> "error"])

parse_eslint(out) == Decoded(out, [failure |-> "error", weak |-> "warning"])

\* Only against an explicit budget; a metric that is not there is no finding.
parse_perf(out) == Decoded(out, [failure |-> "error"])
parse_infracost(out) == Decoded(out, [failure |-> "error"])

_sec_severity == [critical |-> "critical", failure |-> "error", weak |-> "warning", skip |-> "info"]
parse_security(out) == Decoded(out, _sec_severity)

\* Without a summary, or with a red baseline, there is nothing to assess.
parse_mutation(out) ==
  IF ~out.json THEN {Issue("error", "high", "unassessed")} ELSE Labelled(out, [failure |-> "error"])

_scan_severity == [critical |-> "critical", failure |-> "error", weak |-> "warning", skip |-> "info"]
parse_terraform_validate(out) == Decoded(out, [failure |-> "error", weak |-> "warning", skip |-> "warning", critical |-> "warning"])
parse_trivy_config(out) == Decoded(out, _scan_severity)
\* A lint that could not lint says so in the document.
parse_tflint(out) == Decoded(out, [critical |-> "error", failure |-> "error", weak |-> "warning", skip |-> "info"])
parse_checkov(out) == Decoded(out, _scan_severity)
parse_conftest(out) == Decoded(out, [failure |-> "error", weak |-> "warning"])
parse_parliament(out) == Decoded(out, _scan_severity)
parse_cloudsplaining(out) == Decoded(out, [critical |-> "critical", failure |-> "error"])
parse_kube_score(out) == Decoded(out, [critical |-> "error", failure |-> "error", weak |-> "warning"])
parse_kube_linter(out) == Decoded(out, [failure |-> "warning", weak |-> "warning"])
parse_polaris(out) == Decoded(out, [failure |-> "error", weak |-> "warning"])

parse(tool, out) ==
  CASE tool = "eslint" -> parse_eslint(out)
    [] tool = "perf" -> parse_perf(out)
    [] tool \in {"bandit", "npm_audit"} -> parse_security(out)
    [] tool = "mutation" -> parse_mutation(out)
    [] tool = "pytest" -> parse_pytest(out)
    [] tool = "node_test" -> parse_tap(out)
    [] tool = "go_test" -> parse_go_test(out)
    [] tool = "terraform_validate" -> parse_terraform_validate(out)
    [] tool = "trivy" -> parse_trivy_config(out)
    [] tool = "tflint" -> parse_tflint(out)
    [] tool = "checkov" -> parse_checkov(out)
    [] tool = "conftest" -> parse_conftest(out)
    [] tool = "infracost" -> parse_infracost(out)
    [] tool = "parliament" -> parse_parliament(out)
    [] tool = "cloudsplaining" -> parse_cloudsplaining(out)
    [] tool = "kube_score" -> parse_kube_score(out)
    [] tool = "kube_linter" -> parse_kube_linter(out)
    [] tool = "polaris" -> parse_polaris(out)
    [] OTHER -> parse_findings(out)

suite_sha(tool) == tool
_receipt_of(tool, r) ==
  [alg |-> "hmac-sha256", signed |-> TRUE, suite_sha |-> suite_sha(tool), scanned |-> {},
   inputs_digest |-> [content |-> {tool}, nonce |-> 1], result_digest |-> report_result_digest(r)]

\* Bug: the exit code is not looked at.
ErroredIfSilent(rc, issues) == FALSE

\* "the tool itself errored": a nonzero exit and nothing that can be parsed.
Errored(rc, issues) == rc # 0 /\ issues = {}

\* A tool that is missing, hangs or has no parser did not run: no receipt.
run_grader(tool, r) ==
  IF r.how # "ran" THEN Report(Kind(tool), TRUE, {})
  ELSE LET is == parse(tool, r.out)
           rep == Report(Kind(tool), Errored(r.rc, is), is)
       IN  [rep EXCEPT !.receipt = _receipt_of(tool, rep)]

-----------------------------------------------------------------------------
(* The stages: which tools run and which kinds of evidence are required.   *)

Stage_(tools, required) == [tools |-> tools \ {"none"}, required |-> required]
inner_loop_stage(tc, lint, types) ==
  Stage_({tc.test} \cup (IF lint THEN {tc.lint} ELSE {}) \cup (IF types THEN {tc.types} ELSE {}),
         {"test"} \cup (IF lint THEN {"lint"} ELSE {}) \cup (IF types /\ tc.types # "none" THEN {"typecheck"} ELSE {}))
precommit_stage(tc) == Stage_({tc.test, tc.lint}, {"test"})
postmerge_stage(tc) == Stage_({tc.test}, {"test"})
premerge_stage(tc, types, extra) ==
  LET inner == inner_loop_stage(tc, TRUE, types)
  IN  Stage_(inner.tools \cup extra, inner.required \cup {Kind(t) : t \in extra})

Stages ==
  UNION {{inner_loop_stage(LANGS[l], x, y) : x, y \in BOOLEAN} : l \in DOMAIN LANGS}
  \cup UNION {{precommit_stage(LANGS[l]), postmerge_stage(LANGS[l])} : l \in DOMAIN LANGS}
  \cup {premerge_stage(LANGS["python"], FALSE, e) : e \in {{}, {"bandit"}, {"perf"}, {"mutation"}, {"perf", "bandit"}}}
  \cup {Stage_(ts, {Kind(t) : t \in ts}) : ts \in {{"terraform_validate", "tflint", "trivy", "conftest"},
                {"checkov", "infracost", "parliament"}, {"kube_score", "cloudsplaining"}, {"kube_linter"}, {"polaris"}}}
  \cup {premerge_stage(LANGS["js"], FALSE, {"npm_audit"}), premerge_stage(LANGS["go"], TRUE, {})}

Lines == {[fp |-> "x", label |-> l] : l \in {"failure", "weak", "skip", "critical"}}
Outputs == {[json |-> FALSE, lines |-> {}]} \cup
           {[json |-> TRUE, lines |-> ls] : ls \in {{}} \cup {{l} : l \in Lines}}
DidNotRun == {[how |-> h, rc |-> 0, out |-> [json |-> FALSE, lines |-> {}]] : h \in {"missing", "timeout"}}
Runs == DidNotRun \cup {[how |-> "ran", rc |-> c, out |-> o] : c \in {0, 1}, o \in Outputs}

NoBench == [at |-> "new", stage |-> Stage_({}, {}), left |-> {}, runs |-> [t \in {} |-> {}],
            reports |-> {}, verdict |-> "none"]
BenchInit == bench = NoBench

PickStage ==
  /\ bench.at = "new"
  /\ \E s \in Stages : bench' = [bench EXCEPT !.at = "run", !.stage = s, !.left = s.tools]

\* The graders run one after the other.
GradeNextTool ==
  /\ bench.at = "run" /\ bench.left # {}
  /\ LET t == CHOOSE t \in bench.left : TRUE IN
       \E r \in Runs :
         bench' = [bench EXCEPT !.left = @ \ {t}, !.reports = @ \cup {run_grader(t, r)},
                                !.runs = [x \in DOMAIN bench.runs \cup {t} |-> IF x = t THEN r ELSE bench.runs[x]]]

ToolFor(kind) == CHOOSE t \in bench.stage.tools : Kind(t) = kind
Pinned_(kind) == [algs |-> {}, suite |-> suite_sha(ToolFor(kind)), diff |-> {},
                  inputs |-> [content |-> {ToolFor(kind)}, nonce |-> 1]]
GateStage ==
  /\ bench.at = "run" /\ bench.left = {}
  /\ bench' = [bench EXCEPT !.at = "done",
                 !.verdict = gate(bench.reports, bench.stage.required, [k \in bench.stage.required |-> Pinned_(k)])]

BenchNext == PickStage \/ GradeNextTool \/ GateStage

-----------------------------------------------------------------------------
\* "No silent green": a stage that does not fail had every required tool run to
\* its end, and each either exited with zero or said why it did not.
GreenStageRan ==
  bench.at = "done" /\ bench.verdict # "fail" =>
    \A t \in bench.stage.tools : Kind(t) \in bench.stage.required =>
      /\ bench.runs[t].how = "ran"
      /\ bench.runs[t].rc = 0 \/ parse(t, bench.runs[t].out) # {}

-----------------------------------------------------------------------------
(* ci/spec.py and ci/invariants.py: a model extracts criteria from a       *)
(* ticket (or the repository declares invariants) and proposes checks; the *)
(* checks that may run do so in a jail; the conclusive ones vote.  What    *)
(* the model writes is any of: nothing usable, an unsafe check, a check    *)
(* that errs, a check that tells the truth, a check that is wrong.         *)

CONSTANTS Criteria,    \* what the ticket really asks for
          ChecksEach   \* n: checks generated per criterion

ASSUME SpecAssumption == ChecksEach \in Nat

VARIABLES spec         \* one grading: [at, source, jail, met, todo, extracted, votes, wrong, verdict]
specVars == <<spec>>

CheckKinds == {"not_a_test", "unsafe", "errs", "honest", "wrong"}

\* container: bwrap and a bound on memory; local: the opt-out for trusted input.
Jails == [bwrap : BOOLEAN, bounded : BOOLEAN, isolation : {"container", "subprocess"}]

is_safe_check(c) == c # "unsafe"

\* rc 0 is a pass, 1 a fail, anything else no answer.
_classify(c, met) ==
  IF c = "honest" THEN (IF met THEN "pass" ELSE "fail")
  ELSE IF c = "wrong" THEN (IF met THEN "fail" ELSE "pass") ELSE "error"

Confined(jail) == IF jail.bwrap THEN jail.bounded ELSE jail.isolation = "subprocess"
run_check(c, met, jail) == IF is_safe_check(c) /\ Confined(jail) THEN _classify(c, met) ELSE "error"

\* A reply without a test in it is not a check; the others are run one by one.
generate_checks(replies) == {k \in DOMAIN replies : replies[k] # "not_a_test"}
Outcomes(replies, met, jail) == [k \in generate_checks(replies) |-> run_check(replies[k], met, jail)]
Count(outs, what) == Cardinality({k \in DOMAIN outs : outs[k] = what})

tally(outs) ==
  IF Count(outs, "fail") = 0 /\ Count(outs, "pass") = 0 THEN "unverified"
  ELSE IF Count(outs, "fail") > Count(outs, "pass") THEN "violated" ELSE "satisfied"

NoSpec == [at |-> "new", source |-> "none", jail |-> [bwrap |-> FALSE, bounded |-> FALSE, isolation |-> "container"],
           met |-> {}, todo |-> {}, extracted |-> {}, votes |-> [c \in {} |-> <<>>], wrong |-> [c \in {} |-> 0], verdict |-> "none"]
SpecInit == spec = NoSpec

\* extract_criteria: the model may find some of them, or none, and may call a
\* criterion not behavioral; declared invariants are all taken.
Extract ==
  /\ spec.at = "new"
  /\ \E src \in {"ticket", "invariants", "empty"}, j \in Jails, m, e \in SUBSET Criteria :
       /\ src = "invariants" => e = Criteria
       /\ src = "empty" => e = {}
       /\ \E plain \in SUBSET (IF src = "ticket" THEN e ELSE {}) :
            spec' = [NoSpec EXCEPT !.at = "vote", !.source = src, !.jail = j, !.met = m, !.extracted = e,
                       !.todo = e \ plain,
                       !.votes = [c \in plain |-> <<>>],
                       !.wrong = [c \in plain |-> 0]]

Voted(votes, c, outcome) == [x \in DOMAIN votes \cup {c} |-> IF x = c THEN outcome ELSE votes[x]]
Vote ==
  /\ spec.at = "vote" /\ spec.todo # {}
  /\ LET c == CHOOSE c \in spec.todo : TRUE IN
     \E replies \in [1..ChecksEach -> CheckKinds] :
       spec' = [spec EXCEPT !.todo = @ \ {c},
                  !.votes = Voted(spec.votes, c, Outcomes(replies, c \in spec.met, spec.jail)),
                  !.wrong = Voted(spec.wrong, c, Count(replies, "wrong"))]

_advisory(c) == Issue("warning", "low", c)
Findings(s) ==
  {Issue("error", "high", c) : c \in {x \in s.extracted : tally(s.votes[x]) = "violated"}}
  \cup {_advisory(c) : c \in {x \in s.extracted : tally(s.votes[x]) = "unverified"}}

\* Bug: nothing extracted is nothing to report.
SilenceIsFine(s) == {}

\* A ticket that says something and yields no criterion was not verified.
Suppressed(s) == IF s.extracted = {} /\ s.source = "ticket" THEN {_advisory("criteria")} ELSE {}

Grade ==
  /\ spec.at = "vote" /\ spec.todo = {}
  /\ spec' = [spec EXCEPT !.at = "done",
                !.verdict = plain_gate({Report("contract", FALSE, Findings(spec) \cup Suppressed(spec))})]

SpecNext == Extract \/ Vote \/ Grade

-----------------------------------------------------------------------------
\* A pass rests on executed checks: every criterion has one that passed, and the
\* ticket was not silently reduced to nothing; where nothing can be confined
\* nothing passes.
PassIsGrounded ==
  spec.at = "done" /\ spec.verdict = "pass" =>
    /\ spec.source = "ticket" => spec.extracted # {}
    /\ \A c \in spec.extracted : Count(spec.votes[c], "pass") > 0 /\ Confined(spec.jail)

-----------------------------------------------------------------------------
(* ci/mutation.py: the grader that writes mutants over the graded files    *)
(* and runs the suite on each.  It runs under a budget of its own, inside  *)
(* a process the grader's runner kills at an outer timeout: a kill between *)
(* the mutant's write and the restore would leave a mutated file behind.   *)
(* Time is counted in units; a suite run takes any time up to its timeout, *)
(* preparing a file's mutants any time, and everything else none.          *)

CONSTANTS Targets,    \* sequence of [parses, mutants]: the target files
          Cap,        \* mutants per file at most
          SuiteMax,   \* timeout of one run of the suite
          Budget,     \* total_budget_s
          Outer       \* the runner's timeout

\* 240 seconds of budget against 300 (run_mutation).
ASSUME MutationAssumption ==
  /\ Targets \in Seq([parses : BOOLEAN, mutants : Nat])
  /\ Cap \in Nat /\ SuiteMax \in Nat /\ Budget \in Nat /\ Outer \in Nat
  /\ Budget < Outer

VARIABLES mutation    \* [at, i, k, now, dirty, total, survivors]
mutationVars == <<mutation>>

MutationInit ==
  mutation = [at |-> "start", i |-> 1, k |-> 0, now |-> 0, dirty |-> FALSE, total |-> 0, survivors |-> 0]

Spend(s, d) == [s EXCEPT !.now = @ + d]
Durations == 0..SuiteMax

\* The suite must be green before anything is assessed; a hung one is red.
Baseline ==
  /\ mutation.at = "start"
  /\ \E d \in Durations :
       \/ mutation' = [Spend(mutation, d) EXCEPT !.at = "red"]
       \/ d < SuiteMax /\ mutation' = [Spend(mutation, d) EXCEPT !.at = "file"]

\* Reading a file and generating its mutants takes time too (now is bounded by
\* the timeout, at which the process is killed).
Generate ==
  /\ mutation.at = "file" /\ mutation.i <= Len(Targets) /\ mutation.k = 0 /\ ~mutation.dirty
  /\ mutation.now < Outer
  /\ mutation' = Spend(mutation, 1)

HasMutant(s) == Targets[s.i].parses /\ s.k < Targets[s.i].mutants /\ s.k < Cap

\* Bug: a mutant starts as long as there is budget left.
FitsNow(s) == s.now <= Budget

\* Its worst case must still fit.
Fits(s) == s.now + SuiteMax <= Budget

WriteMutant ==
  /\ mutation.at = "file" /\ mutation.i <= Len(Targets)
  /\ HasMutant(mutation) /\ Fits(mutation)
  /\ mutation' = [mutation EXCEPT !.at = "suite", !.dirty = TRUE, !.total = @ + 1, !.k = @ + 1]

\* The suite passes (the mutant survives), fails, or hangs.
RunSuite ==
  /\ mutation.at = "suite"
  /\ \E d \in Durations, survives \in {0, 1} :
       /\ survives = 1 => d < SuiteMax
       /\ mutation' = [Spend(mutation, d) EXCEPT !.at = "file", !.survivors = @ + survives]

\* finally: the file is restored; out of budget, no further file is begun.
Restore ==
  /\ mutation.at = "file" /\ mutation.i <= Len(Targets)
  /\ ~HasMutant(mutation) \/ ~Fits(mutation)
  /\ mutation' = [mutation EXCEPT !.dirty = FALSE, !.k = 0,
                    !.i = IF Targets[mutation.i].parses /\ ~Fits(mutation) THEN Len(Targets) + 1 ELSE @ + 1]

Report_ ==
  /\ mutation.at = "file" /\ mutation.i > Len(Targets)
  /\ mutation' = [mutation EXCEPT !.at = "reported"]

\* TimeoutExpired of the runner: the process is killed.
KillAtOuter ==
  /\ mutation.at \in {"start", "suite", "file"}
  /\ mutation.now >= Outer
  /\ mutation' = [mutation EXCEPT !.at = "killed"]

MutationNext == Baseline \/ Generate \/ WriteMutant \/ RunSuite \/ Restore \/ Report_ \/ KillAtOuter

-----------------------------------------------------------------------------
\* "it can never be SIGKILL'd by the outer timeout mid-mutation, which would leave
\* a mutated file on disk" (run_mutation); nor does a finished run leave one.
NeverLeftMutated == mutation.at \in {"killed", "reported", "red"} => ~mutation.dirty
=============================================================================
