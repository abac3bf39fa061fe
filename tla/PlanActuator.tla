---------------------------- MODULE PlanActuator ----------------------------
(***************************************************************************)
(* actuators/terraform.py behind gateway.py: an operator plans, the plan   *)
(* is read and classified, the gateway decides on the apply, act() applies *)
(* the plan file.  The file lies in a directory where others plan too:     *)
(* each plan is new bytes, so a file never turns back into an earlier one. *)
(*                                                                         *)
(* gateway.py decides on any tool call.  A tool is known by the kinds of   *)
(* verbs in its name ("irreversible", "consequential", "safe"); a policy   *)
(* forces the class of some tools, denies some, and may allow only some.   *)
(* The gate's answer is a verdict, or what a missing, crashing or          *)
(* malformed gate amounts to.                                              *)
(***************************************************************************)
EXTENDS Integers, FiniteSets

CONSTANTS MaxPlans     \* bound: plan files ever written

VARIABLES file,        \* the plan file: [id, does], id 0 when there is none
          order,       \* the operator's job: [at, before, shown, bound, class, verdict, ok]
          applied,     \* what terraform last applied: [plan, order, late], in a set of at most one
          plans        \* how many plan files were written

planVars == <<file, order, applied, plans>>

-----------------------------------------------------------------------------
(* The gateway.                                                            *)

Class == {"safe", "consequential", "irreversible"}

\* Unknown names are not taken for read-only.
classify(policy, tool) ==
  IF tool.name \in DOMAIN policy.overrides THEN policy.overrides[tool.name]
  ELSE IF "irreversible" \in tool.verbs THEN "irreversible"
  ELSE IF "consequential" \in tool.verbs THEN "consequential"
  ELSE IF "safe" \in tool.verbs THEN "safe"
  ELSE "consequential"

permitted(policy, tool) ==
  /\ tool.name \notin policy.deny
  /\ policy.allow = {} \/ tool.name \in policy.allow

\* gateSays: "pass", "warn", "fail", or "none", "crash", "malformed".
handle(policy, tool, gateSays, approved) ==
  LET c == classify(policy, tool) IN
  IF ~permitted(policy, tool) THEN "blocked"
  ELSE IF c = "safe" THEN "forward"
  ELSE IF c = "consequential" THEN IF gateSays = "pass" THEN "forward" ELSE "blocked"
  ELSE IF approved THEN "forward"
  ELSE IF policy.dry_run THEN "dry_run" ELSE "needs_approval"

-----------------------------------------------------------------------------
(* The plan file, the operator and the apply.                              *)

Does == {"update", "destroy", "widen_iam", "provisioner"}
NoPlan == [id |-> 0, does |-> "nothing"]
NoOrder == [at |-> "idle", before |-> 0, shown |-> "nothing", bound |-> 0,
         class |-> "irreversible", verdict |-> "fail", ok |-> FALSE]

PlanInit == file = NoPlan /\ order = NoOrder /\ applied = {} /\ plans = 0

NewFile == \E d \in Does : file' = [id |-> plans + 1, does |-> d] /\ plans' = plans + 1

\* What the plan does decides the class, not the tool's name.
escalate(does) == IF does \in {"destroy", "widen_iam", "provisioner"} THEN "irreversible" ELSE "consequential"
escalation_override(class) ==
  [t \in {"terraform apply", "terraform destroy"} |-> IF t = "terraform apply" THEN class ELSE "irreversible"]

\* plan(): terraform writes the file, or fails and nothing is bound.
Plan ==
  /\ order.at = "idle" /\ plans < MaxPlans
  /\ \/ NewFile /\ order' = [NoOrder EXCEPT !.at = "digest"]
     \/ order' = [NoOrder EXCEPT !.at = "ready"] /\ UNCHANGED <<file, plans>>
  /\ UNCHANGED applied

DigestBefore ==
  /\ order.at = "digest"
  /\ order' = IF file = NoPlan THEN [NoOrder EXCEPT !.at = "ready"]
              ELSE [order EXCEPT !.at = "show", !.before = file.id]
  /\ UNCHANGED <<file, applied, plans>>

\* `show -json` reads the file on its own; what it prints may be of no use.
Show ==
  /\ order.at = "show"
  /\ \/ order' = [order EXCEPT !.at = "digest_again", !.shown = file.does]
     \/ order' = [order EXCEPT !.at = "digest_again", !.shown = "unreadable"]
  /\ UNCHANGED <<file, applied, plans>>

\* Bug: the digest taken after `show` is bound whatever it was before.
BindsAny(before) == file # NoPlan

\* Bytes that changed while they were read are not bound.
Binds(before) == file.id = before

\* The same output is graded and classified; unreadable, it is irreversible and
\* errored, whatever the gate of a readable plan would have said.
DigestAfter ==
  /\ order.at = "digest_again"
  /\ IF ~Binds(order.before) THEN order' = [NoOrder EXCEPT !.at = "ready"]
     ELSE IF order.shown = "unreadable" \/ order.shown = "nothing"
     THEN order' = [order EXCEPT !.at = "ready", !.bound = file.id]
     ELSE \E v \in {"pass", "warn", "fail"} :
            order' = [order EXCEPT !.at = "ready", !.bound = file.id,
                                   !.class = escalate(order.shown), !.verdict = v]
  /\ UNCHANGED <<file, applied, plans>>

\* The gateway in front of "terraform apply", with the plan's overrides.
Policy(deny, dry) == [overrides |-> escalation_override(order.class), deny |-> deny, allow |-> {}, dry_run |-> dry]
Apply == [name |-> "terraform apply", verbs |-> {"consequential"}]
DecideApply ==
  /\ order.at = "ready"
  /\ \E human, dry \in BOOLEAN, deny \in {{}, {"terraform apply"}} :
       LET d == handle(Policy(deny, dry), Apply, order.verdict, human)
       IN  order' = IF d = "forward" THEN [order EXCEPT !.at = "act", !.ok = human] ELSE NoOrder
  /\ UNCHANGED <<file, applied, plans>>

\* act(): the file is digested again; an empty approved digest is refused.
Act ==
  /\ order.at = "act"
  /\ order' = IF file # NoPlan /\ order.bound # 0 /\ file.id = order.bound
              THEN [order EXCEPT !.at = "apply"] ELSE NoOrder
  /\ UNCHANGED <<file, applied, plans>>

\* terraform opens the file by its path and applies it, or fails.
TerraformApply ==
  /\ order.at = "apply"
  /\ \/ UNCHANGED applied
     \/ /\ file # NoPlan
        /\ applied' = {[plan |-> file, order |-> order, late |-> file.id # order.bound]}
  /\ order' = NoOrder
  /\ UNCHANGED <<file, plans>>

\* Somebody else plans into the same file, or removes it.
Others ==
  /\ \/ plans < MaxPlans /\ NewFile
     \/ file # NoPlan /\ file' = NoPlan /\ UNCHANGED plans
  /\ UNCHANGED <<order, applied>>

PlanNext == Plan \/ DigestBefore \/ Show \/ DigestAfter \/ DecideApply \/ Act \/ TerraformApply \/ Others

-----------------------------------------------------------------------------
\* "Apply EXACTLY the bound plan": what destroys, widens access or runs commands
\* is applied after a human approved that plan, the rest after its gate passed;
\* but for a file swapped between act()'s check and terraform opening it.
AppliedAsDecided ==
  \A a \in applied : ~a.late =>
    \/ a.order.ok
    \/ escalate(a.plan.does) # "irreversible" /\ a.order.verdict = "pass"
=============================================================================
