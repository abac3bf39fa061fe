----------------------------- MODULE IacGrader -----------------------------
(***************************************************************************)
(* ci/iac.py's plan grader and actuators/terraform.py's escalation: one    *)
(* `terraform show -json` document is read twice, into issues that gate    *)
(* and into the class of the apply.  A plan here has one resource, with a  *)
(* planned change and perhaps a drift found on it, and what its            *)
(* configuration runs.                                                     *)
(*                                                                         *)
(* A resource's state `after` is [stmts, tags, rbac]: the statements of    *)
(* any policy document in it, the fields that matter, a Kubernetes object. *)
(* A change is [actions, after, unknown]: unknown when a field that        *)
(* matters is only known after the apply.                                  *)
(*                                                                         *)
(* Kubernetes RBAC has two sensors: this file's, over terraform's provider *)
(* for it, and ci/k8s.py's, over native manifests.  They are two programs  *)
(* with one vocabulary, "kept at parity".  A role is a set of rules with   *)
(* its scope; a binding names a role and its subjects.                     *)
(***************************************************************************)
EXTENDS Gate, PlanActuator

CONSTANTS RbacRules,     \* the rules a role may have: [verbs, res, nonres]
          RbacSubjects,  \* the subjects a binding may have: [kind, name]
          ListDepths     \* how many Lists may be around an object

ASSUME DepthsAreNumbers == ListDepths \subseteq Nat

VARIABLES rbac           \* one object under both sensors: [at, o, depth, tf, native]
rbacVars == <<rbac>>

_RBAC_PRIVESC_VERBS == {"escalate", "bind", "impersonate"}
_RBAC_SECRET_VERBS == {"get", "list", "watch", "*"}
_RBAC_DANGEROUS_RESOURCES == {"serviceaccounts/token", "pods/exec", "pods/attach"}
_RBAC_WRITE_VERBS == {"create", "update", "patch", "delete", "deletecollection"}
_RBAC_BUILTIN_ADMIN_ROLES == {"cluster-admin", "admin", "edit"}

\* Resources whose change takes over a cluster without a wildcard.
Webhooks == {"mutatingwebhookconfigurations", "validatingwebhookconfigurations"}
_RBAC_RESOURCE_PRIVESC(r) ==
  IF r \in Webhooks THEN {"create", "update", "patch", "*"}
  ELSE IF r \in {"certificatesigningrequests", "certificatesigningrequests/approval"} THEN {"update", "approve", "*"}
  ELSE IF r = "signers" THEN {"approve", "sign", "*"}
  ELSE IF r = "nodes" THEN {"update", "patch", "*"}
  ELSE IF r = "nodes/proxy" THEN {"get", "create", "update", "*"}
  ELSE IF r \in {"pods/proxy", "services/proxy"} THEN {"get", "create", "*"} ELSE {}
_rbac_resource_privesc(verbs, res) == {r \in res : verbs \cap _RBAC_RESOURCE_PRIVESC(r) # {}}

Hit(cond, rule, sev) == IF cond THEN {[rule |-> rule, sev |-> sev]} ELSE {}

Elevated(role) == role.cluster \/ role.ns \in {"kube-system", "kube-public"}
SecretReach(rule) ==
  \/ "secrets" \in rule.res /\ rule.verbs \cap _RBAC_SECRET_VERBS # {}
  \/ "*" \in rule.res /\ rule.verbs \cap {"get", "list", "watch"} # {}

\* One rule of kubernetes_role / kubernetes_cluster_role.
TfRule(rule, elevated) ==
  Hit("*" \in rule.verbs /\ ("*" \in rule.res \/ "*" \in rule.nonres), "WILDCARD_RBAC", "error")
  \cup Hit(rule.verbs \cap {"create", "*"} # {} /\ rule.res \cap _RBAC_DANGEROUS_RESOURCES # {}, "PRIVILEGE_ESCALATION", "critical")
  \cup Hit(rule.verbs \cap _RBAC_PRIVESC_VERBS # {}, "PRIVILEGE_ESCALATION", "critical")
  \cup Hit(_rbac_resource_privesc(rule.verbs, rule.res) # {}, "PRIVILEGE_ESCALATION", "critical")
  \cup Hit("*" \in rule.res /\ rule.verbs \cap _RBAC_WRITE_VERBS # {}, "PRIVILEGE_ESCALATION",
           IF elevated THEN "critical" ELSE "error")
  \cup Hit(SecretReach(rule), "SECRETS_ACCESS", IF elevated THEN "error" ELSE "warning")

\* A subject is [kind, name]; "*" and the names of other clouds are public here.
ForeignNames == {"*", "allusers", "allauthenticatedusers"}
TfSubject(s) ==
  IF s.name = "system:masters" THEN Hit(TRUE, "ADMIN_GRANT", "error")
  ELSE Hit(\/ s.name \in ForeignNames \cup {"system:anonymous", "system:unauthenticated"}
           \/ s.kind = "Group" /\ s.name \in {"system:unauthenticated", "system:authenticated"},
           "PUBLIC_PRINCIPAL", "critical")

TfRef(ref) == Hit(ref.name \in _RBAC_BUILTIN_ADMIN_ROLES /\ ref.kind = "clusterrole", "ADMIN_GRANT", "error")

_k8s_rbac(o) ==
  Hit(o.aggregates, "AGGREGATION_RULE", "warning")
  \cup (UNION {TfRule(r, Elevated(o)) : r \in o.rules})
  \cup (UNION {TfRef(r) : r \in o.refs})
  \cup (UNION {TfSubject(s) : s \in o.subjects})

-----------------------------------------------------------------------------
(* The native sensor: by kind of object, a Role's rules or a binding's ends. *)

\* Bug: the rules of a privileged namespace are weighed like any other's.
RoleRisksByKind(o) ==
  Hit(o.aggregates, "AGGREGATION_RULE", "warning") \cup UNION {TfRule(r, o.cluster) : r \in o.rules}

NativeRule(rule, elevated) ==
  LET star == "*" \in rule.res
      escalates == \/ rule.verbs \cap {"create", "*"} # {} /\ rule.res \cap _RBAC_DANGEROUS_RESOURCES # {}
                   \/ rule.verbs \cap _RBAC_PRIVESC_VERBS # {}
                   \/ _rbac_resource_privesc(rule.verbs, rule.res) # {}
      reads == (IF "secrets" \in rule.res THEN _RBAC_SECRET_VERBS ELSE {})
               \cup (IF star THEN {"get", "list", "watch"} ELSE {})
  IN  Hit("*" \in rule.verbs /\ (star \/ "*" \in rule.nonres), "WILDCARD_RBAC", "error")
      \cup Hit(escalates, "PRIVILEGE_ESCALATION", "critical")
      \cup Hit(star /\ rule.verbs \cap _RBAC_WRITE_VERBS # {}, "PRIVILEGE_ESCALATION",
               IF elevated THEN "critical" ELSE "error")
      \cup Hit(rule.verbs \cap reads # {}, "SECRETS_ACCESS", IF elevated THEN "error" ELSE "warning")

_role_risks(o) ==
  Hit(o.aggregates, "AGGREGATION_RULE", "warning") \cup UNION {NativeRule(r, Elevated(o)) : r \in o.rules}

NativeRef(r) == Hit(r.kind = "clusterrole" /\ r.name \in _RBAC_BUILTIN_ADMIN_ROLES, "ADMIN_GRANT", "error")
NativeSubject(s) ==
  IF s.name = "system:masters" THEN Hit(TRUE, "ADMIN_GRANT", "error")
  ELSE Hit(\/ s.name \in {"system:anonymous", "system:unauthenticated"}
           \/ s.kind = "Group" /\ s.name \in {"system:unauthenticated", "system:authenticated"},
           "PUBLIC_PRINCIPAL", "critical")
_binding_risks(o) == (UNION {NativeRef(r) : r \in o.refs}) \cup (UNION {NativeSubject(s) : s \in o.subjects})

\* A manifest is an object inside some Lists; nesting is followed to a depth, and
\* what lies deeper is dropped.
ListDepth == 20
_unwrap_lists(ms) == {m.obj : m \in {x \in ms : x.depth <= ListDepth}}
extract_rbac_risks(ms) ==
  UNION {IF o.kind \in {"Role", "ClusterRole"} THEN _role_risks(o)
         ELSE IF o.kind \in {"RoleBinding", "ClusterRoleBinding"} THEN _binding_risks(o) ELSE {}
         : o \in _unwrap_lists(ms)}

-----------------------------------------------------------------------------
NoObject == [kind |-> "none", cluster |-> FALSE, ns |-> "default", aggregates |-> FALSE,
             rules |-> {}, refs |-> {}, subjects |-> {}]
RbacInit == rbac = [at |-> "new", o |-> NoObject, depth |-> 0, tf |-> {}, native |-> {}]

RoleOf(c, n, a, r) ==
  [NoObject EXCEPT !.kind = IF c THEN "ClusterRole" ELSE "Role", !.cluster = c, !.ns = n, !.aggregates = a, !.rules = {r}]
Roles == {RoleOf(c, n, a, r) : c \in BOOLEAN, n \in {"default", "kube-system"}, a \in BOOLEAN, r \in RbacRules}
BindingOf(k, ref, s) == [NoObject EXCEPT !.kind = k, !.refs = {ref}, !.subjects = {s}]
Bindings == {BindingOf(k, ref, s) : k \in {"RoleBinding", "ClusterRoleBinding"},
               ref \in [kind : {"role", "clusterrole"}, name : {"admin", "viewer"}], s \in RbacSubjects}

\* The same object, written for terraform and as a manifest in some Lists.
ReadObject ==
  /\ rbac.at = "new"
  /\ \E o \in Roles \cup Bindings, d \in ListDepths :
       rbac' = [rbac EXCEPT !.at = "read", !.o = o, !.depth = d]

Sense ==
  /\ rbac.at = "read"
  /\ rbac' = [rbac EXCEPT !.at = "sensed", !.tf = _k8s_rbac(rbac.o),
                          !.native = extract_rbac_risks({[obj |-> rbac.o, depth |-> rbac.depth]})]

RbacNext == ReadObject \/ Sense

\* "kept at parity": the two sensors say the same of the same object, whatever its
\* scope and namespace, inside ListDepth Lists or fewer, where no subject has a name
\* of another cloud: those are public to terraform's sensor alone.
SensorsAgree ==
  /\ rbac.at = "sensed" /\ rbac.depth <= ListDepth
  /\ \A s \in rbac.o.subjects : s.name \notin ForeignNames
  => rbac.tf = rbac.native

\* "an RBAC object must not evade the sensor merely by being wrapped" (ci/k8s.py:158).
NoWrappingEvades ==
  rbac.at = "sensed" => rbac.native = extract_rbac_risks({[obj |-> rbac.o, depth |-> 0]})

-----------------------------------------------------------------------------
(* The plan grader.                                                        *)

CONSTANTS ChangeActions,   \* the actions a planned change may have
          Afters           \* type -> the states such a resource can have

VARIABLES iac        \* one plan on its way: [at, type, planned, drift, config, issues, class]
iacVars == <<iac>>

IamTypes == {"policy", "lambda_permission", "gcp_binding", "az_assignment", "service_account_key",
             "public_access_block", "bucket_acl", "db_instance", "storage_account",
             "security_group", "firewall", "security_rule", "k8s_role"}
is_iam_resource(t) == t \in IamTypes

Null == [stmts |-> {}, tags |-> {}, rbac |-> NoObject]

\* What terraform means to do, normalised; a read changes nothing.
_change_type(actions) ==
  IF actions \subseteq {"no-op", "read"} THEN "none"
  ELSE IF {"create", "delete"} \subseteq actions THEN "replace"
  ELSE IF "delete" \in actions THEN "revoke"
  ELSE IF "create" \in actions THEN "grant" ELSE "widen"

extracted(type, c) ==
  /\ \/ is_iam_resource(type) \/ c.after.stmts # {} \/ c.unknown
     \/ "publicly_accessible" \in c.after.tags
  /\ _change_type(c.actions) # "none"

-----------------------------------------------------------------------------
(* The risk rules.                                                         *)

UnknownContent(c) == Hit(c.unknown, "UNKNOWN_IAM_CONTENT", "error")

\* A statement is [allow, excludes, who, action, star].  Globs cover what they
\* match; a statement with a principal says who may, not what one may do.
Wildcard(a) == a \in {"everything", "all_of_a_service"}
_is_privesc(a) == a \in {"privesc", "assume_role", "everything"}
StatementRisk(s) ==
  IF ~s.allow THEN {} ELSE
    Hit(s.excludes, "ALLOW_BY_EXCLUSION", "error")
    \cup Hit(s.who = "public", "PUBLIC_PRINCIPAL", "critical")
    \cup Hit(_is_privesc(s.action) /\ s.who = "nobody", "PRIVILEGE_ESCALATION", IF s.star THEN "critical" ELSE "error")
    \cup Hit(s.who = "account" /\ s.action = "assume_role", "CROSS_ACCOUNT_TRUST", "warning")
    \cup Hit(Wildcard(s.action), "WILDCARD_ACTION", "error")
    \cup Hit(Wildcard(s.action) /\ s.star, "WILDCARD_RESOURCE", "error")

LambdaRisk(type, tags) ==
  Hit(type = "lambda_permission" /\ "principal_star" \in tags /\ "source_scoped" \notin tags, "PUBLIC_PRINCIPAL", "critical")
ManagedRisk(tags) == Hit("admin_policy_arn" \in tags, "ADMIN_GRANT", "error")
_gcp_bindings(tags) ==
  Hit("gcp_admin_role" \in tags, "ADMIN_GRANT", "error")
  \cup Hit("gcp_privesc_role" \in tags, "PRIVILEGE_ESCALATION", "critical")
  \cup Hit({"gcp_role", "gcp_admin_role", "gcp_privesc_role"} \cap tags # {} /\ "all_users" \in tags, "PUBLIC_PRINCIPAL", "critical")
AzureRisk(tags) ==
  Hit({"az_admin_role", "az_wildcard_permission"} \cap tags # {}, "ADMIN_GRANT", "error")
  \cup Hit({"az_access_administrator", "az_elevation_action"} \cap tags # {}, "PRIVILEGE_ESCALATION", "critical")
KeyRisk(type, ct) ==
  Hit(type = "service_account_key" /\ ct \in {"grant", "widen", "replace"}, "CREDENTIAL_EXPOSURE", "error")

\* The block protects only with all of its four flags; deleting it ends that.
BlockRisk(type, ct, tags) ==
  Hit(type = "public_access_block" /\ (ct = "revoke" \/ "all_four_flags" \notin tags),
      "PUBLIC_ACCESS_BLOCK_DISABLED", "error")
AclRisk(type, tags) ==
  Hit(type = "bucket_acl" /\ {"canned_public_acl", "grant_to_all_users"} \cap tags # {}, "PUBLIC_ACL", "error")
EndpointRisk(tags) == Hit("publicly_accessible" \in tags, "PUBLIC_DB_ENDPOINT", "error")
BlobRisk(type, tags) ==
  Hit(type = "storage_account" /\ "blob_public_access" \in tags, "PUBLIC_BLOB_ACCESS", "error")

\* Half of an address space or more, in however many blocks, is the world.
_cidrs_cover_world(tags) == {"world_cidr", "world_in_two_halves"} \cap tags # {}
_azure_rule_open(tags) ==
  "allow" \in tags /\ "outbound" \notin tags /\ ("internet_prefix" \in tags \/ _cidrs_cover_world(tags))
_open_ingress(type, tags) ==
  \/ "ingress" \in tags /\ _cidrs_cover_world(tags)
  \/ type = "firewall" /\ "outbound" \notin tags /\ _cidrs_cover_world(tags)
  \/ type = "security_rule" /\ _azure_rule_open(tags)
IngressRisk(type, tags) == Hit(_open_ingress(type, tags), "OPEN_INGRESS", "error")

_evaluate(type, c) ==
  LET ct == _change_type(c.actions)  t == c.after.tags
  IN  UnknownContent(c) \cup (UNION {StatementRisk(s) : s \in c.after.stmts})
      \cup LambdaRisk(type, t) \cup ManagedRisk(t) \cup _gcp_bindings(t) \cup AzureRisk(t) \cup KeyRisk(type, ct)
      \cup BlockRisk(type, ct, t) \cup AclRisk(type, t) \cup EndpointRisk(t) \cup BlobRisk(type, t)
      \cup IngressRisk(type, t)
      \cup (IF type = "k8s_role" THEN _k8s_rbac(c.after.rbac) ELSE {})

iam_risk_issues(type, c) ==
  IF extracted(type, c) THEN {Issue(h.sev, "high", h.rule) : h \in _evaluate(type, c)} ELSE {}

-----------------------------------------------------------------------------
(* The plan.  drift.actions = {} when nothing drifted; a resource without a *)
(* planned change has planned.actions = {}.                                 *)

\* Bug: a replacement is no destroy.
DeletesOnly(p) == p.planned.actions = {"delete"}

destructive_changes(p) == "delete" \in p.planned.actions
provisioner_resources(p) == {"exec_provisioner", "external_data"} \cap p.config # {}
http_data_sources(p) == "http_data" \in p.config

\* A drift is taken for reverted when its address has a planned change.
persists(p) == _change_type(p.planned.actions) = "none"
DriftIssues(p) ==
  IF ~extracted(p.type, p.drift) THEN {}
  ELSE {IF persists(p) THEN Issue(h.sev, "high", h.rule) ELSE Issue("warning", "medium", h.rule)
        : h \in _evaluate(p.type, p.drift)}

Raised(cond, sev, rule) == IF cond THEN {Issue(sev, "high", rule)} ELSE {}
parse_terraform_plan(p) ==
  Raised(destructive_changes(p), "info", "DESTROY_OR_REPLACE")
  \cup Raised(provisioner_resources(p), "error", "UNAUDITABLE_PROVISIONER")
  \cup Raised(http_data_sources(p), "warning", "HTTP_DATA_SOURCE")
  \cup iam_risk_issues(p.type, p.planned)
  \cup DriftIssues(p)

\* What the bound plan does decides the class of its apply.
escalate_plan(p) ==
  IF \/ destructive_changes(p)
     \/ extracted(p.type, p.planned) /\ _change_type(p.planned.actions) \in {"grant", "widen", "replace"}
     \/ provisioner_resources(p)
  THEN "irreversible" ELSE "consequential"

grade_iac(issues) == plain_gate({Report("iac", FALSE, issues)})

-----------------------------------------------------------------------------
Types == DOMAIN Afters
Nothing == [actions |-> {}, after |-> Null, unknown |-> FALSE]
Changes(t) ==
  {Nothing} \cup
  {[actions |-> a, after |-> IF a \in {{"delete"}, {"forget"}} THEN Null ELSE s, unknown |-> u]
   : a \in ChangeActions, s \in Afters[t], u \in BOOLEAN}
Drifts(t) ==
  {Nothing} \cup {[actions |-> {"update"}, after |-> s, unknown |-> FALSE] : s \in Afters[t]}
            \cup {[actions |-> {"delete"}, after |-> Null, unknown |-> FALSE]}

NoIac == [at |-> "new", type |-> "none", planned |-> Nothing, drift |-> Nothing, config |-> {},
          issues |-> {}, class |-> "irreversible"]
IacInit == iac = NoIac

ReadPlan ==
  /\ iac.at = "new"
  /\ \E t \in Types : \E c \in Changes(t), d \in Drifts(t) :
     \E cfg \in {{}, {"exec_provisioner"}, {"external_data"}, {"http_data"}} :
       iac' = [NoIac EXCEPT !.at = "read", !.type = t, !.planned = c, !.drift = d, !.config = cfg]

GradePlan ==
  /\ iac.at = "read"
  /\ iac' = [iac EXCEPT !.at = "graded", !.issues = parse_terraform_plan(iac), !.class = escalate_plan(iac)]

Wanted(class) == [overrides |-> [t \in {"terraform apply"} |-> class], deny |-> {}, allow |-> {}, dry_run |-> TRUE]
ApplyCall == [name |-> "terraform apply", verbs |-> {"consequential"}]
Unattended(p) == handle(Wanted(p.class), ApplyCall, grade_iac(p.issues), FALSE) = "forward"

IacNext == ReadPlan \/ GradePlan

-----------------------------------------------------------------------------
\* What the apply leaves at the resource's address.
Overwritten(p) == p.planned.actions \cap {"create", "update", "delete"} # {}
LeftBehind(p) == IF Overwritten(p) THEN p.planned ELSE p.drift
Serious(hits) == \E h \in hits : AtLeast(h.sev, "error")

\* An apply that nobody approved destroys nothing, runs no program the plan does
\* not show, and leaves nothing behind that the rules call a risk, be it planned
\* or drifted to.
UnattendedIsTame ==
  iac.at = "graded" /\ Unattended(iac) =>
    /\ "delete" \notin iac.planned.actions
    /\ iac.config = {}
    /\ extracted(iac.type, LeftBehind(iac)) => _evaluate(iac.type, LeftBehind(iac)) = {}

\* "An address is 'will be reverted' ONLY if it has a REAL planned change
\* (create/update/delete/replace)": a serious drift that stays is graded so.
LastingDriftGates ==
  iac.at = "graded" /\ ~Overwritten(iac) /\ extracted(iac.type, iac.drift) /\ Serious(_evaluate(iac.type, iac.drift))
    => grade_iac(iac.issues) = "fail"
=============================================================================
