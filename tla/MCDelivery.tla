----------------------------- MODULE MCDelivery -----------------------------
(* The delivery path and its side effects in one run: each behaviour takes  *)
(* one scenario, a component of its own.                                    *)
(*   "loops": two workers, one ledger; "ci": canaries and healing; "store": *)
(*   the receipts; "stage": the graders of one CI stage; "mutation": a      *)
(*   mutation run and its clock; "spec": criteria and generated checks      *)
(*   "lease": three owners of one lease; "fence": pushes to a fenced        *)
(*   remote; "saga": a change over three repositories; "worktree": attempts *)
(*   at one task; "plan": a plan file others write to as well; "telecom": a *)
(*   change of a device's configuration                                     *)
(*   "iac": plans under the graders; "rbac": Kubernetes roles; "kpi": the   *)
(*   measurements of two cells; "config": a network's declared invariants   *)
(*   "attest": signed receipts on their way to a second party; "operator":  *)
(*   a GateRun, its Job and its policy in a cluster                         *)
EXTENDS AgentLoop, AgentCI, ReceiptStore, Graders,
        SqliteLeases, SideEffects, IacGrader, TelecomActuator, TelecomKpi, TelecomConfig,
        Attestation, Operator, TLC

CONSTANTS Scenarios, a1, a2, j1, j2, m1, m2, t1, t2, t3
VARIABLE scenario
sideVars == <<fenceVars, sagaVars, treeVars, planVars, telecomVars, iacVars, rbacVars, kpi, cfg,
              attestVars, operatorVars>>
allVars == <<scenario, ledger, loopVars, ciVars, storeVars, benchVars, mutationVars, specVars, vars, sideVars>>

-----------------------------------------------------------------------------
(* The loop, CI and the graders.                                           *)
\* bug: a failure the tests and a browser see; vibe: a model's opinion; net: a
\* network failure of the tests.
AllFps == {"bug", "vibe", "net"}
Sev == [f \in AllFps |-> "error"]
KindOf == [f \in AllFps |-> IF f = "vibe" THEN "vision" ELSE "dom"]
Conf == [f \in AllFps |-> "high"]
Text == [f \in AllFps |-> IF f = "net" THEN "infra" ELSE "code"]
GradersOf == [g \in {"test", "vision"} |-> IF g = "test" THEN {"bug", "net"} ELSE {"vibe"}]
StageSeq == <<"test", "vision">>
\* The second file does not parse.
Sources == <<[parses |-> TRUE, mutants |-> 2], [parses |-> FALSE, mutants |-> 0], [parses |-> TRUE, mutants |-> 1]>>

-----------------------------------------------------------------------------
(* The side effects, and the graders of what they apply.                   *)
StepSeq == <<"one", "two", "three">>
OwnRepo == [i \in 1..3 |-> i]
\* From old to new something is added; every other change takes something away.
NotAdded == {p \in {"old", "new", "bad"} \X {"old", "new", "bad"} : p[1] # p[2] /\ p # <<"old", "new">>}
Payloads == {[id |-> 1, to |-> "new"], [id |-> 2, to |-> "bad"], [id |-> 3, to |-> "old"]}

\* Terraform's actions; "forget" drops a resource from the state only.
AllActions == {{"create"}, {"update"}, {"delete"}, {"create", "delete"}, {"no-op"}, {"read"}, {"forget"}}

Tagged(t) == [Null EXCEPT !.tags = t]
Stated(w, a, star, x, ok) ==
  [Null EXCEPT !.stmts = {[allow |-> ok, excludes |-> x, who |-> w, action |-> a, star |-> star]}]
PolicyStates ==
  {Stated(w, a, TRUE, FALSE, TRUE) : w \in {"nobody", "public", "account", "service"},
                                     a \in {"read", "privesc", "assume_role", "everything", "all_of_a_service"}}
  \cup {Stated("nobody", "privesc", FALSE, FALSE, TRUE), Stated("nobody", "read", TRUE, TRUE, TRUE),
        Stated("public", "everything", TRUE, FALSE, FALSE), Tagged({}), Tagged({"admin_policy_arn"})}
OneRule == [verbs |-> {"*"}, res |-> {"*"}, nonres |-> {}]
StatesOf ==
  [t \in IamTypes \cup {"routable", "plain"} |->
     IF t = "policy" THEN PolicyStates
     ELSE IF t = "lambda_permission" THEN {Tagged(x) : x \in SUBSET {"principal_star", "source_scoped"}}
     ELSE IF t = "gcp_binding" THEN {Tagged({r} \cup m) : r \in {"gcp_role", "gcp_admin_role", "gcp_privesc_role"}, m \in {{}, {"all_users"}}}
     ELSE IF t = "az_assignment" THEN {Tagged(x) : x \in {{}, {"az_admin_role"}, {"az_access_administrator"}, {"az_wildcard_permission"}, {"az_elevation_action"}}}
     ELSE IF t = "public_access_block" THEN {Tagged({}), Tagged({"all_four_flags"})}
     ELSE IF t = "bucket_acl" THEN {Tagged({}), Tagged({"canned_public_acl"}), Tagged({"grant_to_all_users"})}
     ELSE IF t \in {"db_instance", "routable"} THEN {Tagged({}), Tagged({"publicly_accessible"}), Stated("public", "read", TRUE, FALSE, TRUE)}
     ELSE IF t = "storage_account" THEN {Tagged({}), Tagged({"blob_public_access"})}
     ELSE IF t = "security_group" THEN {Tagged({}), Tagged({"ingress"}), Tagged({"world_cidr"}), Tagged({"ingress", "world_in_two_halves"})}
     ELSE IF t = "firewall" THEN {Tagged({"world_cidr"}), Tagged({"world_cidr", "outbound"})}
     ELSE IF t = "security_rule" THEN {Tagged({"allow", "internet_prefix"}), Tagged({"internet_prefix"}), Tagged({"allow", "world_cidr", "outbound"})}
     ELSE IF t = "k8s_role" THEN {Null, [Null EXCEPT !.rbac.rules = {OneRule}], [Null EXCEPT !.rbac.aggregates = TRUE]}
     ELSE {Null}]

Upto2(S) == {x \in SUBSET S : Cardinality(x) <= 2}
SomeRules == {[verbs |-> v, res |-> r, nonres |-> n]
              : v \in Upto2({"get", "create", "update", "escalate", "approve", "*"}),
                r \in Upto2({"pods", "secrets", "serviceaccounts/token", "nodes", "signers", "nodes/proxy", "*"}),
                n \in {{}, {"*"}}}
SomeSubjects == {[kind |-> k, name |-> n] : k \in {"User", "Group"},
                 n \in {"system:masters", "system:anonymous", "system:unauthenticated", "system:authenticated", "allusers", "dev"}}

-----------------------------------------------------------------------------
(* Telecom: the measurements and the networks.                             *)
RawRows == [num : {<<0>>, <<1>>, <<1, 1>>, <<3, -1>>}, den : {<<>>, <<0>>, <<2>>, <<4>>}, suspect : BOOLEAN]
DirectRows == [value : {None, 40, 60, 90}, n : {None, -1, 0, 2}]
KpiFile(f, r) == [fmt |-> f, blank |-> FALSE, rows |-> r]
KpiFiles == {KpiFile("pmxml", r) : r \in [{1, 2} -> RawRows]} \cup
            {KpiFile(f, r) : f \in {"csv", "openmetrics"}, r \in [{1, 2} -> DirectRows]} \cup
            {[KpiFile("csv", <<>>) EXCEPT !.blank = b] : b \in BOOLEAN}
KpiBases == {NoFile, KpiFile("csv", <<Stated_(90, 2)>>)}
KpiThresholds == [min : {None, 50}, max : {None, 80}, delta : {None, 20}, floor : {0, 3}, agg : {"worst", "mean"},
                  direction : {"higher_is_better", "lower_is_better"}, severity : {"error"}]
                 \cup [min : {None, 50}, max : {None, 80}, delta : {None}, floor : {0, 3}, agg : {"worst"},
                       direction : {"higher_is_better"}, severity : {"warning"}]

\* Slices are <<SST, SD>>; DNNs and PLMNs are strings; a cell's name is a negative number.
Bare == [nrm |-> FALSE, amf |-> Unset, smf |-> Unset, upf |-> Unset, nssf |-> Unset, udm |-> Unset,
         uris |-> [k \in {} |-> {}], sessions |-> <<>>, cells |-> <<>>, rels |-> {}]
ACell == [name |-> 0, gnb |-> "g1", local |-> 0, pci |-> Unset, pci_invalid |-> FALSE, tac |-> Unset, plmns |-> {}, arfcn |-> Unset,
          ssb |-> Unset, bw |-> Unset, tx |-> Unset, bwps |-> {}, prach |-> Unset]
Smf == [slices |-> [s \in {} |-> {}], pool |-> {}, replicas |-> 2, mtu |-> Unset]
Amf == [slices |-> {}, tais |-> {}, integrity |-> <<"NIA2">>, ciphering |-> <<"NEA2">>, replicas |-> Unset]
Upf(n3, n6) == [n3 |-> n3, n4 |-> {<<20, 20>>}, n6 |-> n6, replicas |-> Unset]
\* Slices: what the SMF serves against the NSSF, the AMFs and the UPFs.
SomeSlices == SUBSET {<<1, Unset>>, <<1, 16777215>>, <<1, 2>>}
SliceNets == {[Bare EXCEPT !.nrm = x, !.nssf = IF x THEN Unset ELSE q,
                 !.smf = [Smf EXCEPT !.slices = [s \in m |-> {"internet"}], !.pool = u],
                 !.amf = IF p = {} THEN Unset ELSE [Amf EXCEPT !.slices = {[plmn |-> "1-1", slices |-> p]}]]
              : x \in BOOLEAN, q \in {Unset} \cup SomeSlices, m \in SomeSlices, u \in {{{}}, {{"ims"}}, {{"ims"}, {"internet"}}}, p \in {{}, {<<1, Unset>>}, {<<1, 2>>}}}
\* Pools and interfaces.
Blocks == {<<0, 7>>, <<0, 15>>, <<8, 15>>, <<16, 31>>}
Pools == {<<>>} \cup [1..2 -> [of : {"smf", "upf"}, dnn : {"", "internet"}, net : Blocks]]
         \cup [1..3 -> [of : {"smf"}, dnn : {"internet"}, net : Blocks]]
PoolNets == {[Bare EXCEPT !.smf = Smf, !.sessions = p] : p \in Pools}
IfaceNets == {[Bare EXCEPT !.upf = Upf(x, y), !.udm = u] : x, y \in SUBSET {<<0, 7>>, <<4, 4>>, <<16, 31>>},
               u \in {Unset, {}, {[key |-> TRUE, scheme |-> 1]}, {[key |-> FALSE, scheme |-> 0]}}}
CoreNets == {[Bare EXCEPT !.smf = [Smf EXCEPT !.mtu = m, !.replicas = r], !.amf = [Amf EXCEPT !.integrity = i, !.ciphering = c], !.uris = u]
             : m \in {Unset, 1400, 1440, 1441, -1}, r \in {Unset, 1, 2}, i \in {<<>>, <<"NIA0">>}, c \in {<<>>, <<"NEA0">>, <<"NEA2", "NEA0">>},
               u \in {[k \in {"amf"} |-> {x}] : x \in {"http", "https"}}}
\* Cells and their relations: three cells in two gNBs, two with the same local id.
Trio(f) == <<[f EXCEPT !.name = -1, !.local = 11], [f EXCEPT !.name = -2, !.local = 12], [f EXCEPT !.name = -3, !.gnb = "g2", !.local = 11]>>
Relations == [du : {Unset}, gnb : {"g1", "g2"}, local : {11}, target : {-1, 12, -3, 5, Unset}, ho : {Unset}] \cup
        [du : {1}, gnb : {"g1"}, local : {11}, target : {-2, -3}, ho : BOOLEAN]
CellNets == {[Bare EXCEPT !.cells = [i \in 1..3 |-> [Trio(ACell)[i] EXCEPT !.pci = p[i]]], !.rels = r]
             : p \in [1..3 -> {5, 6}] \cup {<<Unset, 5, 1008>>}, r \in {r \in SUBSET Relations : Cardinality(r) <= 2}}
TacNets == {[Bare EXCEPT !.cells = <<[ACell EXCEPT !.tac = t, !.plmns = p, !.tx = x]>>, !.amf = IF a = Unset THEN Unset ELSE [Amf EXCEPT !.tais = a]]
            : t \in {Unset, 7}, p \in SUBSET {"1-1", "1-2"}, x \in {Unset, 40, 46},
              a \in {Unset} \cup SUBSET {<<"1-1", 7>>, <<"1-2", 7>>, <<"1-2", Unset>>}}
\* PRACH: two cells of a site and a neighbour.
Prachs == [root : {0, 31, 830, 838}, zcz : {0, 1, 12}, format : {"0", "3", "A1"}, restricted : {FALSE}]
          \cup {[root |-> 0, zcz |-> 16, format |-> "0", restricted |-> FALSE], [root |-> 0, zcz |-> 1, format |-> "x", restricted |-> FALSE], [root |-> 0, zcz |-> 1, format |-> "0", restricted |-> TRUE]}
PrachNets == {[Bare EXCEPT !.cells = <<[ACell EXCEPT !.name = -1, !.local = 11, !.arfcn = f, !.prach = p],
                                       [ACell EXCEPT !.name = -2, !.local = 12, !.gnb = g, !.arfcn = 100, !.prach = q]>>, !.rels = r]
              : f \in {Unset, 100}, p \in Prachs, q \in {q \in Prachs : q.zcz = 1 /\ q.root \in {0, 830}}, g \in {"g1", "g2"}, r \in {{}, {[du |-> 1, gnb |-> "g1", local |-> 11, target |-> -2, ho |-> Unset]}}}
SsbNets == {[Bare EXCEPT !.cells = <<[ACell EXCEPT !.ssb = s, !.bw = 20, !.bwps = {b}]>>]
            : s \in {Unset, 249, 250, 251, 270, 599999, 600000, 600096, 600097, 2016666, 2016667, 2016955, 2016956, 3279165, 3279166, 427000, 427010},
              b \in [start : {Unset, 0, 1, 51, 60}, num : {Unset, 51, 52}, scs : {Unset, 30, 240}]}
RuleParams == [require_nssf |-> FALSE, require_amf_tai |-> FALSE, min_pool_hosts |-> 8, mgmt_subnets |-> {<<16, 19>>}, floors |-> [amf |-> 1, smf |-> 2],
      require_hnet |-> TRUE, allow_nea0_priority |-> FALSE, assume_mesh_mtls |-> FALSE, exempt_nfs |-> {}, encap_overhead |-> 60, n3_transport_mtu |-> 1500,
      licenses |-> {[cells |-> {}, band |-> Unset, cap |-> 58, gain |-> 15, loss |-> 0], [cells |-> {-9}, band |-> "n78", cap |-> 1, gain |-> 0, loss |-> 0]},
      neighbor_severity |-> "warning"]
Blocks20 == <<20, 15>> :> 106 @@ <<20, 30>> :> 51 @@ <<20, 60>> :> 24
Ent(id, en, sv, ws) == [id |-> id, enabled |-> en, severity |-> sv, waivers |-> ws]
Plain == [default |-> TRUE, entries |-> <<>>]
Waiver(c, day) == [check |-> c, expiry |-> day, reasoned |-> TRUE]
PciRule(en, sv, ws) == [default |-> FALSE, entries |-> <<Ent("pci", en, sv, ws)>>]
SpecSet == {PciRule(en, sv, ws) : en \in {TRUE, FALSE, Unset}, sv \in {Unset, "error", "warning", "info"},
                                  ws \in {{}, {Waiver("collision", 9)}, {Waiver("collision", 10)}, {Waiver(Unset, 11)}, {Waiver("confusion", Unset)}}}
           \cup {[default |-> d, entries |-> <<Ent("pci", TRUE, Unset, {}), Ent(id, FALSE, Unset, {})>>] : d \in BOOLEAN, id \in {"pci", "nbr", "typo"}}
OnlyRule(id) == [default |-> FALSE, entries |-> <<Ent(id, TRUE, "error", {})>>]
Under(nets) == {[artifact |-> a, spec |-> Plain] : a \in nets}
ConfigCases ==
  <<Under(SliceNets), Under(PoolNets), Under(IfaceNets), Under(CoreNets), Under(CellNets), Under(TacNets), Under(PrachNets), Under(SsbNets),
    {[artifact |-> [Bare EXCEPT !.cells = [i \in 1..3 |-> [Trio(ACell)[i] EXCEPT !.pci = 5]], !.rels = {r}], spec |-> s] : s \in SpecSet, r \in Relations},
    {[artifact |-> [Bare EXCEPT !.cells = Trio(ACell), !.rels = r], spec |-> OnlyRule("nbr")] : r \in {r \in SUBSET Relations : Cardinality(r) <= 2}},
    {[artifact |-> a, spec |-> OnlyRule("redundancy")] : a \in CoreNets}>>
-----------------------------------------------------------------------------
(* The receipts a second party checks.                                     *)
Sheet(g, v, is, s) == [grader |-> g, verdict |-> v, errored |-> FALSE, issues |-> is, signed |-> s]
OneFinding(conf) == {Issue("error", conf, "bug")}
AttestReports ==
  {{Sheet("test", "pass", {}, TRUE)}, {Sheet("test", "fail", OneFinding("low"), TRUE), Sheet("acoustic", "fail", OneFinding("high"), FALSE)},
   {Sheet("test", "pass", {}, FALSE), Sheet("acoustic", "fail", OneFinding("high"), TRUE)}}
\* The second directory holds a key under the name of another.
Dirs == {[i \in {"partner", "old"} |-> i], [i \in {"partner"} |-> "other"]}
-----------------------------------------------------------------------------
MCInit ==
  /\ scenario \in Scenarios
  /\ LoopInit /\ CIInit /\ StoreInit /\ BenchInit /\ MutationInit /\ SpecInit
  /\ Init /\ FenceInit /\ SagaInit /\ TreeInit /\ PlanInit /\ TelecomInit /\ IacInit /\ RbacInit /\ KpiInit /\ CfgInit
  /\ AttestInit /\ OperatorInit
  /\ scenario # "ci" => main = <<{}>>
  /\ scenario # "loops" => artifact = [l \in Loops |-> {}]
  /\ scenario # "telecom" => device.running = "old"
  /\ scenario # "attest" => wire.dir = [i \in {"partner", "old"} |-> i]
  /\ LET past == [Unknown EXCEPT !.status = "fixed", !.pinned = TRUE]
     IN  ledger \in {[f \in Fps |-> Unknown]} \cup
                    (IF scenario = "ci" THEN {[f \in Fps |-> IF f = "bug" THEN past ELSE Unknown]} ELSE {})

Only(s) ==
  /\ scenario = s /\ UNCHANGED scenario
  /\ s # "loops" => UNCHANGED loopVars
  /\ s # "ci" => UNCHANGED ciVars
  /\ s # "store" => UNCHANGED storeVars
  /\ s # "stage" => UNCHANGED benchVars
  /\ s # "mutation" => UNCHANGED mutationVars
  /\ s # "spec" => UNCHANGED specVars
  /\ s # "lease" => UNCHANGED vars
  /\ s # "fence" => UNCHANGED fenceVars
  /\ s # "saga" => UNCHANGED sagaVars
  /\ s # "worktree" => UNCHANGED treeVars
  /\ s # "plan" => UNCHANGED planVars
  /\ s # "telecom" => UNCHANGED telecomVars
  /\ s # "iac" => UNCHANGED iacVars
  /\ s # "rbac" => UNCHANGED rbacVars
  /\ s # "kpi" => UNCHANGED kpi
  /\ s # "config" => UNCHANGED cfg
  /\ s # "attest" => UNCHANGED attestVars
  /\ s # "operator" => UNCHANGED operatorVars

Decay == \E f \in Fps : Forget(f)
MCNext ==
  \/ Only("loops") /\ (LoopNext \/ (Decay /\ UNCHANGED loopVars))
  \/ Only("ci") /\ (CINext \/ (Decay /\ UNCHANGED ciVars))
  \/ /\ UNCHANGED ledger
     /\ \/ Only("store") /\ StoreNext
        \/ Only("stage") /\ BenchNext
        \/ Only("mutation") /\ MutationNext
        \/ Only("spec") /\ SpecNext
        \/ Only("lease") /\ Next
        \/ Only("fence") /\ FenceNext
        \/ Only("saga") /\ SagaNext
        \/ Only("worktree") /\ TreeNext
        \/ Only("plan") /\ PlanNext
        \/ Only("telecom") /\ TelecomNext
        \/ Only("iac") /\ IacNext
        \/ Only("rbac") /\ RbacNext
        \/ Only("kpi") /\ KpiNext
        \/ Only("config") /\ CfgNext
        \/ Only("attest") /\ AttestNext
        \/ Only("operator") /\ OperatorNext

MCSpec == MCInit /\ [][MCNext]_allVars

\* A telecom report that does not fail is earned, by the measurements of every
\* cell and by the rules the file leaves on (telecom_kpi.py grade_kpi,
\* telecom_cfg.py grade_cfg).
TelecomPassIsEarned == KpiPassIsEarned /\ ConfigPassIsEarned
=============================================================================
