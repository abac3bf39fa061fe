# Verel in TLA+

Verel (`src/`) is an agent framework in Python: agents propose, graders return verdicts, and
nothing counts as done before a grader says so. Around that idea the repository has a scheduler
that several processes may run at once, a durable job queue, evidence logs that have to survive
crashes, a replicated memory with a trust layer, a pilot mode that decides which graders may
block, a CI with its healers and rollbacks, and actuators that change clouds, devices and
clusters. This directory models the parts whose correctness depends on the order of steps, on
what several processes do to one store, on what a crash leaves behind, and the reducers and
graders whose mistakes no later step would notice.

Contents: [the system](#the-system), [the modules](#the-modules), [correspondence](#correspondence-and-abstraction),
[the runs](#the-runs), [the properties](#the-properties), [fairness](#fairness), [the proofs](#the-proofs),
[disagreements](#disagreements), [observations](#observations), [what is not modelled](#what-is-not-modelled),
[the plan](#the-plan).

To check a run: `tlc -config <cfg> <module>` (the pairs are in PROJECT.json); to check the proofs:
`tlapm <module>`.

## The system

Paths are under `src/src/verel/`. "Hard" names the behaviour a test hardly reaches; "correct"
what makes the component right. The last column is the model.

| Component | State | Operations | Hard | Correct | Model |
|---|---|---|---|---|---|
| Lease stores `fleet/lease.py` | per key: owner, token, expiry, highest token, outcome | acquire, renew, release, complete, current_token, outcome | a paused caller; a clock read before the wait for the write lock | a token names one owner; no old owner overwrites a newer one's outcome | `LeaseStore`, `SqliteLeases`, `FencedRegister` |
| Scheduler `fleet/scheduler.py` | task states, leases, budget, WAL per process | run, _run_one, _commit | managers interleaving at every store call; expiry in mid-work; a crash before the WAL record | barriers hold; one runner per current lease; run() returns | `Scheduler` |
| Job queue `jobs/queue.py` | one SQLite table | enqueue, claim, heartbeat, complete, fail, purge | stalled workers, last attempts, quotas, dedupe keys | one worker may report on a job; bounded at-least-once delivery | `JobTable`, `JobQueue`, `AtLeastOnce` |
| Job workers `jobs/worker.py` | claim and heartbeat of each | run_once, the handlers | a crash between decision, notice and complete | what is announced was decided; every job ends | `JobWorker` |
| Evidence log `_chainlog.py` | log file, head ledger, segments, lock | append, archive_first, repair, verify | a crash or a failing call between any two file operations, and in the undo of another | acknowledged records stay; one repair suffices | `ChainLog`, `AtomicLog` |
| Replicated memory `memory/replicated.py` | a store per node, a lease, a sequence number | mutations, apply_replica_fenced, sync_from, quorum reads | failover in mid-write, a restart under one token, sync racing replication | what every node acknowledged stays readable; replicas converge | `ReplicatedMemory` |
| Memory trust layer and backends `memory/{view,local,promotion,review,ingest,...}.py`, `*_backend.py` | records: trust, confidence, ledger of rejected values, provenance | remember, review, promote, contradict, corroborate, replicate, decay | long legal sequences that raise trust; clients between the atomic sections of a backend | verified only on evidence; what was rejected stays rejected | `MemoryRecords`, `MemoryTrust` |
| Recall, extraction, injection `memory/{recall,extract,inject,recency}.py` | the correction chain and valid intervals of a record | as-of questions, budgeted recall, injection | histories through late, stated and rejected values | an answer was true at the time asked about; nothing rejected enters a prompt | `Recall` |
| Memory audit `memory/audit.py` | a hash-chained file, a cached head per process | logged mutation, verify | two writers, torn lines, crashes between call and entry | a file that verifies is complete, but for what is named below | `MemoryAudit` |
| Hosted memory, sharing `memory/{hosted,principal,share,lattice}.py` | one store, principals, reputations | raw, cluster and signed requests, enrolment, graduation | a request admitted before and served after an enrolment; read-then-write graduation | no claim stands under a principal that did not sign it; trust is not written raw | `SharedBrain` |
| Induced knowledge `memory/{consolidate,revise,librarian}.py` | rules, schemas over them, counterexamples | induce, climb, split, reject, supersede | a revision that stops half way up the levels | schemas follow the rules they were induced from | `Knowledge` |
| Pilot policy and service `pilot/*` | three logs per tenant | decisions, labels, promote, demote, health, archive, default | requests that read several logs and append at the end; retention; kill switch | a grader enforces only on evidence it earned; a block was authorised | `PilotPolicy`, `PilotRollout` |
| Hot folder `connectors/hotfolder.py` | files, facts, sidecars, first-seen times | scan_once | a crash between record, sidecar and the three renames; a file that changes while it is graded | no bad file is released by a mode that blocks; every file leaves | `HotFolder` |
| Verdict gate `verdict/gate.py` | none | gate, failing, progressed | - | the reducer of every verdict | `Gate` |
| Receipt store `verdict/store.py` | receipts, HEAD, a marker per process | begin, commit, check_pending, verify_chain | two commits read one HEAD; a crash between receipt and HEAD | a chain that verifies is rooted | `ReceiptStore` |
| Receipt signing `verdict/{attest,keys}.py` | keys | sign, verify | receipts that change hands; keys of another party under a known name | what verifies was signed by a trusted key about this run | `Attestation` |
| Agent loop `loop.py`, `senses/percept_log.py`, `memory/failure_ledger.py` | percept log, failure ledger | ultracode_loop, record, mark_fixed, regression_report | two loops on one ledger, a store that forgets, opinions | a regression report is of something that was fixed | `AgentLoop`, `FailureLedger` |
| Agent-run CI `ci/{pipeline,heal,medic,rollback,canary}.py` | stage results, commits | run_stage, self_heal, canary_rollback | merges landing while a canary is graded and reverted | a revert is earned by a precise, trusted failure | `AgentCI` |
| CI graders `ci/graders.py`, `ci/pipeline.py` | none | run a tool, parse, sign | tools missing, hanging, any exit code with any output | a green stage's required graders really ran | `Graders` |
| Mutation grader `ci/mutation.py` | the graded files, a clock | run_mutation | two nested timeouts around write and restore | no run leaves a mutant behind | `Graders` (mutation runs) |
| Spec, invariant graders `ci/{spec,invariants}.py` | none | extract, generate, run in a jail, vote | wrong, erring, unsafe checks | a pass is grounded in a check that ran | `Graders` |
| Infrastructure graders `ci/iac.py`, `ci/k8s.py` | none | plan, IAM, network, drift, RBAC rules | two programs over one vocabulary; a plan read twice | an unattended apply is tame; the two RBAC sensors agree | `IacGrader` |
| Gateway, terraform actuator `gateway.py`, `actuators/terraform.py` | a plan file and its digest | classify, permitted, plan, act | others plan into the file between its four reads | what is applied was decided on | `PlanActuator` |
| Fleet side effects `fleet/{fence_sink,saga,worktree,worker}.py` | branch, commits, worktrees | push hook, run_saga, worktree life | a takeover between hook and ref update; a failing compensation; an attempt that dies anywhere | one writer; all or nothing, or said so | `SideEffects` |
| Telecom actuator `ci/telecom_actuator.py` | a device's three configurations | plan, act under a confirmed commit | lost replies, the confirm timeout racing the confirmation | what is kept was verified and approved | `TelecomActuator` |
| Telecom graders `ci/telecom_{kpi,pmxml,cfg,ran,rf,nrm,model}.py` | none | threshold rules, thirteen network rules, waivers | boundaries, absent values, duplicated identities | a pass is earned by every cell and every rule that is on | `TelecomKpi`, `TelecomConfig` |
| Kubernetes operator `operator/*` | GateRun, Job, policy | create handler, job-event handler | one name made again, Jobs of others, late collection, deaths of the operator | a verdict is of a Job that ran | `Operator` |
| HTTP control plane, managers and planners, access verification, tool-smith and registry, identity, guards and senses, CLI, MCP server, agents, telecom fetch | - | - | - | - | not modelled, [below](#what-is-not-modelled) |

How the modelled parts interact:

* a scheduler, a push hook and the replicated memory take their tokens from the lease store
  (`LeaseStore` is extended by `SqliteLeases`, `Scheduler`, `ReplicatedMemory` and `SideEffects`);
* a worker records decisions in the tenant's evidence log and enqueues webhook jobs in the queue it
  claims from (`JobWorker` over `JobTable`); the pilot service appends to the same logs, which
  `ChainLog` shows to be atomic, as `PilotRollout` assumes;
* loops and CI jobs share the failure ledger (`AgentLoop`, `AgentCI` over `FailureLedger`); every
  verdict goes through `Gate`, which the graders, the loop, the CI, the pilot and `Attestation` extend;
* the terraform plan is read by the grader and by the actuator (`IacGrader` extends `PlanActuator`);
* the memory store's rules (`MemoryRecords`) are used by the trust layer, the recall and the server.

## The modules

| Module | Models | Main actions or operators |
|---|---|---|
| `LeaseStore` | what the SQLite lease store does to one key's record | `SqlAcquire`, `SqlRenew`, `SqlRelease`, `SqlComplete`, ... |
| `SqliteLeases` | that store under callers with stale clocks and old leases | one action per method |
| `FencedRegister` | abstract: a register whose epochs grow and whose writes are fenced | refined by `SqliteLeases` |
| `Scheduler` | several managers, one DAG, one lease store | one action per stretch between two awaits or store calls |
| `JobTable` | the rows of `jobs/queue.py` and each SQL statement | operators on tables |
| `JobQueue` | the queue under workers that never forget a claim | one action per method |
| `AtLeastOnce` | abstract: bounded at-least-once delivery of a job | refined by `JobQueue` |
| `JobWorker` | `run_once`, handlers, heartbeats, crashes, rival decisions | one action per call of queue, log, receiver |
| `ChainLog` | `_chainlog.py`, one file operation at a time | append, archive with its rollback, repair, crash, failing call |
| `AtomicLog` | abstract: batches, settled or withdrawn | refined by `ChainLog` |
| `ReplicatedMemory` | one record on the nodes of a cluster | `Lead`, `is_leader`, `Step`, `Pull`, `sync_from`, `Restart`, `Fence` |
| `MemoryRecords` | what a record is; the shared rules of `view.py` | operators on records |
| `MemoryTrust` | the trust layer through each backend's atomic sections | every call, cut as its backend cuts it |
| `Recall` | interval arithmetic and correction chain; one recall, a hit at a time; one injection | `remember`, `reject`, replicas, the clock, a round of `recall_budgeted`, `inject_memory` |
| `MemoryAudit` | logged mutations of several processes on one file | read, call, append, crash, torn line, edit, deletion |
| `SharedBrain` | the hosted server's gate and dispatch | arrival, service, enrolment, graduation in two steps |
| `Knowledge` | induction level by level and its revision | the librarian's pass, counterexamples, splits, the climb |
| `Gate` | the reducer and its two questions | operators |
| `PilotPolicy`, `PilotRollout` | the policy fold, evidence rates with the Wilson bound in exact integers; the service's requests | one action per log read or append of a request |
| `HotFolder` | the watcher, the sender and crashes | one action per file operation |
| `FailureLedger`, `AgentLoop`, `AgentCI` | the ledger; sessions of the loop; stages, healing, canaries | one action per ledger call, perception, fix, grade, commit, revert |
| `ReceiptStore` | receipts, HEAD and write-ahead markers | begin, the three durable steps of commit, crash, restart, removal |
| `Graders` | tools, parsers, receipts, stages | one run of a stage, tool by tool |
| `Graders` (mutation runs) | the run's clock against two timeouts | baseline, write, suite, restore, report, kill |
| `Graders` (specs) | criteria, checks, the vote | extract, generate, check, decide |
| `SideEffects` | three components: fenced pushes, sagas, worktrees | connect, hook, land; step, compensate; lock to removal |
| `PlanActuator`, `IacGrader` | gateway and terraform actuator; plan and RBAC graders | plan, four reads, apply, others planning |
| `TelecomActuator` | one change of one device | every session call, timeout, death |
| `TelecomKpi`, `TelecomConfig` | pure graders, one case per step | operators against a reference definition |
| `Attestation` | receipts signed, changed, verified | mint, wrap, change, verify |
| `Operator` | the GateRun handlers in a cluster | both handlers call by call; deletion, collection, deaths |
| `StoreProofs` (leases, chain log), `SchedulerProofs`, `JobQueueProofs`, `ReplicationProofs`, `MemoryProofs`, `PilotProofs`, `VerdictProofs`, `DeliveryProofs` | [proofs](#the-proofs) | theorems, their inductive invariants and lemmas |
| `MCStores`, `MCPilot`, `MCDelivery`, `MCBrain` | values for TLC, and the compositions described under [the runs](#the-runs); the values of a run of one module stand at that module's end | |

## Correspondence and abstraction

* **Leases.** `row` is the `leases` table. A call reads the clock before SQLite's write lock is
  granted, so an action uses some reading of the last `Lag` ticks. Owners may use any lease they
  were ever given.
* **Scheduler.** Inside a process the main loop and the coroutines interleave at awaits only;
  between processes every store call is a point of interleaving. A worker's attempt returns pass or
  fail; token and dollar counts are one flag, "the budget is exhausted", that may rise at any time.
* **Jobs.** Time is relative (seconds left of a lease, a delay, a retention), which the SQL
  comparisons cannot tell from absolute time. Payloads are a kind and what it is about.
* **Chain log.** The exclusive lock is held for a whole operation and freed by a crash, so one
  record `op` tells where the only holder is; readers see the states in which it is idle. Hashes
  and MACs do not collide and nobody edits the files. A file replaced by rename changes at once; an
  interrupted append leaves any prefix of its bytes: some whole lines, then nothing, a piece of a
  line, or a line that lacks only its newline. Steps of an undo may fail too.
* **Replicated memory.** One record; records of other ids are independent. A call that timed out at
  the leader may still be served later; the anti-entropy thread takes no lock, as in the code.
* **Memory.** A text is a surface form, its canonical value what canonicalisation makes of it; two
  texts share a value. A store merges texts that are equal up to case and outer blanks (`Fold`,
  `memory/local.py:202`), and keeps the old one. Confidence is counted in contradictions, support in confirmations. Each
  backend's calls are cut into the atomic sections the backend has: advisory-lock transactions
  (Postgres), WATCH/EXEC with retries (Redis), one lock (local), none (lance, mem0).
* **Recall.** Text relevance, freshness and cost are numbers; a secret is a flag. The correction chain
  keeps the beginning of a text as it was written (`Cut`, `memory/view.py:262`), the ledger the key of the
  whole, which is cut after canonicalisation (`:169`): the two keys may differ. The index
  returns a limited number of hits by relevance (`fetch`, the code's max(4k, 60)), `k` of which
  are found by rank. The clock moves to
  a horizon, and every as-of question about every instant is asked of every state. The sort of the
  hits is the order in which `recall_budgeted` takes them: one of the highest rank among those left.
* **Pilot.** Logs are atomic; a request is a record that says what it has read. Confidence bounds are
  compared in integers, squared, so no rounding is involved.
* **Hot folder.** A file's version stands for its size and mtime. The model's `late` flag marks
  content written after the watcher's last stat, the window the code cannot close, and its `killed`
  flag a verdict given under the kill switch, which a watcher is started with or without. What a scan
  learns of first-seen times is lost when the watcher dies in it.
* **Loops, CI, graders.** An artifact or a tree is the set of defects in it; a precise sense sees
  them, a model's opinion is any. What a tool prints is a set of labelled lines, with an exit code
  of its own choosing. What a language model writes is any mix of useless, unsafe, erring, true and
  wrong checks.
* **Infrastructure and telecom.** A resource's state is the set of markers the rules look for, a
  network the model the adapters project it onto, in full; the JSON, YAML and XML they are read from
  are not.
* **Induced knowledge.** A text is a version number, and a schema keeps the version of each member the
  model was shown. Of the members there are it is shown the first (`Shown`, the code's ten).
* **Attestation.** A signature is the record of key and payload. A fingerprint is what its text reads as
  when split at the separators: `verdict/attest.py:67-74` joins the fields unescaped, and the receipt of an
  advisory line, which no one verifies, may spell other lines. The lines of a report are a set;
  that in the code a line can only stand in for those sorted right after it is not modelled, so the
  model's attacker strips any. The digest of a report (`models.py:220`) is joined with the same
  separators but taken to be injective: it stands inside run receipts that are signed.
* **Operator.** One name in one namespace. The API server's calls are atomic; a handler's status goes
  out after it returned, by name, as the framework sends it.

## The runs

Every run takes less than five minutes with two workers. Components that share no state are put
into one run as scenarios: the first state picks a scenario, and only that component moves
(`MCStores`, `MCDelivery`, `MCBrain`, `MCPilot`; the same is done with configurations in `Scheduler`,
`ReplicatedMemory` and `MemoryTrust`). The state space is the sum of the parts, not the product.
What does interact is composed: loops and CI over one ledger, workers over the queue and the log.

| Run | Question | Bounds and why they are enough |
|---|---|---|
| `scheduler` | `OneCurrentRunner`, `BarrierHolds`, `Termination` | two managers on a chain of two tasks (one barrier between managers), a crash and restart, two tries, a budget that may run out; one manager on three tasks with `all`, `k_of_n` and `optional` barriers, one listed before what it needs; leases of one tick expire everywhere |
| `job_worker` | `ToldIsDecided`, `EveryJobEnds` | one artifact (rivals meet on it), a grade job and its webhooks, two workers, one crash, a rival decision over HTTP, archiving |
| `stores` | the queue: `OneFenced`, `QueuedHasAttempts`, and that it implements `AtLeastOnce` (`Delivers`); the log: `AnswersHold`, `Recoverable`, and that its files implement `AtomicLog` (`Atomic`) | queue: two jobs, two workers, two attempts, a quota and a row cap of one, so that each limit is met. Log: four records in batches of one and two, three segments (so that entries are folded with a limit of two), a limit of three live records, two crashes or failing calls. Larger instances (five records; three faults) were also run without error. Ids and segment names are symmetric; no liveness is checked there |
| `replicated_memory` | `AckedSurvives`, `Converges` | two nodes with reconcilers, three that must all acknowledge, two with a restart; two mutations; lost, late and repeated calls |
| `memory` | `VerifiedIsEarned`, `LedgerKept` | a sequential client with every operation (four calls, three texts of two values, three sources, two principals); six calls with a ledger of one, so that it overflows; two racing clients with three calls on each backend whose calls have several sections |
| `memory_pg_saturation` | violated: [disagreement 1](#disagreements) | six calls of one client |
| `pilot` | `EnforceIsEarned`, `BlockIsAuthorised`, `OnlyGoodPasses`, `EveryFileLeaves` | service: five scenarios (evidence during a promotion, racing promotions, the regression watch, blocking under changing modes, retention), one or two requests at a time, two or three files, three people. Folder: one file that is rewritten, touched and dropped twice, two files where a scan takes one, or a policy that changes between grading and release; a crash between any two steps and restarts in any other mode (two of them), or with the kill switch on or off |
| `pilot_forget` | violated: [disagreement 2](#disagreements) | one evaluation, one archive of the decisions |
| `delivery` | seventeen properties of eighteen scenarios, see below | per scenario: two loops and one ledger, one CI job with three commits, two committing processes and four receipts, every tool of a stage with every exit code, three source files, two criteria with two checks each, three lease owners and four tokens, three pushes by two managers, three steps in three repositories with a stranger's commit, three attempts at a task, three plans in one file, three configurations of a device, every modelled resource type with every change, every pair of RBAC verbs and resources, objects in no, 2, 20 and 21 Lists, two cells with every shape of a sample, eleven families of networks around the boundaries of each rule, idle cells under either bound, two minted receipts with two changes, two GateRuns and two Jobs with a death of the operator |
| `kpi_idle_cell` | violated: [disagreement 3](#disagreements) | two cells |
| `gaterun_fence` | violated: [disagreement 4](#disagreements) | two GateRuns |
| `shared_brain` | `AnswersAreHonest`, `VerifiedMeansComplete`, `NothingForged`, `SchemasFollow` | three writes, two rejections and a replica of one key whose peer has a past of its own, asked at every instant, with texts that are equal up to case and one whose beginning has another key; two or three hits fetched, fewer found; two processes, three entries and two mishaps (crash, torn line, edit, deletion); three requests of two principals and an enrolment; two rules under three schemas of two levels, of two members the model is shown one |

Runs with `CHECK_DEADLOCK FALSE` are those whose system stops: managers return, sessions, changes and
mutation runs end, and bounds on calls, writes or mishaps are used up.

Every property of a passing run has a mutant of a modelled definition (PROJECT.json, `mutants`),
a slip of the kind a change could bring in, that violates it. The mutated forms stand in the modules
next to what they mutate, marked `Bug:`.

## The properties

What the less obvious ones say, beyond the comment above each.

* `OneFenced`: workers keep every claim they ever had; of all claims ever given on a job at most one
  passes the fence, and one does while the job runs.
* `Recoverable`: whenever the lock is free the log passes the full verification of readers and the
  O(1) check of appends, or one run of repair makes it so. Two situations are excepted because they
  do not hold ([observations](#observations)): a log of one blank line, and a record nobody announces.
* `AckedSurvives` is about a quorum of all nodes without reconcilers; with less the documentation's
  promise does not hold, and the exceptions in the property say where.
* `VerifiedIsEarned`: a history variable keeps who vouched for which value and which values were
  rejected; the record's own fields are not believed. `LedgerKept` is the same concern as an action
  property and holds for racing clients too.
* `AnswersAreHonest` joins two statements. An answer about the past never reads like a value that was
  rejected on the key; where nobody stated times it is what the key said then, by the model's own account,
  or its beginning, and that was not rejected, unless the beginning has another key than the whole
  (`NoRejectedPast` is the statement without that exception). And a prompt passes a verified
  memory over only for a more relevant or cheaper one (if the index did not return it, for one at least as
  relevant: `EqualsAreRanked` is the statement without this), and leaves the caller's messages whole and
  in order.
* `VerifiedMeansComplete`: every mutation that was answered is in a log that verifies, once and whole.
  What verification cannot see is listed under [observations](#observations).
* `NothingForged` sets aside keys touched by the open mode and by cluster calls, which carry no
  identity by design. What was signed is a text up to case and outer blanks, as a store merges them.
* `SchemasFollow`: at the end of a revision every schema above the changed rule rests on the text its
  members have now, or is doubted or rejected, as far as they are among the members the model is shown.
* `EnforceIsEarned` counts the evidence anew, from the decisions and labels themselves, with
  different files, other people's labels and the Wilson bound. It does not hold where decisions are
  archived during an evaluation ([disagreement 2](#disagreements)); its run has no such scenario, its
  theorem the hypothesis.
* `OnlyGoodPasses` excepts one window, a write between the watcher's last stat and the rename; in
  policy mode a policy that changed between grading and release; and what was decided under the kill
  switch, which lets everything pass, also where a later watcher without it finishes the move.
* `EveryFileLeaves` lets a file rest beside a verdict on exactly this version that was given in shadow
  mode or in another mode than the watcher now has: the code goes on to the next file. So it says of a
  watcher that keeps to one mode other than shadow that every file leaves.
* `RegressionIsReal`: a session that ends on a regression does so over something that some session
  saw and then passed without. `RevertIsEarned`: of a canary's revert, that a precise grader found it.
* `GreenStageRan`: a stage that is not red ran every required tool to its end, and each exited with
  zero or said why not. `PassIsGrounded`: the same of generated checks.
* `OneWriter`: at a fenced remote no older token lands after a newer one; in a worktree the files are
  those of the attempt that works on them. `AllOrNothing`: a saga's repositories at its end.
* `SensorsAgree` speaks of objects in twenty Lists or fewer, the depth the native sensor follows them,
  and not of the names of other clouds; its run has both, and deeper ones.
* `UnattendedIsTame`: an apply that nobody approved destroys nothing, runs no program the plan does
  not show and leaves nothing behind that the rules call a risk. It joins the grader (`IacGrader`) and
  the actuator's escalation (`PlanActuator`), two readings of one plan.
* `VerifiedIsSigned`: what verifies has a verdict and a subject that a trusted installation signed, and no line
  or run it did not sign. All signed lines are there only if no text in the receipt holds a separator.
* `TelecomPassIsEarned` compares both graders' verdicts with what the rules mean, all thirteen of the
  network's, stated over the artifact as written and not over the projection the code computes. A
  pass of the KPI grader has read a cell's ratio and none it read is out of bounds; a cell that had no
  attempts is read as zero by the code, and so is within a maximum (`PassMeasured` says otherwise).
* `VerdictWasRun`: no verdict on a GateRun without a Job of the operator's that ended so; for a name
  used for the first time, a Job of this GateRun.

Further statements stand in the modules and in no run's cfg, to keep the runs to one question each.
To check one, put it in the place of the properties of its module's run (temporal formulas, of the
form [][..]_vars, as a PROPERTY). On the instances above these hold: every `TypeOK` (`FolderTypeOK`);
`Scheduler!NoRedo`; `JobQueue!QuotaHolds`, `KeysAreUnique`; `JobWorker!DoneIsEarned`;
`ReplicatedMemory!VersionTellsContent`, `LedgerGrows`; `PilotRollout!TakesThree`, `SteppedUp`,
`LabelsStand`; `HotFolder!NothingLost`, `MovedIsRecorded`, `ShadowMovesNothing`; `AgentCI!PassIsClean`;
`AgentLoop!ThrashingStops`; `ChainLog!DecidedOnce`; `ReceiptStore!VerifyTells`. All but some
types and the last are proved, see below. (`VerifyTells` compares sorted sequences, which needs
induction.) And these do not, each saying what a line of the repository says, named with the observation it goes with: `Scheduler!RunsOnce`, `JobWorker!OwnRetryAccepted`,
`ChainLog!RepairedTakesAppends` and `FinishedArchiveIsReadable`, `ReplicatedMemory!AckedIsDurable`,
`PilotRollout!AutodemoteGoesDown`, `HotFolder!NoShadowRelease` and `DecidedAgain`, `AgentLoop!OpinionNeverGates`,
`AgentCI!RevertsTheGraded`, `IacGrader!LastingDriftGates` and `NoWrappingEvades`, `TelecomKpi!PassMeasured`,
`Attestation!NoLineIsStripped`, `Recall!NoRejectedPast` and `EqualsAreRanked`, `Knowledge!RevisedOnesIncluded`.

## Fairness

* `scheduler`: weak fairness of each manager's loop and coroutines (the event loop runs whatever is
  ready) and of time. Nothing is assumed about who gets a lease, and a crash is never forced.
* `job_worker`: weak fairness of each worker's next step (`run_forever` polls for ever and a
  supervisor restarts a dead worker) and of time. Heartbeats, crashes, failures of handlers, rival
  requests and archiving are never forced. Attempts are bounded, and any claim takes back the jobs
  whose lease ended: that is the argument for `EveryJobEnds`.
* `replicated_memory`: weak fairness of a started call (it answers or times out), of the reconciler's
  loop and of time; strong fairness of the reconciler's copy, which a mutation's lease disables now
  and then; and some client goes on asking for the leader, since without that the lease runs out and
  no follower knows whom to copy.
* `pilot`: weak fairness of the watcher's next step (`run` calls scan_once for ever and a supervisor
  restarts it) and of a file's settling. The sender, the policy and crashes are never forced.

No other run checks liveness. Loops, healing and sagas end by their counters, which shows as the
absence of further steps.

## The proofs

TLAPS checks 53 theorems for every value of the constants. Each says `Spec => []P` (or
`Init /\ [][Next]_vars => []P`, a component's own) of its property; the inductive
invariant it goes by stands before it in the proof module. TLC evaluates the modules' ASSUMEs in every
run; they say that limits are numbers, that names of different kinds differ, and that the scenarios a
`.cfg` picks have the fields the actions read. A hypothesis a theorem needs beyond those is named here.

**`StoreProofs`**, the lease store. `TokensAreUnique` (`UniqueTokens`), `StaleWritesAreFenced`,
`ImplementsFencedRegister` (`Fenced`). `IInv`: no lease is newer than the row's highest token; a row
without an owner never issued one; the newest token was issued to the owner the row names; a token
names one owner. Uniqueness alone is not inductive: a grant reuses the row's token when the owner asks
again, so the row's token has to be tied to its owner.

The chain log: `AnswersAlwaysHold` (`AnswersHold`), `AlwaysRecoverable` (`Recoverable`), `LogIsAtomic`
(`Atomic`), for any batches, archives, segment names, limits, crashes and failing calls. `LogInv` says that
there is one sequence `G` of lines, archived ones first, which every file is about (`LogStory`): the log
file holds a suffix of it behind its anchor (`Holding`); the ledger says how many lines are committed,
that at most the first lines of the announced batch stand behind them, numbered on, or one line that
nobody announces, and how many are archived (`Accounts`); segment files are slices of settled lines
and together hold the archived ones (`Files`); between two operations the archive is whole, or its segment,
index and ledger are written and only the log file is behind (`Hanging`); and the holder's own
variables are what its next step relies on (`Writing`, `Archiving`, `Phase`). `G` is no variable, so a step is
proved by giving the lines `H` of the next state (`Onward`): `G` itself, `G` with the lines just written, or
a prefix of it. The lines a reader sees (`End`) and those nobody withdraws (`Firm`) then move in one of
four ways (`Moves`), which are `AtomicLog`'s steps: this is the refinement. For `Recoverable`, each way in
which a file may be behind leads to one of the property's cases. The proof needs that no segment file
has the empty name, which the ledger gives to entries it folded. On the instance of `stores` the
invariant was checked by TLC with `G` computed from the files, as `PastRecords \o live.recs` (`LogIs`).

`IdsAreDecidedOnce` (`DecidedOnce`) adds to it what an append relies on when it looks for an id in the
live lines and in the index only (`IdStory`): no two lines in any file, nor among those announced, carry
one id, even where a line was withdrawn or its segment is not yet in the ledger; and the newest ledger
entry, folded or not, lists the ids of all archived lines, in order, also in the ledger that a failed archive
puts back. Every step either makes no line (`Plain`) or is one of four treated on their own. TLC
checked `IdStory` on `stores` before the proof.

**`SchedulerProofs`**, for any DAGs, managers, retries, budgets, lease lengths and crashes.

* `OneRunner` (`OneCurrentRunner`): the row's token is its highest, no coroutine's is newer, and whoever
  holds the newest is the row's owner (`OwnInv`).
* `BarriersHold` (`BarrierHolds`): whatever says "passed" (a WAL, the store's outcome, a loop's state, a
  coroutine's verdict) says it of a task some worker passed; whatever schedulable() returned had its
  barrier earned then, and passes are never taken back (`PassInv`). Counts for `k_of_n` need that a
  subset of a finite set has no more elements.
* `ResumesWithoutRedoing` (`NoRedo`): a coroutine's task is "running" in its loop; a task in the WAL is
  not to be tried, and its coroutine, while there is one, has passed (`ResumeInv`).

**`JobQueueProofs`.** Every operation does one of a few things to each row (create, lend, return, end,
delete, leave alone: lemma `NextStep`), and invariants are proved per such step. `IInv`: attempts
within their bounds by state, no claim ahead of its row's attempt, claims of one attempt equal, a
running row's claim given to the worker it names. From it `AttemptsLeft` (`QueuedHasAttempts`),
`FenceIsExclusive` (`OneFenced`), `EndsStay`, `DeliversAtLeastOnce` (`Delivers`). Where rows come from
(`NoneNew`, `OneNew`: an operation makes one row at most, and looked for its key, and for a
request at the quota and the cap, in the transaction that inserts it) gives `KeysStayUnique`
(`KeysAreUnique`) and `QuotaIsKept` (`QuotaHolds`). A row that is re-queued was pending before, so
the quota needs no look at what the workers do.

The workers over the same table: `NewsIsTrue` (`ToldIsDecided`) and `DoneMeansDone` (`DoneIsEarned`).
`WorkerInv`: a worker's copy of its job is the job as long as the row is stored, although the row may
be reaped, lent to another or deleted under it (`FollowsLemma`: ids are not reused, rows keep their
bodies); what it believes of the log at the point it has reached is on record, and decisions are never
replaced (`GrowsLemma`); a stored row of a webhook job is about something on record, its key was
announced, and a row that says "done" is. Of the fence the proof needs only that the row is running:
every attempt that gets as far as complete() has done the job.

**`ReplicationProofs`**, for clusters of any size, any lease length, stride, timing and failovers.

* `AckedStays` (`AckedSurvives`), for a quorum of all nodes without reconcilers and as long as no leader
  restarts and renews its own lease: the hypotheses of the property, without which it is false. That every
  node acknowledged says only that each applied the record *once*; what has to be shown is that no
  older copy or call can come after. `RepInv` (`Body`): tokens belong to one leader, and under a token
  nothing is stamped beyond its leader's `_seq` (`Stamps`); a change not stamped yet counts as the version it
  will get (`Standing`); an acknowledged mutation is `Settled`, in every copy and call at or above some
  version that all nodes stand at. `Acks` alone is not inductive. A leader in the middle of its calls
  (`Sends`) either is `Doomed`, since a call failed or a successor's token fences one that is still
  out, or has no more answers than there are nodes at its version; so with all answers all
  nodes are, and the version cannot be passed by a copy without the mutation (`Covers`).
* `VersionTells` (`VersionTellsContent`), for every quorum, with reconcilers and restarts: wherever a
  record is (`Held`: stored, sent, pulled, about to be sent), its version tells its text and history,
  if its token's leader did not restart. `StateInv`: the next stamp of a leader is above everything
  known under its token (`Fresh`), so it is new, and every other step copies or forgets records.
* `LedgersOnlyGrow` (`LedgerGrows`): `guard_replica` and the leader's own change keep the ledger, and a
  stamp, a pull or a restart does not touch it.
* `ReplicaTypes` (`TypeOK`), of which the bound on versions needs `StateInv`.

**`MemoryProofs`**, a section per component.

* `VerifiedNeedsEvidence` (`VerifiedIsEarned`), about a client on its own and any backend but postgres.
  A call is a program of several sections, so the argument is about what the client still knows
  (`TrustInv`): the record it last saw is the record, or decay deleted it; what it saw before a
  promotion is earned, and before a verification not blocked; the rejected values are in the ledger
  unless the key is saturated, whatever `_cap_ledger` dropped; and the principals a record names did
  say its value. That a full ledger marks the key *before* it forgets is the step that carries the
  theorem, and the one postgres lacks (disagreement 1).
* `RejectionsStay` (`LedgerKept`), for any number of clients. Racing clients may hold stale records, but
  every section but two writes a ledger it read in that same section. The exceptions are in the
  property: postgres's contradict, and the promotion gate's second write.
* `NothingIsForged` (`NothingForged`): a belief names a principal only if that principal signed this
  claim (up to `Fold`, whose equals share a canonical value), or it was touched by the open mode or a peer;
  what is verified was attested; and the
  reputation of a principal counts at most what it has sent, those still in the server's inbox
  included (`BrainInv`). The last part makes graduation sound although it reads and writes apart.
* `VerifiedIsComplete` (`VerifiedMeansComplete`): entries have numbers of their own; those of calls in
  flight are in no line; and *if* the lines verify, every answered entry is among them (`AuditInv`).
  The implication has to be kept through edits, tears and deletions that break verification and
  through appends that never mend it.
* `AnswersStayHonest` (`AnswersAreHonest`), in two halves. `PastStaysHonest`: intervals of the chain
  cover what was said while they were current, unless dates were stated; the values rejected are in
  the ledger or the key is saturated (`PastInv`), so no answer has a key that was rejected, and a text's
  beginning is as good as the text where both have one key. `VerifiedStaysFirst`: what the index left out is
  at most as relevant as anything it returned, nothing found ranks below what was not, nothing considered ranks below
  what is left, and what was passed over did not fit in what is used by now (`InRankOrder`), so what was
  chosen before it ranks as high and what was chosen after it is cheaper; a candidate of full strength
  and confidence reaches a verified rank only by relevance (`OnlyRelevanceOutranks`). Wherever the block
  goes, the messages sent are the chat cut open in one place at most (`InjectionKeepsChat`).
* `SchemasAreFollowed` (`SchemasFollow`), for any rules, schemas and replies. A climb changes no schema's
  members and no order (`ShapeLemma`), so who stands above whom and which members are shown are fixed
  while it lasts, and a schema above a re-derived subject that is shown to it is up to date, doubted or rejected, or waits in some frame of the recursion
  (`KnowledgeInv`). In a layered store a frame is never deeper than the orders it deals with, so
  the depth limit cuts none off. Hypotheses (`KnowledgeAssumption`): finitely many subjects, and
  `MaxOrder <= MaxDepth + 2`; the code has 4 and 8.

**`PilotProofs`.**

* `BlocksAreAuthorised` (`BlockIsAuthorised`): a decision that failed a release was taken in a mode only
  an admin may ask for, or in policy mode with a promotion to enforce of a grader it has an outcome
  of; and so is what any request in flight is about to append (`BlockInv`). `GradersAreNamed` (no
  grader is called `*`) keeps the default entry from passing for a grader's.
* `EnforcementIsEarned` (`EnforceIsEarned`) under `NoForgetting`: decisions are not archived while a
  promotion is evaluated. Without it the statement is false, and `pilot_forget` shows how. The
  invariant says that a request which is ready to promote rests on a set of decisions that prove the
  grader (`EarnedBy`); the logs only grow, and a proof stays one when a log grows (`EvidenceStays`),
  although labels are amended. That needs the Wilson bound, in integers, to be monotonic in the hits
  (`WilsonGrows`), and least-counterexample arguments over the folds that pick the last label.
* `OnlyGoodIsReleased` (`OnlyGoodPasses`) if `RequireBinding = TRUE`, the folder's strict setting: a
  sidecar's verdict is about the version it names, and a version number never gets another content, so
  what the watcher moves is what was graded, unless the verdict was the kill switch's (`FolderInv`: `WatcherFits` ties every step of a scan to the
  file it has in hand, `SidecarFits` every sidecar to the file beside it).
* `PromotionTakesThree` (`TakesThree`), `EnforcingWasWatched` (`SteppedUp`) and `FirstLabelStands`
  (`LabelsStand`) need no `NoForgetting` (`SayInv`): the first two speak of all that was ever logged, which only
  grows, and an archive only takes away from what a request counts; a label refuses another for its
  artifact also when it is archived. `ReviewersLabel`: `MIN_REVIEWER_LABELS` is positive, it is 5 in the
  code; a reviewer who counts has labeled something.
* `NothingIsLost` (`NothingLost`), `MovesAreRecorded` (`MovedIsRecorded`), `ShadowStaysOut`
  (`ShadowMovesNothing`), with or without bound facts. `MoveInv`: the watcher recorded its decision
  before it had a verdict, a sidecar was written of a decision, and the base name it chose stays
  free until it uses it, as nobody else writes the destinations. A name is always found: the numbers tried
  are more than the files there (`SomeNameIsFree`).

**`VerdictProofs`.**

* `ReceiptsAreRooted` (`ChainIsRooted`): HEAD, every receipt and every commit in flight name an older
  receipt that is there; the file is written before HEAD names it.
* `RegressionsAreReal` (`RegressionIsReal`): what the shared ledger calls fixed, some session saw and then
  passed without, also when other loops write in between and when the store forgets. `LoopAssumption`.
* `RevertsAreEarned` (`RevertIsEarned`), for stages whose graders are each precise or advisory, and a
  ledger in which no advisory finding was ever marked fixed (`HardOnly`, asked of the initial states
  only: the CI's own steps keep it). The second hypothesis is the observation under Loop below:
  without it the regression guard turns an opinion into evidence.
  `CIAssumption`: the stage is not empty, and graders' findings are fingerprints.
* `PassesAreClean` (`PassIsClean`): while nothing moved within a grader's run, a report of a job is the
  findings of its tree at the receipt's commit (`PassInv`); a pass of the gate saw each required one,
  clean, and if it binds its files with a receipt of the tree that is pinned at the gate. The attempt to prove it
  found that the model had let a revert, unlike a merge, slip between another canary's run and
  seal unmarked; both mark it now (`Overtaken`).
* `ThrashingIsStopped` (`ThrashingStops`): `flat` counts percepts that did not shrink, and the log is a
  window of the last W, so they are its last ones (`FlatInv`); when there are W - 1 of them,
  whatever sessions that crashed left before, `stuck` sees nothing else. `LoopAssumption`: W is at
  least 2; it is 4 in the code.
* `GreenMeansRan` (`GreenStageRan`): every required kind has a tool that ran and whose report is not an
  error, and the reports are those of the runs.
* `PassesAreGrounded` (`PassIsGrounded`): ballots of criteria already voted on are of checks that ran
  confined. Finite ballots come from `SpecAssumption`.
* `VerifiedIsWhatWasSigned` (`VerifiedIsSigned`): a signature that travels was made by an installation's
  key over the fields it covers, whatever was changed around it; lines are read from the text that was
  signed, and made ones spell none but their own, so those that verify are among the signed, and all of them
  where no text holds a separator. `AttestationAssumption`.

**`DeliveryProofs`.**

* `RestoredInTime` (`NeverLeftMutated`): while a mutant is on disk the suite's timeout lies within the
  budget, and the budget before the runner's. Assumption: `Budget < Outer`, the code's 240 and 300 s.
* `OneWriterAlways` (`OneWriter`), from two invariants. Fence: every token on the branch is at most that
  of any push that may still land from the present tip, because the compare-and-swap of a ref update
  pins what the hook saw; the check of the token alone would not do. Worktree: an attempt is alive only
  while it holds the lock, and the files are the holder's.
* `SagasAreAtomic` (`AllOrNothing`) under `OneStepEach`: no two steps share a name or a repository.
  Both occur in the code and both break it ([observations](#observations), Actuators). Going forward the
  first `i - 1` steps are committed and the others untouched; unwinding, the steps after the last one
  done are reverted, or reported as not reverted.
* `AppliesWhatWasDecided` (`AppliedAsDecided`): plans are numbered, a file is one plan, and an order
  that reached its apply is bound to a plan whose class was the one decided on.
* `KeepsWhatWasVerified` (`KeptIsVerified`): while a commit is pending the device runs the candidate,
  and after it reverted what it had; so the verification saw one of the two, and the confirming
  commit keeps the candidate. The disjunction is why the property has its exception.
* `VerdictsWereRun` (`VerdictWasRun`): a uid that any status carries, or any handler is about to
  write, is of a Job the operator made; names are given out in order; an event handler past its
  check holds the result of such a Job.
* `SensorsAreAtParity` (`SensorsAgree`) where no subject has a name that the terraform sensor alone
  takes for public (`ForeignNames`) and no more than twenty Lists are around the object. Both are pure
  functions; the proof compares them rule by rule and end by end of a binding, and shows that
  unwrapping so many Lists changes nothing.
* `UnattendedAppliesAreTame` (`UnattendedIsTame`): what the class leaves unapproved destroys nothing and
  runs nothing, by cases of the change; what the grader passes leaves none of the rules' markers, after
  drift and apply.

Model-checked only:

* liveness (`Termination`, `EveryJobEnds`, `Converges`, `EveryFileLeaves`) and ENABLED, which the prover
  does not do. The theorems about safety do not assume fairness;
* `TelecomPassIsEarned`, a comparison of two computations that fold and sort.

Induction is used in one form: a set of numbers that is not empty has a least element
(`WFMin`, `NatLessThanWellFounded`), so a recursive function or a bounded search is reasoned about by
its least counterexample. Theorems of the library that take an operator as a parameter, and RECURSIVE
operators, are not usable; no module under a theorem contains one.

## Disagreements

Each has a run that ends in a violation of what the repository says.

1. `memory_pg_saturation` (`NoLaunderOnPg`): the contract test says a key whose ledger is saturated
   cannot be promoted (`tests/memory_contract.py:193`). The Postgres backend never writes the flag
   (`memory/pg_backend.py:461`), so a rejected value that fell off the front of the ledger can be
   restated, approved and verified.
2. `pilot_forget` (`ScoredByOthers`): "a person who recorded a decision cannot also be the one whose
   label scores it" (`pilot/service.py:228`). An evaluation reads the decisions (`:209`) and looks the
   labels' authors up among those of a later read (`:237`), where a decision archived in between has no
   recorder any more: the recorder's own label counts, and a promotion to enforce may rest on it.
3. `kpi_idle_cell` (`UnmeasuredNeverGates`): `ci/telecom_pmxml.py:9` says that a zero denominator
   becomes a warning that does not gate. The clamp compares the sum of all cells' attempts
   (`ci/telecom_kpi.py:236`, `:269`), so an idle cell fails the file when the others are busy.
4. `gaterun_fence` (`RunsFenced`): "NetworkPolicy FIRST, so the untrusted pod is fenced before it can
   run" (`operator/handlers.py:77`). A policy of the name is taken for the GateRun's own although it
   belongs to a deleted one, which the cluster collects while the new Job runs.

## Observations

Read off the code while modelling, or seen in runs of these models with another property; without a
run of their own. Those with a documentation line disagree with it.

Scheduling, jobs, logs.

* `fleet/lease.py:113-114`: the SQLite store claims the in-memory store's semantics, but accepts a
  complete after a release, and a second complete.
* `docs/usage.md:778`, `fleet/scheduler.py:257-259`: of two schedulers each task is said to run
  exactly once; a lease that expires during one worker call puts two workers on it (`RunsOnce`).
* `fleet/scheduler.py:232`: a fenced manager whose successor is still at work reports the task
  skipped; `:197-201`: outcome() and acquire() are two calls, and a peer may finish in between.
* `jobs/queue.py:225`: a job buried by claim keeps its payload, against the comment at line 302.
  `jobs/worker.py:149-158`: the webhook's dedupe key contains the attempt, so a retried job may tell
  its receiver twice. A retry of the job that made a decision is refused when the decision was
  archived in between (`docs/connectors.md:85-86`, `OwnRetryAccepted`).
* `_chainlog.py:626`, `:597-599`: repair of a new log whose first batch was interrupted leaves one
  empty line, which every append refuses (`RepairedTakesAppends`). `:952`, `:469-470`: archive_first with a torn tail clears
  the pending marker; a crash before the live log is replaced then makes a log nothing recovers (`FinishedArchiveIsReadable`).
  `:762`: the limit is compared with a total that counts archived records, so "archive old records
  first" does not help.

Memory.

* `memory/replicated.py:9-10`: an acknowledged write may be lost with any quorum but all, or with
  reconcilers (`AckedIsDurable`); `:40-42`: versions are reused after a leader restarts; the reconciler applies outside
  the server's lock.
* `memory/redis_backend.py:384`, `lance_backend.py:346`: promote races with contradict.
  `pg_backend.py:454-460`: annotate may overwrite a ledger that was extended meanwhile. The gate's
  second write after promote carries the ledger it read. review and remember promote by id, whatever
  text is there by then. Expiry deletes rejected records with their ledger.
* Recall: a superseded value's stated end is overwritten by the time of supersession; restating does
  not reopen an interval; chain entries at time 0 are skipped. The chain cuts the raw text
  (`memory/view.py:262`) while the rejection key cuts the canonical one (`:169`), so the beginning of a rejected long
  text with characters that collapse is answered, against `memory/recall.py:97` (`NoRejectedPast`). The index orders by
  relevance alone (`memory/local.py:268`), so beyond its limit a verified fact is passed over for a candidate that is
  as relevant, against `:252` (`EqualsAreRanked`). `remember.py:110-124`: the tainted branch writes and
  contradicts before the reserved-key checks.
* Audit: a deleted tail, and a deletion after a fork, go unseen; two processes fork the chain, which
  then never verifies again; entries may be ordered unlike the mutations, with a stale `before`; a
  crash leaves a mutation unlogged.
* Sharing: a request admitted before an enrolment is served in the open mode after it; graduation may
  supersede a principal's verified parent or re-attribute it; a promotion refused as blocked is
  reported as done and credited; a signed write delivered twice counts twice; an attestation names no
  scope.
* Induced knowledge: a rejected rule and one superseded by consolidation leave their schemas stale;
  an exception may get the rule's own subject and replace it; a schema may come to subsume itself, and
  only the depth limit ends the climb; with the defaults a second counterexample rejects instead of
  splitting; one counterexample may be counted twice. A revised rule beyond a schema's first ten members is
  not shown to the model (`memory/revise.py:133`), and the schema counts as re-derived with "the revised ones
  included" (`:117`, `RevisedOnesIncluded`).

Pilot and folder.

* `pilot/policy.py:283-285`: autodemote undoes a concurrent demotion (`AutodemoteGoesDown`); demote() may raise shadow to
  advisory; concurrent promotions skip levels. Only live records count as evidence after archiving.
* Hot folder: a pass given in shadow is released after a promotion to enforce
  (`docs/connectors.md:43`, `NoShadowRelease`); a file whose sidecar was written in another mode, by a
  watcher that died before the move, is neither decided again nor moved (`hotfolder.py:222-227`, against
  `docs/connectors.md:42`, `DecidedAgain`), and a pass signed under the kill switch is carried out after
  it was taken away; a recorded version whose decision was archived before the move is
  skipped for ever; a crash between the renames orphans facts or sidecar; nothing guards against two
  watchers.

Loop, CI, receipts.

* `memory/failure_ledger.py:110`: an advisory failure comes back as a precise one (against
  `constants.py:10`, `OpinionNeverGates`), which also authorises a rollback; after one reintroduction the regression
  guard is off until a session passes again. rollback ignores confidence. The canary and the sagas
  revert HEAD of the time of execution, not what was graded (`RevertsTheGraded`).
* A store's crash between the receipt's rename and HEAD makes verify_chain false for ever; so do two
  processes; a restart under another PID never surfaces the marker; the newest receipt's deletion is
  unseen. A torn last line of the percept log makes later sessions raise.
* `verdict/attest.py:65-74`: no stripped line is said to survive recomputation, but the fields are joined
  unescaped, and an advisory line's receipt may spell the line that was taken out (`NoLineIsStripped`).
* A file changed between a grader's run and its seal is sealed with its new bytes. A crashed lint tool
  passes precommit, where lint is not required; exit code 0 with unreadable output reads as no
  findings; a plan file that is no JSON passes grade_iac. A mutation run restores the file it read,
  losing a concurrent edit; a kill by anything but the outer timeout leaves the mutant.
* `ci/spec.py:10-12`: with two checks, one wrong failure gates when the other errs or was never made.
* `ci/k8s.py:161`: what lies in more than twenty Lists is dropped in silence, against `ci/k8s.py:158`
  (`NoWrappingEvades`); subjects called `*`, `allusers` or `allauthenticatedusers` are public to the
  terraform sensor only.
* `ci/iac.py:885-892`: a drift together with "forget" is graded as if the apply reverted it
  (`LastingDriftGates`). The terraform RBAC sensor also takes subjects named `*` or `allusers` for
  public; the native one does not.

Actuators.

* Worktrees: releasing one deletes the branch with the commit a passed worker returned; a lock left by
  a crash blocks for ever. Compensations are keyed by step name; a saga with two steps in one
  repository reinstates the first. decide_fanout accepts two subtasks on one artifact, and
  plan_multi_repo overwrites barriers.
* Terraform: the file may change between the digest's check and the apply, and the receipt reads it
  once more. `PlanActuator` shows what is guaranteed for the file that was checked.
* Telecom actuator: a confirmation that took effect but raised is reported rolled back; a stale
  `current` artifact lets an object the device has be removed without approval; after the timeout the
  confirming commit is a plain commit; only the candidate is locked.
* Telecom graders: a file of idle cells passes a maximum in silence, against `ci/telecom_pmxml.py:8-10`
  (`PassMeasured`); a baseline regression is not clamped by the sample floor
  (`docs/use-cases-telecom.md:87-88`); an out-of-range zone is reported as "no derivable format"; of a
  PLMN listed twice the last slices stay; no adapter sets a cell's band or EIRP; an NRM artifact with
  an SMF and an AMF fails the slice rule although `telecom_nrm.py` promises no false failure; pools
  are compared as strings; of two cells with one identity only the last gets its relations.
* Operator: after a crash between the Job's creation and the status patch the retry refuses the
  operator's own Job (`handlers.py:92-102`); a verdict may land on a GateRun made again under the name;
  adoption overwrites a mirrored phase; an invalid spec is retried for ever; `docs/kubernetes.md:98`
  promises a receipt in the status, which is not written. `_ensure_netpol` of the other resources has
  the hazard of disagreement 4.

## What is not modelled

* Power loss that reorders a rename against a write: `_write_atomic` syncs the file and not the
  directory. The models let a crash stop a program anywhere but keep completed steps.
* Editing of the chain log's files by others, MACs and keys; its in-process caches, whose validity
  rests on inode, size and times; plain `append`, which is append_if_absent without the duplicate
  check; logs without an id field.
* The in-memory lease store, but for its differences above.
* Reading of XML, YAML, JSON, CSV, Terraform's nested policy documents, CIDR arithmetic and globs:
  their results are the markers and values the graders decide on. Vectors, freshness, token
  estimates, secret heuristics: numbers and flags, on which the ranking formula works.
* The Brain, GatewayService and VerelFleet handlers of the operator (one apply each), the contents of
  manifests; `destroy()` and `watch()` of the actuators (one call each); the client's retries of the
  hosted memory.
* Components without state that two actors or a crash could bring out of step, or whose work is I/O:
  the HTTP control plane (a lock around the store that is modelled), fleet managers and planners,
  access verification and cloud credentials, tool-smith and skill registry (process isolation and
  signatures), identity and secrets (digests, a fixed table), guards, senses, media rules and
  integrations, the smell heuristic, the telecom fetch, the command line, the MCP server and the
  agents themselves.

## The plan

Done: leases, scheduler, queue and workers, chain log, replicated memory, trust layer, recall, audit,
sharing, induced knowledge, pilot, hot folder, loop and CI, graders, actuators, attestation,
operator.

To come, in this order:

1. The in-process caches of the chain log, with a file system whose times are coarse.
2. The other handlers of the operator, and two watchers on one hot folder.
3. A fairness property of the queue's claim, with a tenant whose supply of jobs never ends.
