------------------------------ MODULE Scheduler ------------------------------
(***************************************************************************)
(* fleet/scheduler.py: several schedulers ("managers", one process each)   *)
(* running one task DAG over a shared SqliteLeaseStore, each with its own  *)
(* write-ahead log.  Inside one process the main loop and the _run_one     *)
(* coroutines interleave only at an await; between processes every call of *)
(* the store is a point where another manager may run.                     *)
(*                                                                         *)
(* Lease expiry is kept relative to the present (expires_at is the time    *)
(* that is left), which the store's only comparison, now < expires_at,     *)
(* cannot tell from absolute time; so no bound on the clock is needed.     *)
(***************************************************************************)
EXTENDS LeaseStore, FiniteSets, FiniteSetsExt

CONSTANTS Manager,
          MaxTasks,
          Dags,           \* the DAGs, each with the managers that run it
          Concurrency,
          Budgeted,       \* managers that were given a budget (BudgetLease is optional)
          Ttl,
          MaxCrashes      \* bound of the model: crashes of managers in total

\* The tasks of a DAG are 1..n, in the order the caller lists them; max and
\* on_fail are those of a task's retry policy and k that of a k_of_n barrier.
IsDag(d) ==
  /\ d.n \in 1..MaxTasks /\ d.managers \subseteq Manager
  /\ d.deps \in [1..d.n -> SUBSET (1..d.n)]
  /\ d.kind \in [1..d.n -> {"all", "k_of_n", "optional"}] /\ d.k \in [1..d.n -> Nat]
  /\ d.max \in [1..d.n -> Nat \ {0}] /\ d.on_fail \in [1..d.n -> {"quarantined", "failed"}]

ASSUME SchedulerAssumption ==
  /\ MaxTasks \in Nat /\ Ttl \in Nat \ {0}
  /\ Concurrency \in Nat \ {0} /\ MaxCrashes \in Nat
  /\ \A d \in Dags : IsDag(d)
  /\ NoOwner \notin Manager /\ Budgeted \subseteq Manager

Dead == {"failed", "quarantined", "skipped"}
Terminal == Dead \union {"passed"}

\* The cycle check of validate: no non-empty set of tasks in which every
\* task depends on one of the set.
validate(d) == \A S \in SUBSET (1..d.n) :
  S # {} => \E t \in S : d.deps[t] \intersect S = {}

ASSUME Admitted == \A d \in Dags : validate(d)

VARIABLES dag,       \* the DAG of this behaviour
          row,       \* [Task -> row of the leases table]
          wal,       \* [Manager -> tasks with a pass verdict in its WAL]
          pc,        \* [Manager -> where run() is]
          state,     \* [Manager -> [Task -> TaskState]]
          todo,      \* [Manager -> tasks schedulable() returned, not yet tried]
          blocked,   \* [Manager -> blocked_on_peer]
          spent,     \* [Manager -> its budget is exhausted]
          job,       \* [Manager -> [Task -> the _run_one coroutine]]
          crashes,
          proved     \* history: tasks for which some worker returned PASS

vars == <<dag, row, wal, pc, state, todo, blocked, spent, job, crashes, proved>>
Task == 1..dag.n
store == <<dag, row, wal>>
loop == <<pc, state, todo, blocked>>

NoJob == [at |-> "none", attempt |-> 0, token |-> 0, result |-> "pending"]

Running(m) == {t \in Task : job[m][t].at # "none"}
LeaseOf(m, t) == Lease(t, m, job[m][t].token)

Init ==
  /\ dag \in Dags
  /\ row = [t \in Task |-> NoRow]
  /\ wal = [m \in Manager |-> {}]
  /\ pc = [m \in Manager |-> "down"]
  /\ state = [m \in Manager |-> [t \in Task |-> "pending"]]
  /\ todo = [m \in Manager |-> {}]
  /\ blocked = [m \in Manager |-> FALSE]
  /\ spent = [m \in Manager |-> FALSE]
  /\ job = [m \in Manager |-> [t \in Task |-> NoJob]]
  /\ crashes = 0
  /\ proved = {}
-----------------------------------------------------------------------------
(* Barriers. *)

CountIn(t, s, S) == Cardinality({d \in dag.deps[t] : s[d] \in S})

_deps_ready(t, s) ==
  \/ dag.deps[t] = {}
  \/ dag.kind[t] = "all" /\ \A d \in dag.deps[t] : s[d] = "passed"
  \/ dag.kind[t] = "k_of_n" /\ CountIn(t, s, {"passed"}) >= dag.k[t]
  \/ dag.kind[t] = "optional" /\ \A d \in dag.deps[t] : s[d] \in Terminal

\* Bug: a quarantined dependency is not counted as dead.
DepDeadForgets(t, s) ==
  \/ dag.kind[t] = "all" /\ CountIn(t, s, {"failed", "skipped"}) > 0
  \/ /\ dag.kind[t] = "k_of_n"
     /\ Cardinality(dag.deps[t]) - CountIn(t, s, {"failed", "skipped"}) < dag.k[t]

_dep_dead(t, s) ==
  \/ dag.kind[t] = "all" /\ CountIn(t, s, Dead) > 0
  \/ dag.kind[t] = "k_of_n" /\ Cardinality(dag.deps[t]) - CountIn(t, s, Dead) < dag.k[t]

\* schedulable() visits the tasks in order and marks the unreachable ones
\* SKIPPED as it goes, so a task sees the marks of the tasks before it.
\* Visited(s)[i] is the state after the first i visits.
Visit(i, s) ==
  IF s[i] = "pending" /\ _dep_dead(i, s) THEN [s EXCEPT ![i] = "skipped"] ELSE s

Visited(s) ==
  LET after[i \in 0..dag.n] == IF i = 0 THEN s ELSE Visit(i, after[i - 1])
  IN after

schedulable(s) ==
  {t \in Task : Visited(s)[t][t] = "pending" /\ _deps_ready(t, Visited(s)[t])}
-----------------------------------------------------------------------------
(* run(), the main loop. *)

\* A new process: everything PENDING but what its WAL says has passed.
Start(m) ==
  /\ pc[m] = "down" /\ m \in dag.managers
  /\ state' = [state EXCEPT ![m] =
                 [t \in Task |-> IF t \in wal[m] THEN "passed" ELSE "pending"]]
  /\ pc' = [pc EXCEPT ![m] = "top"]
  /\ UNCHANGED <<store, todo, blocked, spent, job, crashes, proved>>

\* Tokens, dollars or wall-clock time run out; exhausted() stays true.
Spend(m) ==
  /\ m \in Budgeted /\ pc[m] \notin {"down", "done"}
  /\ ~spent[m]
  /\ spent' = [spent EXCEPT ![m] = TRUE]
  /\ UNCHANGED <<store, loop, job, crashes, proved>>

\* The budget check and the call of schedulable().
Top(m) ==
  LET s == [t \in Task |-> IF spent[m] /\ state[m][t] = "pending" THEN "skipped"
                           ELSE state[m][t]]
  IN /\ pc[m] = "top"
     /\ state' = [state EXCEPT ![m] = Visited(s)[dag.n]]
     /\ todo' = [todo EXCEPT ![m] = schedulable(s)]
     /\ blocked' = [blocked EXCEPT ![m] = FALSE]
     /\ pc' = [pc EXCEPT ![m] = "pick"]
     /\ UNCHANGED <<store, spent, job, crashes, proved>>

MorePicks(m) == todo[m] # {} /\ Cardinality(Running(m)) < Concurrency

\* outcome(): a peer may have finished the task already.
Peek(m) ==
  LET t == Min(todo[m]) IN
  /\ pc[m] = "pick" /\ MorePicks(m)
  /\ IF row[t].outcome # NoOutcome
     THEN /\ state' = [state EXCEPT ![m][t] = row[t].outcome]
          /\ todo' = [todo EXCEPT ![m] = @ \ {t}]
          /\ UNCHANGED pc
     ELSE /\ pc' = [pc EXCEPT ![m] = "acquire"]
          /\ UNCHANGED <<state, todo>>
  /\ UNCHANGED <<store, blocked, spent, job, crashes, proved>>

\* acquire(): run the task, or note that a live peer owns it.
Acquire(m) ==
  LET t == Min(todo[m]) IN
  /\ pc[m] = "acquire"
  /\ pc' = [pc EXCEPT ![m] = "pick"]
  /\ todo' = [todo EXCEPT ![m] = @ \ {t}]
  /\ IF SqlBlocked(row[t], m, 0)
     THEN /\ blocked' = [blocked EXCEPT ![m] = TRUE]
          /\ UNCHANGED <<row, state, job>>
     ELSE /\ row' = [row EXCEPT ![t] = SqlAcquire(@, m, 0, Ttl)]
          /\ state' = [state EXCEPT ![m][t] = "running"]
          /\ job' = [job EXCEPT ![m][t] = [at |-> "begin", attempt |-> 1,
                        token |-> SqlGrant(row[t], m, 0), result |-> "pending"]]
          /\ UNCHANGED blocked
  /\ UNCHANGED <<dag, wal, spent, crashes, proved>>

\* Nothing left to try: wait for a coroutine, re-loop (after a poll_s sleep
\* when blocked on a peer) or return.
EndPicks(m) ==
  /\ pc[m] = "pick" /\ ~MorePicks(m)
  /\ pc' = [pc EXCEPT ![m] =
              IF Running(m) # {} THEN "wait"
              ELSE IF \E t \in Task : state[m][t] = "pending" THEN "top" ELSE "done"]
  /\ UNCHANGED <<store, state, todo, blocked, spent, job, crashes, proved>>

Finished(m) == {t \in Task : job[m][t].at = "finished"}

\* Coroutines between a worker's return and their own: no await, so nothing
\* else of the process runs.
InCommit(m) == {t \in Task : job[m][t].at \in {"commit", "fenced", "wal"}}

\* asyncio.wait(FIRST_COMPLETED) returns.
Collect(m) ==
  /\ pc[m] = "wait" /\ InCommit(m) = {} /\ Finished(m) # {}
  /\ state' = [state EXCEPT ![m] =
                 [t \in Task |-> IF t \in Finished(m) THEN job[m][t].result ELSE @[t]]]
  /\ job' = [job EXCEPT ![m] =
               [t \in Task |-> IF t \in Finished(m) THEN NoJob ELSE @[t]]]
  /\ pc' = [pc EXCEPT ![m] = "top"]
  /\ UNCHANGED <<store, todo, blocked, spent, crashes, proved>>
-----------------------------------------------------------------------------
(* _run_one and _commit, the coroutine of one task. *)

CanRun(m, t, at) == t \in Task /\ pc[m] = "wait" /\ InCommit(m) \ {t} = {} /\ job[m][t].at = at

\* The head of the attempt loop: the budget check, then the worker starts.
Begin(m, t) ==
  /\ CanRun(m, t, "begin")
  /\ job' = IF spent[m]
            THEN [job EXCEPT ![m][t] = [@ EXCEPT !.at = "commit", !.result = "skipped"]]
            ELSE [job EXCEPT ![m][t].at = "work"]
  /\ UNCHANGED <<store, loop, spent, crashes, proved>>

WorkerPass(m, t) ==
  /\ CanRun(m, t, "work")
  /\ job' = [job EXCEPT ![m][t] = [@ EXCEPT !.at = "commit", !.result = "passed"]]
  /\ proved' = proved \union {t}
  /\ UNCHANGED <<store, loop, spent, crashes>>

\* A bad verdict or an exception: renew the lease, then retry or give up.  A
\* renew that is refused keeps the old lease.
WorkerFail(m, t) ==
  /\ CanRun(m, t, "work")
  /\ row' = IF SqlCanRenew(row[t], LeaseOf(m, t))
            THEN [row EXCEPT ![t] = SqlRenew(@, 0, Ttl)] ELSE row
  /\ job' = [job EXCEPT ![m][t] =
               IF @.attempt < dag.max[t]
               THEN [@ EXCEPT !.at = "begin", !.attempt = job[m][t].attempt + 1]
               ELSE [@ EXCEPT !.at = "commit", !.result = dag.on_fail[t]]]
  /\ UNCHANGED <<dag, wal, loop, spent, crashes, proved>>

\* complete(): accepted, or FencingError.
_commit(m, t) ==
  /\ CanRun(m, t, "commit")
  /\ IF SqlCanComplete(row[t], LeaseOf(m, t))
     THEN /\ row' = [row EXCEPT ![t] = SqlComplete(@, job[m][t].result)]
          /\ job' = [job EXCEPT ![m][t].at = "wal"]
     ELSE /\ job' = [job EXCEPT ![m][t].at = "fenced"]
          /\ UNCHANGED row
  /\ UNCHANGED <<dag, wal, loop, spent, crashes, proved>>

\* Bug: every verdict is recorded as a pass.
WalPass(m, t) ==
  /\ CanRun(m, t, "wal")
  /\ wal' = [wal EXCEPT ![m] = @ \union {t}]
  /\ job' = [job EXCEPT ![m][t].at = "finished"]
  /\ UNCHANGED <<dag, row, loop, spent, crashes, proved>>

\* The verdict record; only a pass matters to a later resume.
_wal(m, t) ==
  /\ CanRun(m, t, "wal")
  /\ wal' = [wal EXCEPT ![m] = IF job[m][t].result = "passed" THEN @ \union {t} ELSE @]
  /\ job' = [job EXCEPT ![m][t].at = "finished"]
  /\ UNCHANGED <<dag, row, loop, spent, crashes, proved>>

\* Fenced: adopt the outcome the peer recorded, SKIPPED when there is none.
Adopt(m, t) ==
  /\ CanRun(m, t, "fenced")
  /\ job' = [job EXCEPT ![m][t] =
               [@ EXCEPT !.at = "finished",
                         !.result = IF row[t].outcome = NoOutcome THEN "skipped" ELSE row[t].outcome]]
  /\ UNCHANGED <<store, loop, spent, crashes, proved>>
-----------------------------------------------------------------------------
\* The process dies: only the store and its WAL survive.
Crash(m) ==
  /\ pc[m] \notin {"down", "done"} /\ crashes < MaxCrashes
  /\ crashes' = crashes + 1
  /\ pc' = [pc EXCEPT ![m] = "down"]
  /\ state' = [state EXCEPT ![m] = [t \in Task |-> "pending"]]
  /\ todo' = [todo EXCEPT ![m] = {}]
  /\ blocked' = [blocked EXCEPT ![m] = FALSE]
  /\ spent' = [spent EXCEPT ![m] = FALSE]
  /\ job' = [job EXCEPT ![m] = [t \in Task |-> NoJob]]
  /\ UNCHANGED <<store, proved>>

\* One unit of time passes for every lease.
Tick ==
  /\ \E t \in Task : row[t].expires_at > 0
  /\ row' = [t \in Task |->
               [row[t] EXCEPT !.expires_at = IF @ > 0 THEN @ - 1 ELSE 0]]
  /\ UNCHANGED <<dag, wal, loop, spent, job, crashes, proved>>

LoopStep(m) == Start(m) \/ Top(m) \/ Peek(m) \/ Acquire(m) \/ EndPicks(m) \/ Collect(m)

JobStep(m, t) ==
  \/ Begin(m, t) \/ WorkerPass(m, t) \/ WorkerFail(m, t)
  \/ _commit(m, t) \/ _wal(m, t) \/ Adopt(m, t)

Next ==
  \/ \E m \in Manager : \/ LoopStep(m) \/ Spend(m) \/ Crash(m)
                        \/ \E t \in Task : JobStep(m, t)
  \/ Tick

Spec == Init /\ [][Next]_vars

\* The event loop runs what is ready, a worker returns, time passes.
FairSpec ==
  /\ Spec
  /\ \A m \in Manager : WF_vars(LoopStep(m)) /\ \A t \in 1..MaxTasks : WF_vars(JobStep(m, t))
  /\ WF_vars(Tick)
-----------------------------------------------------------------------------
TypeOK ==
  /\ row \in [Task -> [owner : Manager \union {NoOwner}, token : Nat, expires_at : 0..Ttl,
                       max_token : Nat, outcome : Terminal \union {NoOutcome}]]
  /\ wal \in [Manager -> SUBSET Task]
  /\ pc \in [Manager -> {"down", "top", "pick", "acquire", "wait", "done"}]
  /\ state \in [Manager -> [Task -> Terminal \union {"pending", "running"}]]
  /\ todo \in [Manager -> SUBSET Task]
  /\ blocked \in [Manager -> BOOLEAN] /\ spent \in [Manager -> BOOLEAN]
  /\ job \in [Manager -> [Task ->
       [at : {"none", "begin", "work", "commit", "fenced", "wal", "finished"},
        attempt : Nat, token : Nat, result : Terminal \union {"pending"}]]]
  /\ crashes \in 0..MaxCrashes
  /\ proved \in SUBSET Task

\* Of the managers at work on a task at most one holds the token the store
\* would accept a terminal write under, through expiries, takeovers, crashes
\* and restarts of a manager under its old owner name.
OneCurrentRunner ==
  \A t \in Task, m, n \in Manager :
    (/\ job[m][t].at \notin {"none", "finished"} /\ job[m][t].token = row[t].max_token
     /\ job[n][t].at \notin {"none", "finished"} /\ job[n][t].token = row[t].max_token)
    => m = n

\* A task is at work only when a worker really passed what its barrier asks for,
\* every dependency or k of them, whoever ran it and however its verdict
\* travelled: no store, WAL or adopting manager believes in a pass nobody earned.
BarrierHolds ==
  \A m \in Manager, t \in Task : job[m][t].at # "none" =>
    /\ dag.kind[t] = "all" => dag.deps[t] \subseteq proved
    /\ dag.kind[t] = "k_of_n" => Cardinality(dag.deps[t] \cap proved) >= dag.k[t]

\* "an interrupted run RESUMES without re-doing passed tasks": a task with a
\* pass in the manager's WAL is never at work in that manager again.
NoRedo ==
  \A m \in Manager : \A t \in wal[m] :
    /\ job[m][t].at \in {"none", "finished"}
    /\ job[m][t].at = "none" /\ pc[m] # "down" => state[m][t] = "passed"

\* Every manager returns with a terminal state for every task, although its
\* peers crash, hold leases it waits for and take over its own.
Termination ==
  \A m \in Manager : <>[](m \in dag.managers => pc[m] = "done" /\ \A t \in Task : state[m][t] \in Terminal)

\* docs/usage.md of two schedulers sharing a store: "each task runs exactly
\* once".  No two managers have a worker on the same task.
RunsOnce ==
  \A t \in Task, m, n \in Manager :
    job[m][t].at = "work" /\ job[n][t].at = "work" => m = n

-----------------------------------------------------------------------------
(* Values for the model checker: a chain of two tasks with ALL barriers    *)
(* under every manager; three tasks under the three barriers, the first    *)
(* listed before what it needs, under the managers with a budget.          *)
Both(x, y) == [t \in 1..2 |-> IF t = 1 THEN x ELSE y]
Chain == [n |-> 2, managers |-> Manager, deps |-> Both({}, {1}), kind |-> Both("all", "all"),
          k |-> Both(1, 1), max |-> Both(2, 1), on_fail |-> Both("quarantined", "failed")]
Fork == [n |-> 3, managers |-> Budgeted,
         deps |-> [t \in 1..3 |-> CASE t = 1 -> {2, 3} [] t = 2 -> {} [] t = 3 -> {2}],
         kind |-> [t \in 1..3 |-> CASE t = 1 -> "k_of_n" [] t = 2 -> "all" [] t = 3 -> "optional"],
         k |-> [t \in 1..3 |-> 1], max |-> [t \in 1..3 |-> 2], on_fail |-> [t \in 1..3 |-> "quarantined"]]
MCDags == {Chain, Fork}
=============================================================================
