-------------------------- MODULE SchedulerProofs --------------------------
(***************************************************************************)
(* What holds of the schedulers of Scheduler for any managers, DAGs, lease *)
(* times and numbers of crashes.  Inductions go by the least               *)
(* counterexample, so that no step quantifies over a formula.              *)
(***************************************************************************)
EXTENDS Scheduler, FiniteSetTheorems, WellFoundedInduction, TLAPS

TaskState == Terminal \union {"pending", "running"}
Row == [owner : Manager \union {NoOwner}, token : Nat, expires_at : 0..Ttl,
        max_token : Nat, outcome : Terminal \union {NoOutcome}]
Job == [at : {"none", "begin", "work", "commit", "fenced", "wal", "finished"},
        attempt : Nat, token : Nat, result : Terminal \union {"pending"}]

-----------------------------------------------------------------------------
(* The least element, and what schedulable() does to the states it visits. *)

LEMMA LeastNatural ==
  ASSUME NEW S \in SUBSET Nat, S # {}
  PROVE  \E x \in S : \A y \in S : x <= y
<1> DEFINE R == OpToRel(<, Nat)
<1>1. IsWellFoundedOn(R, Nat)
  BY NatLessThanWellFounded
<1>2. \A x, y \in Nat : x < y => <<x, y>> \in R
  BY DEF OpToRel
<1> HIDE DEF R
<1>3. PICK x \in S : \A y \in S : ~(<<y, x>> \in R)
  BY <1>1, WFMin
<1>4. \A y \in S : ~(y < x)
  BY <1>2, <1>3
<1> QED
  BY <1>4

LEMMA MinIsMember ==
  ASSUME NEW S \in SUBSET Nat, S # {}
  PROVE  Min(S) \in S
BY LeastNatural DEF Min

\* A DAG has a natural number of tasks, and dependencies among them.
LEMMA DagFacts ==
  ASSUME dag \in Dags
  PROVE  /\ dag.n \in Nat /\ dag.n # 0 /\ Task \subseteq Nat /\ IsFiniteSet(Task)
         /\ dag.managers \subseteq Manager
         /\ dag.deps \in [Task -> SUBSET Task] /\ dag.k \in [Task -> Nat]
         /\ dag.kind \in [Task -> {"all", "k_of_n", "optional"}]
         /\ dag.max \in [Task -> Nat] /\ dag.on_fail \in [Task -> {"quarantined", "failed"}]
<1>1. IsDag(dag) /\ MaxTasks \in Nat
  BY SchedulerAssumption
<1>2. dag.n \in Nat /\ dag.n # 0
  BY <1>1 DEF IsDag
<1>3. IsFiniteSet(Task)
  BY <1>2, FS_Interval DEF Task
<1>4. dag.max \in [Task -> Nat]
  BY <1>1 DEF IsDag, Task
<1> QED
  BY <1>1, <1>2, <1>3, <1>4 DEF IsDag, Task

\* The recursive definition of Visited has a solution.
LEMMA VisitedUnfolds ==
  ASSUME dag \in Dags, NEW s
  PROVE  /\ Visited(s)[0] = s
         /\ \A i \in 1..dag.n : Visited(s)[i] = Visit(i, Visited(s)[i - 1])
<1> DEFINE Def(f, n) == f = [i \in 0..n |-> IF i = 0 THEN s ELSE Visit(i, f[i - 1])]
           Bad == {n \in Nat : ~\E f : Def(f, n)}
<1>0. dag.n \in Nat
  BY DagFacts
<1>1. Bad = {}
  <2> SUFFICES ASSUME Bad # {} PROVE FALSE
    OBVIOUS
  <2>1. PICK n \in Bad : \A k \in Bad : n <= k
    BY LeastNatural
  <2>2. CASE n = 0
    <3> DEFINE f == [i \in 0..0 |-> s]
    <3>1. Def(f, 0)
      OBVIOUS
    <3> QED
      BY <2>2, <3>1
  <2>3. CASE n # 0
    <3>1. n - 1 \in Nat /\ n - 1 \notin Bad
      <4>1. n \in Nat /\ n # 0 /\ ~(n <= n - 1)
        BY <2>1, <2>3
      <4> HIDE DEF Bad
      <4> QED
        BY <4>1, <2>1
    <3>2. PICK f : Def(f, n - 1)
      BY <3>1
    <3> DEFINE g == [i \in 0..n |-> IF i = n THEN Visit(n, f[n - 1]) ELSE f[i]]
    <3>3. \A i \in 0..n : g[i] = IF i = 0 THEN s ELSE Visit(i, g[i - 1])
      BY <3>1, <3>2
    <3>4. Def(g, n)
      BY <3>3
    <3> QED
      BY <3>4
  <2> QED
    BY <2>2, <2>3
<1>2. PICK f : Def(f, dag.n)
  BY <1>1, <1>0
<1>3. Visited(s) = CHOOSE g : Def(g, dag.n)
  BY DEF Visited
<1>4. Def(Visited(s), dag.n)
  BY <1>2, <1>3
<1> QED
  BY <1>4, <1>0

\* schedulable() changes nothing but pending tasks, and those to SKIPPED.
LEMMA VisitedSkips ==
  ASSUME dag \in Dags, NEW s \in [Task -> TaskState]
  PROVE  \A i \in 0..dag.n :
           /\ Visited(s)[i] \in [Task -> TaskState]
           /\ \A t \in Task : \/ Visited(s)[i][t] = s[t]
                              \/ (s[t] = "pending" /\ Visited(s)[i][t] = "skipped")
<1> DEFINE Skips(v) == /\ v \in [Task -> TaskState]
                       /\ \A t \in Task : v[t] = s[t] \/ (s[t] = "pending" /\ v[t] = "skipped")
           Bad == {i \in 0..dag.n : ~Skips(Visited(s)[i])}
<1>0. dag.n \in Nat
  BY DagFacts
<1>1. Bad = {}
  <2> SUFFICES ASSUME Bad # {} PROVE FALSE
    OBVIOUS
  <2>1. PICK n \in Bad : \A k \in Bad : n <= k
    <3>1. Bad \in SUBSET Nat
      BY <1>0
    <3> HIDE DEF Bad
    <3> QED
      BY <3>1, LeastNatural
  <2>2. n # 0
    BY VisitedUnfolds, <2>1
  <2>3. n \in 1..dag.n /\ n - 1 \in 0..dag.n /\ n - 1 \notin Bad
    <3>1. n \in 1..dag.n /\ n - 1 \in 0..dag.n /\ ~(n <= n - 1)
      BY <2>1, <2>2, <1>0
    <3> HIDE DEF Bad
    <3> QED
      BY <3>1, <2>1
  <2>4. Skips(Visited(s)[n - 1])
    BY <2>3
  <2>5. Visited(s)[n] = Visit(n, Visited(s)[n - 1])
    BY VisitedUnfolds, <2>3
  <2> DEFINE v == Visited(s)[n - 1]
  <2>6. n \in Task
    BY <2>3 DEF Task
  <2> HIDE DEF v
  <2>7. Skips(v) => Skips(Visit(n, v))
    BY <2>6 DEF Visit, TaskState, Terminal, Dead
  <2> QED
    BY <2>4, <2>5, <2>7, <2>1 DEF v
<1> QED
  BY <1>1

-----------------------------------------------------------------------------
(* The invariants.                                                         *)

Decided == {"commit", "fenced", "wal", "finished"}

\* A manager that acquires still has something to try; a coroutine that is past
\* its worker has a verdict.
TypeInv ==
  /\ dag \in Dags
  /\ row \in [Task -> Row] /\ wal \in [Manager -> SUBSET Task]
  /\ pc \in [Manager -> {"down", "top", "pick", "acquire", "wait", "done"}]
  /\ state \in [Manager -> [Task -> TaskState]]
  /\ todo \in [Manager -> SUBSET Task]
  /\ blocked \in [Manager -> BOOLEAN] /\ spent \in [Manager -> BOOLEAN]
  /\ job \in [Manager -> [Task -> Job]]
  /\ crashes \in 0..MaxCrashes /\ proved \in SUBSET Task
  /\ \A m \in Manager : pc[m] = "acquire" => todo[m] # {}
  /\ \A m \in Manager, t \in Task : job[m][t].at \in Decided => job[m][t].result \in Terminal

\* The row's token is the newest, a job's is not newer, and whoever holds the
\* newest is the row's owner.
OwnInv ==
  /\ \A t \in Task : row[t].token = row[t].max_token
  /\ \A m \in Manager, t \in Task : job[m][t].at # "none" =>
       /\ job[m][t].token <= row[t].max_token
       /\ job[m][t].token = row[t].max_token => row[t].owner = m

\* What a task's barrier asks for is proved.
Earned(t, ps) ==
  /\ dag.kind[t] = "all" => dag.deps[t] \subseteq ps
  /\ dag.kind[t] = "k_of_n" => Cardinality(dag.deps[t] \cap ps) >= dag.k[t]

\* Whoever says "passed" (a WAL, the store, a loop's state, a coroutine's
\* verdict) says it of a task some worker passed; what schedulable() returned
\* and what is at work has earned its barrier.
PassInv ==
  /\ \A m \in Manager : wal[m] \subseteq proved
  /\ \A t \in Task : row[t].outcome = "passed" /\ NoOutcome # "passed" => t \in proved
  /\ \A m \in Manager, t \in Task :
       /\ state[m][t] = "passed" => t \in proved
       /\ job[m][t].at \in Decided /\ job[m][t].result = "passed" => t \in proved
       /\ t \in todo[m] \/ job[m][t].at # "none" => Earned(t, proved)

-----------------------------------------------------------------------------
(* Types.                                                                  *)

\* Marks of the budget, and the visits of schedulable().
LEMMA TopTypes ==
  ASSUME TypeInv, NEW m \in Manager
  PROVE  LET s == [t \in Task |-> IF spent[m] /\ state[m][t] = "pending" THEN "skipped"
                                  ELSE state[m][t]]
         IN  /\ s \in [Task -> TaskState]
             /\ Visited(s)[dag.n] \in [Task -> TaskState]
             /\ schedulable(s) \in SUBSET Task
<1> DEFINE s == [t \in Task |-> IF spent[m] /\ state[m][t] = "pending" THEN "skipped"
                                ELSE state[m][t]]
<1>1. s \in [Task -> TaskState]
  BY DEF TypeInv, TaskState, Terminal, Dead
<1>2. dag \in Dags /\ dag.n \in 0..dag.n
  BY DagFacts DEF TypeInv
<1>3. schedulable(s) \in SUBSET Task
  BY DEF schedulable
<1> HIDE DEF s
<1>4. Visited(s)[dag.n] \in [Task -> TaskState]
  BY <1>1, <1>2, VisitedSkips
<1> QED
  BY <1>1, <1>3, <1>4 DEF s

JobIs(at, attempt, token, result) ==
  [at |-> at, attempt |-> attempt, token |-> token, result |-> result]

LEMMA JobAt ==
  ASSUME NEW j \in Job, NEW at
  PROVE  [j EXCEPT !.at = at] = JobIs(at, j.attempt, j.token, j.result)
BY DEF Job, JobIs

LEMMA JobAtResult ==
  ASSUME NEW j \in Job, NEW at, NEW result
  PROVE  [j EXCEPT !.at = at, !.result = result] = JobIs(at, j.attempt, j.token, result)
<1> DEFINE k == [j EXCEPT !.at = at]
<1> HIDE DEF k
<1>1. k = JobIs(at, j.attempt, j.token, j.result)
  BY JobAt DEF k
<1>2. [k EXCEPT !.result = result] = JobIs(at, j.attempt, j.token, result)
  BY <1>1 DEF JobIs
<1> QED
  BY <1>2 DEF k

LEMMA JobAtAttempt ==
  ASSUME NEW j \in Job, NEW at, NEW attempt
  PROVE  [j EXCEPT !.at = at, !.attempt = attempt] = JobIs(at, attempt, j.token, j.result)
<1> DEFINE k == [j EXCEPT !.at = at]
<1> HIDE DEF k
<1>1. k = JobIs(at, j.attempt, j.token, j.result)
  BY JobAt DEF k
<1>2. [k EXCEPT !.attempt = attempt] = JobIs(at, attempt, j.token, j.result)
  BY <1>1 DEF JobIs
<1> QED
  BY <1>2 DEF k

\* One coroutine changes.
LEMMA JobUpdate ==
  ASSUME TypeInv, NEW m \in Manager, NEW t \in Task, NEW r \in Job,
         r.at \in Decided => r.result \in Terminal,
         job' = [job EXCEPT ![m][t] = r], dag' = dag
  PROVE  /\ job' \in [Manager -> [Task' -> Job]]
         /\ \A n \in Manager, u \in Task' : job'[n][u].at \in Decided => job'[n][u].result \in Terminal
         /\ \A n \in Manager, u \in Task : job'[n][u] = IF n = m /\ u = t THEN r ELSE job[n][u]
<1>1. Task' = Task
  BY DEF Task
<1> QED
  BY <1>1 DEF TypeInv

LEMMA RowUpdate ==
  ASSUME TypeInv, NEW t \in Task, NEW r \in Row, row' = [row EXCEPT ![t] = r], dag' = dag
  PROVE  /\ row' \in [Task' -> Row]
         /\ \A u \in Task : row'[u] = IF u = t THEN r ELSE row[u]
BY DEF TypeInv, Task

\* What a step of a coroutine may do.  A pass comes from the worker, or from a
\* verdict or an outcome that is a pass already.
Moves(m, t, r) ==
  LET j == job[m][t] IN
  /\ job' = [job EXCEPT ![m][t] = r]
  /\ j.at # "none" /\ r.at # "none" /\ r.token = j.token
  /\ r.at \in Decided => r.result \in Terminal
  /\ r.at \in Decided /\ r.result = "passed" =>
       \/ t \in proved'
       \/ j.at \in Decided /\ j.result = "passed"
       \/ row[t].outcome = "passed" /\ NoOutcome # "passed"
  /\ UNCHANGED <<dag, loop, spent, crashes>>
  /\ row' \in [Task -> Row]
  /\ \A u \in Task :
       /\ row'[u].owner = row[u].owner /\ row'[u].token = row[u].token
       /\ row'[u].max_token = row[u].max_token
       /\ \/ row'[u].outcome = row[u].outcome
          \/ u = t /\ j.at \in Decided /\ row'[u].outcome = j.result
  /\ wal' \in [Manager -> SUBSET Task]
  /\ \A n \in Manager : \/ wal'[n] = wal[n]
                        \/ wal'[n] = wal[n] \union {t} /\ j.at \in Decided /\ j.result = "passed"
  /\ proved' \in SUBSET Task /\ proved \subseteq proved'

LEMMA JobStepMoves ==
  ASSUME TypeInv, NEW m \in Manager, NEW t \in Task, JobStep(m, t)
  PROVE  \E r \in Job : Moves(m, t, r)
<1> DEFINE j == job[m][t]
           k(at, attempt, result) == JobIs(at, attempt, j.token, result)
<1>0. /\ j \in Job /\ (j.at \in Decided => j.result \in Terminal)
      /\ row[t] \in Row /\ Ttl \in Nat
      /\ dag.on_fail[t] \in Terminal /\ dag.on_fail[t] # "passed"
  <2>1. dag.on_fail[t] \in {"quarantined", "failed"}
    BY DagFacts DEF TypeInv
  <2>2. j \in Job /\ (j.at \in Decided => j.result \in Terminal) /\ row[t] \in Row /\ Ttl \in Nat
    BY SchedulerAssumption DEF TypeInv
  <2> QED
    BY <2>1, <2>2 DEF Terminal, Dead
<1>a. \A at : [j EXCEPT !.at = at] = k(at, j.attempt, j.result)
  BY <1>0, JobAt
<1>b. \A at, result : [j EXCEPT !.at = at, !.result = result] = k(at, j.attempt, result)
  BY <1>0, JobAtResult, Zenon
<1>c. \A at : [j EXCEPT !.at = at, !.attempt = j.attempt + 1] = k(at, j.attempt + 1, j.result)
  BY <1>0, JobAtAttempt, Zenon
<1>k. \A at, attempt, result : /\ k(at, attempt, result).at = at /\ k(at, attempt, result).token = j.token
                               /\ k(at, attempt, result).result = result
  BY DEF JobIs
<1>m. j.attempt \in Nat /\ j.token \in Nat /\ j.result \in Terminal \union {"pending"}
  BY <1>0 DEF Job
<1>n. \A at \in {"none", "begin", "work", "commit", "fenced", "wal", "finished"}, attempt \in Nat,
         result \in Terminal \union {"pending"} : k(at, attempt, result) \in Job
  BY <1>m DEF JobIs, Job
<1> HIDE DEF k
<1>r. UNCHANGED row => /\ row' \in [Task -> Row]
                       /\ \A u \in Task : row'[u] = row[u]
  BY DEF TypeInv
<1>w. UNCHANGED wal => wal' \in [Manager -> SUBSET Task]
  BY DEF TypeInv
<1>p. UNCHANGED proved => proved' \in SUBSET Task
  BY DEF TypeInv
<1>2. CASE Begin(m, t)
  <2>1. PICK r \in {k("commit", j.attempt, "skipped"), k("work", j.attempt, j.result)} :
          job' = [job EXCEPT ![m][t] = r]
    BY <1>2, <1>a, <1>b, ZenonT(60) DEF Begin
  <2>2. /\ r \in Job /\ r.at # "none" /\ r.token = j.token
        /\ r.at \in Decided => r.result \in Terminal /\ r.result # "passed"
    BY <1>k, <1>m, <1>n, SMTT(60) DEF Decided, Terminal, Dead
  <2>3. Moves(m, t, r)
    BY <1>2, <2>1, <2>2, <1>r, <1>w, <1>p DEF Begin, CanRun, store, Moves
  <2> QED
    BY <2>2, <2>3
<1>3. CASE WorkerPass(m, t)
  <2> DEFINE r == k("commit", j.attempt, "passed")
  <2>1. job' = [job EXCEPT ![m][t] = r]
    BY <1>3, <1>b DEF WorkerPass
  <2>2. /\ r \in Job /\ r.at # "none" /\ r.token = j.token /\ r.result \in Terminal
    BY <1>k, <1>m, <1>n DEF Terminal
  <2>3. t \in proved' /\ proved \subseteq proved' /\ proved' \in SUBSET Task
    BY <1>3 DEF WorkerPass, TypeInv
  <2> HIDE DEF r
  <2>4. Moves(m, t, r)
    BY <1>3, <2>1, <2>2, <2>3, <1>r, <1>w DEF WorkerPass, CanRun, store, Moves
  <2> QED
    BY <2>2, <2>4
<1>4. CASE WorkerFail(m, t)
  <2>1. PICK r \in {k("begin", j.attempt + 1, j.result), k("commit", j.attempt, dag.on_fail[t])} :
          job' = [job EXCEPT ![m][t] = r]
    <3>1. CASE j.attempt < dag.max[t]
      BY <1>4, <1>c, <3>1 DEF WorkerFail
    <3>2. CASE ~(j.attempt < dag.max[t])
      BY <1>4, <1>b, <3>2 DEF WorkerFail
    <3> QED
      BY <3>1, <3>2
  <2>2. /\ r \in Job /\ r.at # "none" /\ r.token = j.token
        /\ r.at \in Decided => r.result \in Terminal /\ r.result # "passed"
    BY <1>0, <1>k, <1>m, <1>n DEF Decided
  <2> DEFINE renewed == SqlRenew(row[t], 0, Ttl)
  <2>3. /\ renewed \in Row /\ renewed.owner = row[t].owner /\ renewed.token = row[t].token
        /\ renewed.max_token = row[t].max_token /\ renewed.outcome = row[t].outcome
    BY <1>0 DEF SqlRenew, Row
  <2>4. row' = [row EXCEPT ![t] = renewed] \/ row' = row
    BY <1>4 DEF WorkerFail
  <2> HIDE DEF renewed
  <2>5. /\ row' \in [Task -> Row]
        /\ \A u \in Task : /\ row'[u].owner = row[u].owner /\ row'[u].token = row[u].token
                           /\ row'[u].max_token = row[u].max_token /\ row'[u].outcome = row[u].outcome
    BY <2>3, <2>4, ZenonT(60) DEF TypeInv
  <2>6. Moves(m, t, r)
    BY <1>4, <2>1, <2>2, <2>5, <1>w, <1>p DEF WorkerFail, CanRun, Moves
  <2> QED
    BY <2>2, <2>6
<1>5. CASE _commit(m, t)
  <2>1. PICK r \in {k("wal", j.attempt, j.result), k("fenced", j.attempt, j.result)} :
          job' = [job EXCEPT ![m][t] = r]
    BY <1>5, <1>a DEF _commit
  <2>2. j.at \in Decided /\ j.at # "none" /\ j.result \in Terminal
    BY <1>0, <1>5 DEF _commit, CanRun, Decided
  <2>3. r \in Job /\ r.at # "none" /\ r.token = j.token /\ r.result = j.result
    BY <2>2, <1>k, <1>m, <1>n
  <2> DEFINE completed == SqlComplete(row[t], j.result)
  <2>4. /\ completed \in Row /\ completed.owner = row[t].owner /\ completed.token = row[t].token
        /\ completed.max_token = row[t].max_token /\ completed.outcome = j.result
    BY <1>0, <2>2 DEF SqlComplete, Row
  <2>5. row' = [row EXCEPT ![t] = completed] \/ row' = row
    BY <1>5 DEF _commit
  <2> HIDE DEF completed
  <2>6. /\ row' \in [Task -> Row]
        /\ \A u \in Task : /\ row'[u].owner = row[u].owner /\ row'[u].token = row[u].token
                           /\ row'[u].max_token = row[u].max_token
                           /\ row'[u].outcome = row[u].outcome \/ (u = t /\ row'[u].outcome = j.result)
    BY <2>4, <2>5, ZenonT(60) DEF TypeInv
  <2>7. Moves(m, t, r)
    BY <1>5, <2>1, <2>2, <2>3, <2>6, <1>w, <1>p DEF _commit, Moves
  <2> QED
    BY <2>3, <2>7
<1>6. CASE _wal(m, t)
  <2> DEFINE r == k("finished", j.attempt, j.result)
  <2>1. job' = [job EXCEPT ![m][t] = r]
    BY <1>6, <1>a DEF _wal
  <2>2. j.at \in Decided /\ j.at # "none" /\ j.result \in Terminal
    BY <1>0, <1>6 DEF _wal, CanRun, Decided
  <2>3. r \in Job /\ r.at # "none" /\ r.token = j.token /\ r.result = j.result
    BY <2>2, <1>k, <1>m, <1>n
  <2>4. /\ wal' \in [Manager -> SUBSET Task]
        /\ \A n \in Manager : wal'[n] = wal[n] \/ (wal'[n] = wal[n] \union {t} /\ j.result = "passed")
    BY <1>6 DEF _wal, TypeInv
  <2> HIDE DEF r
  <2>5. Moves(m, t, r)
    BY <1>6, <2>1, <2>2, <2>3, <2>4, <1>r, <1>p DEF _wal, Moves
  <2> QED
    BY <2>3, <2>5
<1>7. CASE Adopt(m, t)
  <2> DEFINE a == IF row[t].outcome = NoOutcome THEN "skipped" ELSE row[t].outcome
             r == k("finished", j.attempt, a)
  <2>1. a \in Terminal /\ (a = "passed" => row[t].outcome = "passed" /\ NoOutcome # "passed")
    BY <1>0 DEF Row, Terminal, Dead
  <2>2. job' = [job EXCEPT ![m][t] = r]
    BY <1>7, <1>b DEF Adopt
  <2> HIDE DEF a
  <2>3. r \in Job /\ r.at # "none" /\ r.token = j.token /\ r.result = a
    BY <2>1, <1>k, <1>m, <1>n
  <2> HIDE DEF r
  <2>4. Moves(m, t, r)
    BY <1>7, <2>1, <2>2, <2>3, <1>r, <1>w, <1>p DEF Adopt, CanRun, store, Moves
  <2> QED
    BY <2>3, <2>4
<1> QED
  BY <1>2, <1>3, <1>4, <1>5, <1>6, <1>7 DEF JobStep

LEMMA TypeInit == Init => TypeInv
<1> SUFFICES ASSUME Init PROVE TypeInv
  OBVIOUS
<1>1. NoRow \in Row /\ NoJob \in Job
  BY SchedulerAssumption DEF NoRow, NoJob, Row, Job
<1>2. "pending" \in TaskState /\ 0 \in 0..MaxCrashes
  BY SchedulerAssumption DEF TaskState
<1> QED
  BY <1>1, <1>2 DEF Init, TypeInv, Decided, NoJob

LEMMA TypeStep == TypeInv /\ [Next]_vars => TypeInv'
<1> SUFFICES ASSUME TypeInv, [Next]_vars PROVE TypeInv'
  OBVIOUS
<1>0. /\ dag.n \in Nat /\ Task \subseteq Nat /\ dag.managers \subseteq Manager
      /\ dag.max \in [Task -> Nat] /\ dag.on_fail \in [Task -> {"quarantined", "failed"}]
      /\ Ttl \in Nat /\ Ttl # 0 /\ MaxCrashes \in Nat /\ Budgeted \subseteq Manager
  BY DagFacts, SchedulerAssumption DEF TypeInv
<1>t. dag' = dag => Task' = Task
  BY DEF Task
<1>1. ASSUME NEW m \in Manager, LoopStep(m) PROVE TypeInv'
  <2>1. CASE Start(m)
    BY <2>1, <1>t DEF Start, store, TypeInv, TaskState, Terminal
  <2>2. CASE Top(m)
    BY <2>2, <1>t, TopTypes DEF Top, store, TypeInv
  <2>3. CASE Peek(m)
    <3> DEFINE t == Min(todo[m])
    <3>1. t \in todo[m] /\ t \in Task
      BY <2>3, <1>0, MinIsMember DEF Peek, MorePicks, TypeInv
    <3>2. row[t].outcome # NoOutcome => row[t].outcome \in TaskState
      BY <3>1 DEF TypeInv, Row, TaskState
    <3>3. CASE row[t].outcome # NoOutcome
      <4>1. /\ state' = [state EXCEPT ![m][t] = row[t].outcome]
            /\ todo' = [todo EXCEPT ![m] = @ \ {t}] /\ pc' = pc /\ pc[m] = "pick"
        BY <2>3, <3>3 DEF Peek
      <4> HIDE DEF t
      <4>2. state' \in [Manager -> [Task -> TaskState]] /\ todo' \in [Manager -> SUBSET Task]
        BY <3>1, <3>2, <3>3, <4>1 DEF TypeInv
      <4>3. \A n \in Manager : pc'[n] = "acquire" => todo'[n] # {}
        BY <4>1 DEF TypeInv
      <4> QED
        BY <2>3, <1>t, <4>1, <4>2, <4>3 DEF Peek, store, TypeInv
    <3>4. CASE row[t].outcome = NoOutcome
      <4>1. pc' = [pc EXCEPT ![m] = "acquire"] /\ UNCHANGED <<state, todo>> /\ todo[m] # {}
        BY <2>3, <3>4 DEF Peek, MorePicks
      <4> QED
        BY <2>3, <1>t, <4>1 DEF Peek, store, TypeInv
    <3> QED
      BY <3>3, <3>4
  <2>4. CASE Acquire(m)
    <3> DEFINE t == Min(todo[m])
               r == SqlAcquire(row[t], m, 0, Ttl)
               j == [at |-> "begin", attempt |-> 1, token |-> SqlGrant(row[t], m, 0), result |-> "pending"]
    <3>1. t \in todo[m] /\ t \in Task
      BY <2>4, <1>0, MinIsMember DEF Acquire, TypeInv
    <3>2. row[t] \in Row
      BY <3>1 DEF TypeInv
    <3> HIDE DEF t
    <3>3. r \in Row /\ j \in Job
      BY <3>2, <1>0 DEF SqlAcquire, SqlGrant, Row, Job
    <3>4. "running" \in TaskState
      BY DEF TaskState
    <3>5. j.at \notin Decided
      BY DEF Decided
    <3> HIDE DEF r, j
    <3>6. CASE row' = [row EXCEPT ![t] = r] /\ job' = [job EXCEPT ![m][t] = j]
               /\ state' = [state EXCEPT ![m][t] = "running"] /\ UNCHANGED blocked
      BY <2>4, <1>t, <3>1, <3>3, <3>4, <3>5, <3>6, JobUpdate, RowUpdate DEF Acquire, TypeInv
    <3>7. CASE blocked' = [blocked EXCEPT ![m] = TRUE] /\ UNCHANGED <<row, state, job>>
      BY <2>4, <1>t, <3>1, <3>7 DEF Acquire, TypeInv
    <3> QED
      BY <2>4, <3>6, <3>7 DEF Acquire, t, r, j
  <2>5. CASE EndPicks(m)
    BY <2>5, <1>t DEF EndPicks, store, TypeInv
  <2>6. CASE Collect(m)
    <3>1. \A t \in Finished(m) : job[m][t].result \in Terminal
      BY DEF Finished, TypeInv, Decided
    <3>2. NoJob \in Job /\ NoJob.at \notin Decided
      BY DEF NoJob, Job, Decided
    <3>3. Terminal \subseteq TaskState
      BY DEF TaskState
    <3>4. /\ state'[m] = [t \in Task |-> IF t \in Finished(m) THEN job[m][t].result ELSE state[m][t]]
          /\ job'[m] = [t \in Task |-> IF t \in Finished(m) THEN NoJob ELSE job[m][t]]
          /\ \A n \in Manager \ {m} : state'[n] = state[n] /\ job'[n] = job[n]
      BY <2>6 DEF Collect, TypeInv
    <3>5. /\ state' = [state EXCEPT ![m] = state'[m]]
          /\ job' = [job EXCEPT ![m] = job'[m]]
      BY <2>6, <3>4 DEF Collect, TypeInv
    <3>6. /\ state' \in [Manager -> [Task -> TaskState]]
          /\ job' \in [Manager -> [Task -> Job]]
      <4>1. state'[m] \in [Task -> TaskState] /\ job'[m] \in [Task -> Job]
        BY <3>1, <3>2, <3>3, <3>4 DEF TypeInv
      <4> QED
        BY <3>5, <4>1 DEF TypeInv
    <3>7. \A n \in Manager, t \in Task : job'[n][t].at \in Decided => job'[n][t].result \in Terminal
      <4>1. \A t \in Task : job'[m][t] = IF t \in Finished(m) THEN NoJob ELSE job[m][t]
        BY <3>4
      <4> QED
        BY <3>2, <3>4, <4>1 DEF TypeInv
    <3> QED
      BY <2>6, <1>t, <3>6, <3>7 DEF Collect, store, TypeInv
  <2> QED
    BY <1>1, <2>1, <2>2, <2>3, <2>4, <2>5, <2>6 DEF LoopStep
<1>2. ASSUME NEW m \in Manager, Spend(m) PROVE TypeInv'
  BY <1>2, <1>t DEF Spend, store, loop, TypeInv
<1>3. ASSUME NEW m \in Manager, Crash(m) PROVE TypeInv'
  <2>1. NoJob \in Job /\ NoJob.at \notin Decided
    BY DEF NoJob, Job, Decided
  <2>2. "pending" \in TaskState
    BY DEF TaskState
  <2>3. /\ state' = [state EXCEPT ![m] = [t \in Task |-> "pending"]]
        /\ job' = [job EXCEPT ![m] = [t \in Task |-> NoJob]]
        /\ dag' = dag /\ UNCHANGED <<row, wal, proved>>
    BY <1>3 DEF Crash, store
  <2>4. /\ state' \in [Manager -> [Task -> TaskState]]
        /\ job' \in [Manager -> [Task -> Job]]
    BY <2>1, <2>2, <2>3 DEF TypeInv
  <2>5. \A n \in Manager, t \in Task : job'[n][t] = IF n = m THEN NoJob ELSE job[n][t]
    BY <2>3 DEF TypeInv
  <2>6. \A n \in Manager, t \in Task : job'[n][t].at \in Decided => job'[n][t].result \in Terminal
    BY <2>1, <2>5 DEF TypeInv
  <2>7. /\ pc' \in [Manager -> {"down", "top", "pick", "acquire", "wait", "done"}]
        /\ todo' \in [Manager -> SUBSET Task]
        /\ blocked' \in [Manager -> BOOLEAN] /\ spent' \in [Manager -> BOOLEAN]
        /\ crashes' \in 0..MaxCrashes
        /\ \A n \in Manager : pc'[n] = "acquire" => todo'[n] # {}
    BY <1>3, <1>0 DEF Crash, TypeInv
  <2> QED
    BY <1>t, <2>3, <2>4, <2>6, <2>7 DEF TypeInv
<1>4. ASSUME NEW m \in Manager, NEW t \in Task, JobStep(m, t) PROVE TypeInv'
  <2>1. PICK r \in Job : Moves(m, t, r)
    BY <1>4, JobStepMoves
  <2> QED
    BY <2>1, <1>t, JobUpdate DEF Moves, loop, TypeInv
<1>5. CASE Tick
  <2>1. \A t \in Task : [row[t] EXCEPT !.expires_at = IF @ > 0 THEN @ - 1 ELSE 0] \in Row
    <3> SUFFICES ASSUME NEW t \in Task PROVE [row[t] EXCEPT !.expires_at = IF @ > 0 THEN @ - 1 ELSE 0] \in Row
      OBVIOUS
    <3>1. row[t] \in Row
      BY DEF TypeInv
    <3> QED
      BY <3>1, <1>0 DEF Row
  <2> QED
    BY <1>5, <2>1, <1>t DEF Tick, loop, TypeInv
<1>6. CASE UNCHANGED vars
  BY <1>6, <1>t DEF vars, TypeInv
<1> QED
  BY <1>1, <1>2, <1>3, <1>4, <1>5, <1>6 DEF Next

LEMMA TypeAlways == Spec => []TypeInv
BY TypeInit, TypeStep, PTL DEF Spec

-----------------------------------------------------------------------------
(* Tokens.                                                                 *)

LEMMA OwnInit == Init => OwnInv
BY DEF Init, OwnInv, NoRow, NoJob, Task

LEMMA OwnStep == TypeInv /\ OwnInv /\ [Next]_vars => OwnInv'
<1> SUFFICES ASSUME TypeInv, OwnInv, [Next]_vars PROVE OwnInv'
  OBVIOUS
<1>t. dag' = dag => Task' = Task
  BY DEF Task
<1>r. \A u \in Task : row[u] \in Row
  BY DEF TypeInv
<1>j. \A n \in Manager, u \in Task : job[n][u] \in Job
  BY DEF TypeInv
<1>u. ASSUME UNCHANGED <<dag, row, job>> PROVE OwnInv'
  BY <1>u, <1>t DEF OwnInv
<1>1. ASSUME NEW m \in Manager, LoopStep(m) PROVE OwnInv'
  <2>1. CASE Start(m) \/ Top(m) \/ Peek(m) \/ EndPicks(m)
    BY <2>1, <1>u DEF Start, Top, Peek, EndPicks, store
  <2>2. CASE Acquire(m)
    <3> DEFINE t == Min(todo[m])
               token == SqlGrant(row[t], m, 0)
               r == SqlAcquire(row[t], m, 0, Ttl)
               j == [at |-> "begin", attempt |-> 1, token |-> token, result |-> "pending"]
    <3>1. t \in Task
      BY <2>2, DagFacts, MinIsMember DEF Acquire, TypeInv
    <3>2. dag' = dag
      BY <2>2 DEF Acquire
    <3>3. CASE UNCHANGED <<row, job>>
      BY <3>2, <3>3, <1>u
    <3>4. CASE row' = [row EXCEPT ![t] = r] /\ job' = [job EXCEPT ![m][t] = j]
      <4>1. row[t] \in Row /\ row[t].token = row[t].max_token
        BY <3>1, <1>r DEF OwnInv
      <4> HIDE DEF t
      <4>2. /\ r.owner = m /\ r.token = token /\ r.max_token = token
            /\ token \in Nat /\ row[t].max_token \in Nat
            /\ \/ token = row[t].max_token /\ row[t].owner = m
               \/ token = row[t].max_token + 1
        BY <4>1 DEF SqlAcquire, SqlGrant, Row
      <4>3. j.token = token /\ j.at # "none"
        OBVIOUS
      <4> HIDE DEF r, j, token
      <4>4. /\ \A u \in Task : row'[u] = IF u = t THEN r ELSE row[u]
            /\ \A n \in Manager, u \in Task : job'[n][u] = IF n = m /\ u = t THEN j ELSE job[n][u]
        BY <3>4, <3>1 DEF TypeInv
      <4>5. \A u \in Task : row'[u].token = row'[u].max_token
        BY <4>2, <4>4 DEF OwnInv
      <4>6. ASSUME NEW n \in Manager, NEW u \in Task, job'[n][u].at # "none"
            PROVE  /\ job'[n][u].token <= row'[u].max_token
                   /\ job'[n][u].token = row'[u].max_token => row'[u].owner = n
        <5>1. CASE u # t
          BY <4>4, <4>6, <5>1 DEF OwnInv
        <5>2. CASE u = t /\ n = m
          BY <4>2, <4>3, <4>4, <5>2
        <5>3. CASE u = t /\ n # m
          <6>1. job[n][t] \in Job /\ job[n][t].at # "none" /\ job'[n][t] = job[n][t] /\ row'[t] = r
            BY <4>4, <4>6, <5>3, <1>j, <3>1
          <6>2. job[n][t].token \in Nat /\ job[n][t].token <= row[t].max_token
            BY <6>1, <3>1 DEF OwnInv, Job
          <6>3. job[n][t].token = row[t].max_token => row[t].owner = n
            BY <6>1, <3>1 DEF OwnInv
          <6> QED
            BY <6>1, <6>2, <6>3, <4>2, <5>3
        <5> QED
          BY <5>1, <5>2, <5>3
      <4> QED
        BY <4>5, <4>6, <3>2, <1>t DEF OwnInv
    <3> QED
      BY <2>2, <3>3, <3>4 DEF Acquire
  <2>3. CASE Collect(m)
    <3>1. \A n \in Manager, u \in Task : job'[n][u] = job[n][u] \/ job'[n][u] = NoJob
      <4>1. job' = [job EXCEPT ![m] = [t \in Task |-> IF t \in Finished(m) THEN NoJob ELSE job[m][t]]]
        BY <2>3 DEF Collect
      <4> QED
        BY <4>1 DEF TypeInv
    <3> QED
      BY <3>1, <2>3, <1>t DEF Collect, store, NoJob, OwnInv
  <2> QED
    BY <1>1, <2>1, <2>2, <2>3 DEF LoopStep
<1>2. ASSUME NEW m \in Manager, Spend(m) PROVE OwnInv'
  BY <1>2, <1>u DEF Spend, store
<1>3. ASSUME NEW m \in Manager, Crash(m) PROVE OwnInv'
  <2>1. \A n \in Manager, u \in Task : job'[n][u] = job[n][u] \/ job'[n][u] = NoJob
    BY <1>3 DEF Crash, TypeInv
  <2> QED
    BY <2>1, <1>3, <1>t DEF Crash, store, NoJob, OwnInv
<1>4. ASSUME NEW m \in Manager, NEW t \in Task, JobStep(m, t) PROVE OwnInv'
  <2>1. PICK r \in Job : Moves(m, t, r)
    BY <1>4, JobStepMoves
  <2>2. \A n \in Manager, u \in Task : job'[n][u] = IF n = m /\ u = t THEN r ELSE job[n][u]
    BY <2>1 DEF Moves, TypeInv
  <2>3. \A n \in Manager, u \in Task : job'[n][u].at # "none" =>
           job[n][u].at # "none" /\ job'[n][u].token = job[n][u].token
    BY <2>1, <2>2 DEF Moves
  <2>4. \A u \in Task : /\ row'[u].owner = row[u].owner /\ row'[u].token = row[u].token
                        /\ row'[u].max_token = row[u].max_token
    BY <2>1 DEF Moves
  <2> QED
    BY <2>1, <2>3, <2>4, <1>t DEF Moves, OwnInv
<1>5. CASE Tick
  <2>1. \A t \in Task : /\ row'[t].owner = row[t].owner /\ row'[t].token = row[t].token
                        /\ row'[t].max_token = row[t].max_token
    BY <1>5, <1>r DEF Tick, Row
  <2> QED
    BY <1>5, <2>1, <1>t DEF Tick, OwnInv
<1>6. CASE UNCHANGED vars
  BY <1>6, <1>u DEF vars
<1> QED
  BY <1>1, <1>2, <1>3, <1>4, <1>5, <1>6 DEF Next

\* However managers crash, restart under their old owner names, stall past their
\* leases and take tasks over: of those at work on a task at most one could still
\* write its outcome (SqliteLeaseStore.acquire and complete).
THEOREM OneRunner == Spec => []OneCurrentRunner
<1>1. Init => TypeInv /\ OwnInv
  BY TypeInit, OwnInit
<1>2. TypeInv /\ OwnInv /\ [Next]_vars => (TypeInv /\ OwnInv)'
  BY TypeStep, OwnStep
<1>3. TypeInv /\ OwnInv => OneCurrentRunner
  BY DEF OwnInv, OneCurrentRunner
<1> QED
  BY <1>1, <1>2, <1>3, PTL DEF Spec

-----------------------------------------------------------------------------
(* Barriers.                                                               *)

LEMMA EarnedGrows ==
  ASSUME dag \in Dags, NEW t \in Task, NEW ps, NEW qs, ps \subseteq qs, Earned(t, ps)
  PROVE  Earned(t, qs)
<1> DEFINE d == dag.deps[t]
<1>1. IsFiniteSet(d) /\ dag.k[t] \in Nat
  BY DagFacts, FS_Subset
<1> HIDE DEF d
<1>2. d \cap ps \in SUBSET (d \cap qs) /\ d \cap qs \in SUBSET d
  OBVIOUS
<1>3. IsFiniteSet(d \cap qs)
  BY <1>1, <1>2, FS_Subset
<1>4. /\ IsFiniteSet(d \cap ps) /\ Cardinality(d \cap ps) <= Cardinality(d \cap qs)
  BY <1>2, <1>3, FS_Subset
<1>5. Cardinality(d \cap ps) \in Nat /\ Cardinality(d \cap qs) \in Nat
  BY <1>3, <1>4, FS_CardinalityType
<1> QED
  BY <1>1, <1>4, <1>5 DEF Earned, d

\* What schedulable() returns has earned its barrier, if every task it counts as
\* passed did pass: readiness is asked after the dead dependencies, which alone
\* keep back a k_of_n task without dependencies.
LEMMA SchedulableEarned ==
  ASSUME dag \in Dags, NEW s \in [Task -> TaskState], NEW ps,
         \A u \in Task : s[u] = "passed" => u \in ps,
         NEW t \in schedulable(s)
  PROVE  t \in Task /\ Earned(t, ps)
<1> DEFINE v == Visited(s)[t]
           w == Visited(s)[t - 1]
           d == dag.deps[t]
<1>1. /\ t \in Task /\ v[t] = "pending" /\ _deps_ready(t, v)
  BY DEF schedulable
<1>2. /\ t \in 1..dag.n /\ t - 1 \in 0..dag.n /\ t \in 0..dag.n
  BY <1>1, DagFacts DEF Task
<1>3. v = Visit(t, w) /\ w \in [Task -> TaskState]
  BY <1>2, VisitedUnfolds, VisitedSkips
<1>4. \A u \in Task : v[u] = "passed" => u \in ps
  BY <1>2, VisitedSkips
<1> HIDE DEF v, w
<1>5. ~_dep_dead(t, v)
  BY <1>1, <1>3 DEF Visit
<1>6. d \subseteq Task /\ IsFiniteSet(d) /\ dag.k[t] \in Nat
  BY <1>1, DagFacts, FS_Subset
<1>7. dag.kind[t] = "all" => d \subseteq ps
  BY <1>1, <1>4, <1>6 DEF _deps_ready
<1>8. ASSUME dag.kind[t] = "k_of_n" PROVE Cardinality(d \cap ps) >= dag.k[t]
  <2>1. IsFiniteSet(d \cap ps) /\ Cardinality(d \cap ps) \in Nat
    BY <1>6, FS_Subset, FS_CardinalityType
  <2>2. CASE d = {}
    <3>1. CountIn(t, v, Dead) = 0 /\ Cardinality(d) = 0
      <4>1. {x \in d : v[x] \in Dead} = {}
        BY <2>2
      <4> QED
        BY <4>1, <2>2, FS_EmptySet DEF CountIn
    <3> QED
      BY <3>1, <1>5, <1>6, <1>8, <2>1 DEF _dep_dead
  <2>3. CASE d # {}
    <3> DEFINE good == {x \in d : v[x] \in {"passed"}}
    <3>1. Cardinality(good) >= dag.k[t]
      BY <1>1, <1>8, <2>3 DEF _deps_ready, CountIn
    <3>2. good \in SUBSET (d \cap ps)
      BY <1>4, <1>6
    <3> HIDE DEF good
    <3>3. Cardinality(good) <= Cardinality(d \cap ps) /\ IsFiniteSet(good)
      BY <2>1, <3>2, FS_Subset
    <3>4. Cardinality(good) \in Nat
      BY <3>3, FS_CardinalityType
    <3> QED
      BY <2>1, <3>1, <3>3, <3>4, <1>6
  <2> QED
    BY <2>2, <2>3
<1> QED
  BY <1>1, <1>7, <1>8 DEF Earned

LEMMA PassInit == Init => PassInv
BY DEF Init, PassInv, NoRow, NoJob, Decided, Task

LEMMA PassStep == TypeInv /\ PassInv /\ [Next]_vars => PassInv'
<1> SUFFICES ASSUME TypeInv, PassInv, [Next]_vars PROVE PassInv'
  OBVIOUS
<1>t. dag' = dag => Task' = Task
  BY DEF Task
<1>e. ASSUME dag' = dag, NEW t \in Task, Earned(t, proved), proved \subseteq proved' PROVE Earned(t, proved)'
  <2>1. Earned(t, proved')
    BY <1>e, EarnedGrows DEF TypeInv
  <2> QED
    BY <2>1, <1>e DEF Earned
<1>s. ASSUME dag' = dag, proved' = proved,
             \A n \in Manager : wal'[n] = wal[n],
             \A u \in Task : row'[u].outcome = row[u].outcome,
             \A n \in Manager, u \in Task :
               /\ state'[n][u] = "passed" => u \in proved
               /\ u \in todo'[n] => Earned(u, proved)
               /\ job'[n][u].at # "none" =>
                    \/ job'[n][u] = job[n][u]
                    \/ job'[n][u].at \notin Decided /\ Earned(u, proved)
      PROVE  PassInv'
  <2>1. Task' = Task
    BY <1>t, <1>s
  <2>2. \A u \in Task : Earned(u, proved) => Earned(u, proved)'
    BY <1>e, <1>s
  <2>3. \A n \in Manager, u \in Task :
          /\ job'[n][u].at \in Decided /\ job'[n][u].result = "passed" => u \in proved
          /\ job'[n][u].at # "none" => Earned(u, proved)
    BY <1>s DEF PassInv, Decided
  <2> QED
    BY <1>s, <2>1, <2>2, <2>3 DEF PassInv
<1>1. ASSUME NEW m \in Manager, LoopStep(m) PROVE PassInv'
  <2>1. CASE Start(m)
    <3>1. \A n \in Manager, u \in Task : state'[n][u] = "passed" => state[n][u] = "passed" \/ u \in wal[n]
      BY <2>1 DEF Start, TypeInv
    <3> QED
      BY <2>1, <3>1, <1>s DEF Start, store, PassInv
  <2>2. CASE Top(m)
    <3> DEFINE s == [t \in Task |-> IF spent[m] /\ state[m][t] = "pending" THEN "skipped" ELSE state[m][t]]
    <3>1. s \in [Task -> TaskState]
      BY TopTypes
    <3>2. \A u \in Task : s[u] = "passed" => u \in proved
      BY DEF PassInv
    <3>3. dag \in Dags /\ dag.n \in 0..dag.n
      BY DagFacts DEF TypeInv
    <3>4. /\ state' = [state EXCEPT ![m] = Visited(s)[dag.n]]
          /\ todo' = [todo EXCEPT ![m] = schedulable(s)]
      BY <2>2 DEF Top
    <3> HIDE DEF s
    <3>5. \A u \in Task : Visited(s)[dag.n][u] = "passed" => u \in proved
      BY <3>1, <3>2, <3>3, VisitedSkips
    <3>6. \A u \in schedulable(s) : Earned(u, proved)
      BY <3>1, <3>2, <3>3, SchedulableEarned
    <3>7. \A n \in Manager, u \in Task : /\ state'[n][u] = "passed" => u \in proved
                                         /\ u \in todo'[n] => Earned(u, proved)
      BY <3>4, <3>5, <3>6 DEF PassInv, TypeInv
    <3> QED
      BY <2>2, <3>7, <1>s DEF Top, store
  <2>3. CASE Peek(m)
    <3> DEFINE t == Min(todo[m])
    <3>1. t \in Task
      BY <2>3, DagFacts, MinIsMember DEF Peek, MorePicks, TypeInv
    <3>2. CASE row[t].outcome # NoOutcome
      <4>1. /\ state' = [state EXCEPT ![m][t] = row[t].outcome]
            /\ todo' = [todo EXCEPT ![m] = @ \ {t}]
        BY <2>3, <3>2 DEF Peek
      <4>2. row[t].outcome = "passed" => t \in proved
        BY <3>1, <3>2 DEF PassInv
      <4> HIDE DEF t
      <4>3. \A n \in Manager, u \in Task : /\ state'[n][u] = "passed" => u \in proved
                                           /\ u \in todo'[n] => u \in todo[n]
        BY <3>1, <4>1, <4>2 DEF PassInv, TypeInv
      <4> QED
        BY <2>3, <4>3, <1>s DEF Peek, store, PassInv
    <3>3. CASE row[t].outcome = NoOutcome
      BY <2>3, <3>3, <1>s DEF Peek, store, PassInv
    <3> QED
      BY <3>2, <3>3
  <2>4. CASE Acquire(m)
    <3> DEFINE t == Min(todo[m])
               r == SqlAcquire(row[t], m, 0, Ttl)
               j == [at |-> "begin", attempt |-> 1, token |-> SqlGrant(row[t], m, 0), result |-> "pending"]
    <3>1. t \in Task /\ t \in todo[m]
      BY <2>4, DagFacts, MinIsMember DEF Acquire, TypeInv
    <3>2. r.outcome = row[t].outcome /\ j.at = "begin"
      BY DEF SqlAcquire
    <3>3. Earned(t, proved)
      BY <3>1 DEF PassInv
    <3>4. \/ UNCHANGED <<row, state, job>>
          \/ /\ row' = [row EXCEPT ![t] = r] /\ job' = [job EXCEPT ![m][t] = j]
             /\ state' = [state EXCEPT ![m][t] = "running"]
      BY <2>4 DEF Acquire
    <3>5. todo' = [todo EXCEPT ![m] = @ \ {t}]
      BY <2>4 DEF Acquire
    <3> HIDE DEF t, r, j
    <3>6. /\ \A u \in Task : row'[u].outcome = row[u].outcome
          /\ \A n \in Manager, u \in Task : /\ job'[n][u] = job[n][u] \/ (u = t /\ job'[n][u] = j)
                                            /\ state'[n][u] = "passed" => state[n][u] = "passed"
      <4>1. CASE UNCHANGED <<row, state, job>>
        BY <4>1
      <4>2. CASE /\ row' = [row EXCEPT ![t] = r] /\ job' = [job EXCEPT ![m][t] = j]
                 /\ state' = [state EXCEPT ![m][t] = "running"]
        <5>1. \A u \in Task : row'[u].outcome = row[u].outcome
          BY <3>1, <3>2, <4>2 DEF TypeInv
        <5>2. \A n \in Manager, u \in Task : job'[n][u] = job[n][u] \/ (u = t /\ job'[n][u] = j)
          BY <3>1, <4>2 DEF TypeInv
        <5>3. \A n \in Manager, u \in Task : state'[n][u] = "passed" => state[n][u] = "passed"
          BY <3>1, <4>2 DEF TypeInv
        <5> QED
          BY <5>1, <5>2, <5>3
      <4> QED
        BY <3>4, <4>1, <4>2
    <3>7. \A n \in Manager : todo'[n] \subseteq todo[n]
      BY <3>5 DEF TypeInv
    <3> QED
      BY <2>4, <3>2, <3>3, <3>6, <3>7, <1>s DEF Acquire, PassInv, Decided
  <2>5. CASE EndPicks(m)
    BY <2>5, <1>s DEF EndPicks, store, PassInv
  <2>6. CASE Collect(m)
    <3>1. /\ state' = [state EXCEPT ![m] = [t \in Task |-> IF t \in Finished(m) THEN job[m][t].result ELSE state[m][t]]]
          /\ job' = [job EXCEPT ![m] = [t \in Task |-> IF t \in Finished(m) THEN NoJob ELSE job[m][t]]]
      BY <2>6 DEF Collect
    <3>2. \A n \in Manager, u \in Task :
            /\ \/ state'[n][u] = state[n][u]
               \/ job[n][u].at \in Decided /\ state'[n][u] = job[n][u].result
            /\ job'[n][u] = job[n][u] \/ job'[n][u] = NoJob
      BY <3>1 DEF TypeInv, Finished, Decided
    <3>3. \A n \in Manager, u \in Task : state'[n][u] = "passed" => u \in proved
      BY <3>2 DEF PassInv
    <3>4. UNCHANGED <<dag, row, wal, todo, proved>>
      BY <2>6 DEF Collect, store
    <3>5. NoJob.at = "none"
      BY DEF NoJob
    <3>6. \A n \in Manager, u \in Task : u \in todo'[n] => Earned(u, proved)
      BY <3>4 DEF PassInv
    <3> QED
      BY <3>2, <3>3, <3>4, <3>5, <3>6, <1>s
  <2> QED
    BY <1>1, <2>1, <2>2, <2>3, <2>4, <2>5, <2>6 DEF LoopStep
<1>2. ASSUME NEW m \in Manager, Spend(m) PROVE PassInv'
  BY <1>2, <1>s DEF Spend, store, loop, PassInv
<1>3. ASSUME NEW m \in Manager, Crash(m) PROVE PassInv'
  <2>1. \A n \in Manager, u \in Task :
          /\ state'[n][u] = state[n][u] \/ state'[n][u] = "pending"
          /\ job'[n][u] = job[n][u] \/ job'[n][u] = NoJob
          /\ u \in todo'[n] => u \in todo[n]
    BY <1>3 DEF Crash, TypeInv
  <2> QED
    BY <1>3, <2>1, <1>s DEF Crash, store, PassInv, NoJob
<1>4. ASSUME NEW m \in Manager, NEW t \in Task, JobStep(m, t) PROVE PassInv'
  <2>1. PICK r \in Job : Moves(m, t, r)
    BY <1>4, JobStepMoves
  <2>2. /\ dag' = dag /\ proved \subseteq proved' /\ UNCHANGED <<state, todo>> /\ Task' = Task
    BY <2>1, <1>t DEF Moves, loop
  <2>3. \A n \in Manager, u \in Task : job'[n][u] = IF n = m /\ u = t THEN r ELSE job[n][u]
    BY <2>1 DEF Moves, TypeInv
  <2>4. \A u \in Task : Earned(u, proved) => Earned(u, proved)'
    BY <1>e, <2>2
  <2>5. job[m][t].at \in Decided /\ job[m][t].result = "passed" => t \in proved'
    BY <2>2 DEF PassInv
  <2>6. r.at \in Decided /\ r.result = "passed" => t \in proved'
    BY <2>1, <2>2, <2>5 DEF Moves, PassInv
  <2>7. job[m][t].at # "none"
    BY <2>1 DEF Moves
  <2>8. \A n \in Manager : wal'[n] \subseteq proved'
    BY <2>1, <2>2, <2>5 DEF Moves, PassInv
  <2>9. \A u \in Task : row'[u].outcome = "passed" /\ NoOutcome # "passed" => u \in proved'
    BY <2>1, <2>2, <2>5 DEF Moves, PassInv
  <2>10. \A n \in Manager, u \in Task :
           /\ state'[n][u] = "passed" => u \in proved'
           /\ job'[n][u].at \in Decided /\ job'[n][u].result = "passed" => u \in proved'
           /\ u \in todo'[n] \/ job'[n][u].at # "none" => Earned(u, proved)'
    BY <2>2, <2>3, <2>4, <2>6, <2>7 DEF PassInv
  <2> QED
    BY <2>2, <2>8, <2>9, <2>10 DEF PassInv
<1>5. CASE Tick
  <2>1. \A u \in Task : row'[u].outcome = row[u].outcome
    BY <1>5 DEF Tick, TypeInv, Row
  <2> QED
    BY <1>5, <2>1, <1>s DEF Tick, loop, PassInv
<1>6. CASE UNCHANGED vars
  BY <1>6, <1>s DEF vars, PassInv
<1> QED
  BY <1>1, <1>2, <1>3, <1>4, <1>5, <1>6 DEF Next

\* For any DAG, barriers, retries, budgets, crashes and peers: a task is at work
\* only after real passes of what its barrier asks for, although managers learn of
\* passes from the store, from their WALs and from outcomes they adopt
\* (Scheduler.run, schedulable, _run_one, _commit).
THEOREM BarriersHold == Spec => []BarrierHolds
<1>1. Init => TypeInv /\ PassInv
  BY TypeInit, PassInit
<1>2. TypeInv /\ PassInv /\ [Next]_vars => (TypeInv /\ PassInv)'
  BY TypeStep, PassStep
<1>3. TypeInv /\ PassInv => BarrierHolds
  BY DEF PassInv, Earned, BarrierHolds
<1> QED
  BY <1>1, <1>2, <1>3, PTL DEF Spec

-----------------------------------------------------------------------------
(* Resumption.                                                             *)

\* A task at work is "running" and not tried again; one in the WAL is not tried,
\* and its coroutine, while it is there, has passed.
ResumeInv ==
  \A m \in Manager, t \in Task :
    /\ job[m][t].at # "none" => state[m][t] = "running" /\ t \notin todo[m]
    /\ pc[m] = "down" => job[m][t].at = "none" /\ todo[m] = {}
    /\ t \in wal[m] =>
         /\ job[m][t].at \in {"none", "finished"} /\ t \notin todo[m]
         /\ job[m][t].at = "finished" => job[m][t].result = "passed"
         /\ job[m][t].at = "none" /\ pc[m] # "down" => state[m][t] = "passed"

LEMMA ResumeInit == Init => ResumeInv
BY DEF Init, ResumeInv, NoJob, Task

LEMMA ResumeStep == TypeInv /\ ResumeInv /\ [Next]_vars => ResumeInv'
<1> SUFFICES ASSUME TypeInv, ResumeInv, [Next]_vars PROVE ResumeInv'
  OBVIOUS
<1>t. dag' = dag => Task' = Task
  BY DEF Task
<1>n. NoJob.at = "none"
  BY DEF NoJob
<1>1. ASSUME NEW m \in Manager, LoopStep(m) PROVE ResumeInv'
  <2>1. CASE Start(m)
    <3>1. /\ UNCHANGED <<dag, row, wal, todo, job>> /\ pc[m] = "down"
          /\ state' = [state EXCEPT ![m] = [t \in Task |-> IF t \in wal[m] THEN "passed" ELSE "pending"]]
          /\ pc' = [pc EXCEPT ![m] = "top"]
      BY <2>1 DEF Start, store
    <3>2. /\ \A t \in Task : t \in wal[m] => state'[m][t] = "passed"
          /\ \A n \in Manager \ {m} : state'[n] = state[n] /\ pc'[n] = pc[n]
          /\ pc'[m] = "top"
      BY <3>1 DEF TypeInv
    <3> QED
      BY <3>1, <3>2, <1>t DEF ResumeInv
  <2>2. CASE Top(m)
    <3> DEFINE s == [t \in Task |-> IF spent[m] /\ state[m][t] = "pending" THEN "skipped" ELSE state[m][t]]
    <3>1. s \in [Task -> TaskState]
      BY TopTypes
    <3>2. \A u \in Task : s[u] = state[m][u] \/ state[m][u] = "pending"
      OBVIOUS
    <3>3. dag \in Dags /\ dag.n \in 0..dag.n
      BY DagFacts DEF TypeInv
    <3>4. /\ state' = [state EXCEPT ![m] = Visited(s)[dag.n]]
          /\ todo' = [todo EXCEPT ![m] = schedulable(s)]
          /\ pc' = [pc EXCEPT ![m] = "pick"] /\ pc[m] = "top"
          /\ UNCHANGED <<dag, wal, job>>
      BY <2>2 DEF Top, store
    <3> HIDE DEF s
    <3>5. \A u \in Task : s[u] # "pending" => Visited(s)[dag.n][u] = s[u]
      BY <3>1, <3>3, VisitedSkips
    <3>6. \A u \in schedulable(s) : s[u] = "pending"
      <4> SUFFICES ASSUME NEW u \in schedulable(s) PROVE s[u] = "pending"
        OBVIOUS
      <4>1. u \in Task /\ Visited(s)[u][u] = "pending"
        BY DEF schedulable
      <4>2. u \in 0..dag.n
        BY <4>1, <3>3, DagFacts DEF Task
      <4> QED
        BY <4>1, <4>2, <3>1, <3>3, VisitedSkips
    <3>7. /\ \A u \in Task : state[m][u] # "pending" => state'[m][u] = state[m][u] /\ u \notin todo'[m]
          /\ \A n \in Manager \ {m} : state'[n] = state[n] /\ todo'[n] = todo[n] /\ pc'[n] = pc[n]
          /\ pc'[m] = "pick"
      BY <3>2, <3>4, <3>5, <3>6 DEF TypeInv
    <3> QED
      BY <3>4, <3>7, <1>t DEF ResumeInv
  <2>3. CASE Peek(m)
    <3> DEFINE t == Min(todo[m])
    <3>1. t \in todo[m] /\ t \in Task
      BY <2>3, DagFacts, MinIsMember DEF Peek, MorePicks, TypeInv
    <3>2. UNCHANGED <<dag, wal, job>> /\ pc[m] = "pick"
      BY <2>3 DEF Peek, store
    <3>3. \/ UNCHANGED pc /\ state' = [state EXCEPT ![m][t] = row[t].outcome] /\ todo' = [todo EXCEPT ![m] = @ \ {t}]
          \/ pc' = [pc EXCEPT ![m] = "acquire"] /\ UNCHANGED <<state, todo>>
      BY <2>3 DEF Peek
    <3> HIDE DEF t
    <3>4. /\ \A n \in Manager, u \in Task : state'[n][u] = state[n][u] \/ (n = m /\ u = t)
          /\ \A n \in Manager : todo'[n] \subseteq todo[n]
          /\ \A n \in Manager : pc'[n] = "down" <=> pc[n] = "down"
      <4>1. CASE UNCHANGED pc /\ state' = [state EXCEPT ![m][t] = row[t].outcome]
                 /\ todo' = [todo EXCEPT ![m] = @ \ {t}]
        BY <3>1, <4>1 DEF TypeInv
      <4>2. CASE pc' = [pc EXCEPT ![m] = "acquire"] /\ UNCHANGED <<state, todo>>
        BY <3>2, <4>2 DEF TypeInv
      <4> QED
        BY <3>3, <4>1, <4>2
    <3> QED
      BY <3>1, <3>2, <3>4, <1>t DEF ResumeInv
  <2>4. CASE Acquire(m)
    <3> DEFINE t == Min(todo[m])
               j == [at |-> "begin", attempt |-> 1, token |-> SqlGrant(row[t], m, 0), result |-> "pending"]
    <3>1. t \in todo[m] /\ t \in Task
      BY <2>4, DagFacts, MinIsMember DEF Acquire, TypeInv
    <3>2. UNCHANGED <<dag, wal>> /\ pc[m] = "acquire" /\ pc' = [pc EXCEPT ![m] = "pick"]
          /\ todo' = [todo EXCEPT ![m] = @ \ {t}]
      BY <2>4 DEF Acquire
    <3>3. \/ UNCHANGED <<state, job>>
          \/ state' = [state EXCEPT ![m][t] = "running"] /\ job' = [job EXCEPT ![m][t] = j]
      BY <2>4 DEF Acquire
    <3> HIDE DEF t, j
    <3>4. /\ t \notin todo'[m] /\ \A n \in Manager : todo'[n] \subseteq todo[n]
          /\ \A n \in Manager : pc'[n] = "down" <=> pc[n] = "down"
      BY <3>2 DEF TypeInv
    <3>5. \A n \in Manager, u \in Task :
            \/ state'[n][u] = state[n][u] /\ job'[n][u] = job[n][u]
            \/ n = m /\ u = t /\ state'[n][u] = "running"
      <4>1. CASE UNCHANGED <<state, job>>
        BY <4>1
      <4>2. CASE state' = [state EXCEPT ![m][t] = "running"] /\ job' = [job EXCEPT ![m][t] = j]
        BY <4>2, <3>1 DEF TypeInv
      <4> QED
        BY <3>3, <4>1, <4>2
    <3>6. t \notin wal[m] /\ pc[m] # "down"
      BY <3>1, <3>2 DEF ResumeInv
    <3> QED
      BY <3>1, <3>2, <3>4, <3>5, <3>6, <1>t DEF ResumeInv
  <2>5. CASE EndPicks(m)
    <3>1. UNCHANGED <<dag, wal, state, todo, job>>
      BY <2>5 DEF EndPicks, store
    <3>2. \A n \in Manager : pc'[n] = "down" <=> pc[n] = "down"
      BY <2>5 DEF EndPicks, TypeInv
    <3> QED
      BY <3>1, <3>2, <1>t DEF ResumeInv
  <2>6. CASE Collect(m)
    <3>1. /\ state' = [state EXCEPT ![m] = [t \in Task |-> IF t \in Finished(m) THEN job[m][t].result ELSE state[m][t]]]
          /\ job' = [job EXCEPT ![m] = [t \in Task |-> IF t \in Finished(m) THEN NoJob ELSE job[m][t]]]
          /\ UNCHANGED <<dag, wal, todo>> /\ pc[m] = "wait" /\ pc' = [pc EXCEPT ![m] = "top"]
      BY <2>6 DEF Collect, store
    <3>2. \A n \in Manager, u \in Task :
            \/ state'[n][u] = state[n][u] /\ job'[n][u] = job[n][u]
            \/ job[n][u].at = "finished" /\ job'[n][u] = NoJob /\ state'[n][u] = job[n][u].result
      BY <3>1 DEF TypeInv, Finished
    <3>3. \A n \in Manager : pc'[n] = "down" <=> pc[n] = "down"
      BY <3>1 DEF TypeInv
    <3> QED
      BY <3>1, <3>2, <3>3, <1>t, <1>n DEF ResumeInv
  <2> QED
    BY <1>1, <2>1, <2>2, <2>3, <2>4, <2>5, <2>6 DEF LoopStep
<1>2. ASSUME NEW m \in Manager, Spend(m) PROVE ResumeInv'
  BY <1>2, <1>t DEF Spend, store, loop, ResumeInv
<1>3. ASSUME NEW m \in Manager, Crash(m) PROVE ResumeInv'
  <2>1. /\ UNCHANGED <<dag, wal>>
        /\ \A u \in Task : job'[m][u].at = "none"
        /\ todo'[m] = {} /\ pc'[m] = "down"
        /\ \A n \in Manager \ {m} : /\ state'[n] = state[n] /\ todo'[n] = todo[n]
                                    /\ pc'[n] = pc[n] /\ job'[n] = job[n]
    BY <1>3, <1>n DEF Crash, store, TypeInv
  <2> QED
    BY <2>1, <1>t DEF ResumeInv
<1>4. ASSUME NEW m \in Manager, NEW t \in Task, JobStep(m, t) PROVE ResumeInv'
  <2>1. PICK r \in Job : Moves(m, t, r)
    BY <1>4, JobStepMoves
  <2>2. UNCHANGED <<dag, pc, state, todo>> /\ Task' = Task /\ job[m][t].at # "none" /\ r.at # "none"
    BY <2>1, <1>t DEF Moves, loop
  <2>3. \A n \in Manager, u \in Task : job'[n][u] = IF n = m /\ u = t THEN r ELSE job[n][u]
    BY <2>1 DEF Moves, TypeInv
  <2>4. /\ t \notin wal[m] /\ \A n \in Manager \ {m} : wal'[n] = wal[n]
        /\ wal'[m] = wal[m] \/ (wal'[m] = wal[m] \union {t} /\ r.at = "finished" /\ r.result = "passed")
    <3>1. CASE _wal(m, t)
      <4>1. job[m][t].at = "wal"
        BY <3>1 DEF _wal, CanRun
      <4>2. t \notin wal[m]
        BY <4>1 DEF ResumeInv
      <4>3. r = [job[m][t] EXCEPT !.at = "finished"]
        <5>1. job' = [job EXCEPT ![m][t] = [@ EXCEPT !.at = "finished"]]
          BY <3>1 DEF _wal
        <5>2. job'[m][t] = [job[m][t] EXCEPT !.at = "finished"]
          BY <5>1 DEF TypeInv
        <5> QED
          BY <2>3, <5>2
      <4>4. job[m][t] \in Job
        BY DEF TypeInv
      <4>5. r.at = "finished" /\ r.result = job[m][t].result
        BY <4>3, <4>4, JobAt DEF JobIs
      <4> QED
        BY <3>1, <4>2, <4>5 DEF _wal, TypeInv
    <3>2. CASE Begin(m, t) \/ WorkerPass(m, t) \/ WorkerFail(m, t) \/ _commit(m, t) \/ Adopt(m, t)
      <4>1. wal' = wal /\ job[m][t].at \notin {"none", "finished"}
        BY <3>2 DEF Begin, WorkerPass, WorkerFail, _commit, Adopt, CanRun, store
      <4> QED
        BY <4>1 DEF ResumeInv
    <3> QED
      BY <1>4, <3>1, <3>2 DEF JobStep
  <2> QED
    BY <2>2, <2>3, <2>4 DEF ResumeInv
<1>5. CASE Tick
  BY <1>5, <1>t DEF Tick, loop, ResumeInv
<1>6. CASE UNCHANGED vars
  BY <1>6, <1>t DEF vars, ResumeInv
<1> QED
  BY <1>1, <1>2, <1>3, <1>4, <1>5, <1>6 DEF Next

\* "an interrupted run RESUMES without re-doing passed tasks": whatever a manager
\* has a pass for in its WAL it never runs again, in this life or a later one
\* (Scheduler._resume_passed, run).
THEOREM ResumesWithoutRedoing == Spec => []NoRedo
<1>1. Init => TypeInv /\ ResumeInv
  BY TypeInit, ResumeInit
<1>2. TypeInv /\ ResumeInv /\ [Next]_vars => (TypeInv /\ ResumeInv)'
  BY TypeStep, ResumeStep
<1>3. TypeInv /\ ResumeInv => NoRedo
  BY DEF TypeInv, ResumeInv, NoRedo
<1> QED
  BY <1>1, <1>2, <1>3, PTL DEF Spec
=============================================================================
