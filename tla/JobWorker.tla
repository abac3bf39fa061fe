------------------------------ MODULE JobWorker ------------------------------
(***************************************************************************)
(* jobs/worker.py over the queue of jobs/queue.py: workers that claim a    *)
(* job, run its handler under a heartbeat and report the result.  A grade  *)
(* job (media_grade, provenance_grade) records one decision per artifact   *)
(* in the tenant's pilot log and enqueues a webhook job about it; a        *)
(* webhook job delivers its event.  Every call of the queue, of the log or *)
(* of the receiver is a step of its own, and a worker may die between any  *)
(* two of them or be overtaken when its lease ends.  Decisions about the   *)
(* same artifacts also arrive over HTTP.                                   *)
(***************************************************************************)
EXTENDS JobTable

CONSTANTS Artifact,
          GradeTries, WebhookTries,   \* max_attempts of the two kinds of job
          Http,                       \* stands for a decision no job made
          MaxRequests, MaxCrashes     \* bounds of the model

GradeBody == [kind : {"grade"}, artifact : Artifact, notify : BOOLEAN]
WebhookBody == [kind : {"webhook"}, about : Id]
NotifyKey(i, n) == <<i, n>>    \* internal:notify:{job.id}:{job.attempts}

ASSUME WorkerAssumption ==
  /\ Body = GradeBody \union WebhookBody
  /\ \A i \in Id, n \in 1..MAX_ATTEMPTS_CAP : NotifyKey(i, n) \in Key
  /\ GradeTries \in Int /\ WebhookTries \in Int
  /\ MaxJobs > 0 /\ MaxRequests \in Nat /\ MaxCrashes \in Nat
  /\ None \notin Id /\ Http \notin Id \union {None}

Entry == Tenant \X Artifact    \* every tenant has a log of its own

VARIABLES worker,       \* [Owner -> what the worker is at]
          decision,     \* [Entry -> the job whose decision is in the log]
          archived,     \* entries that were moved to a segment of the log
          announced,    \* history: keys of the webhook jobs ever enqueued
          delivered,    \* history: jobs whose decision a receiver was told
          submitted, crashes

workerVars == <<jobs, worker, decision, archived, announced, delivered, submitted, crashes>>
log == <<decision, archived>>
bounds == <<submitted, crashes>>

Idle == [at |-> "idle", claim |-> Claim(1, None, 0), body |-> None, tenant |-> None,
         error |-> "none"]
At(o) == worker[o].at
Held(o) == worker[o].claim

WorkerInit ==
  /\ jobs = [i \in Id |-> NoRow("none")]
  /\ worker = [o \in Owner |-> Idle]
  /\ decision = [e \in Entry |-> None]
  /\ archived = {}
  /\ announced = {} /\ delivered = {}
  /\ submitted = 0 /\ crashes = 0

\* A requester enqueues a grade job, without a dedupe key.
Submit(tn, b) ==
  /\ submitted < MaxRequests
  /\ submitted' = submitted + 1
  /\ \E i \in Id : /\ Fresh(jobs, i)
                   /\ EnqueueRequest(jobs, jobs', i, tn, b, None, GradeTries, 0)
  /\ UNCHANGED <<worker, log, announced, delivered, crashes>>

\* run_once, up to the call of the handler.  What the handler knows of the
\* job is the copy of the row it was given.
Take(o) ==
  LET T == Reap(jobs) IN
  /\ At(o) = "idle"
  /\ \E i \in Id :
       /\ First(T, i)
       /\ jobs' = Lent(T, i, o)
       /\ worker' = [worker EXCEPT ![o] =
            [at |-> T[i].body.kind, claim |-> Claim(i, o, T[i].attempts + 1),
             body |-> T[i].body, tenant |-> T[i].tenant, error |-> "none"]]
  /\ UNCHANGED <<log, announced, delivered, bounds>>

\* A claim that finds nothing runnable still reaps.
TakeNothing(o) ==
  /\ At(o) = "idle" /\ Runnable(Reap(jobs)) = {} /\ Reap(jobs) # jobs
  /\ jobs' = Reap(jobs)
  /\ UNCHANGED <<worker, log, announced, delivered, bounds>>

InHandler(o) == At(o) \in {"grade", "decided", "webhook"}

\* The heartbeat thread; on LeaseLost it stops and the handler runs on.
Beat(o) ==
  /\ InHandler(o) /\ _fenced(jobs, Held(o))
  /\ jobs' = Beaten(jobs, Held(o))
  /\ UNCHANGED <<worker, log, announced, delivered, bounds>>

Goto(o, at) == worker' = [worker EXCEPT ![o].at = at]
Raise(o, e) == worker' = [worker EXCEPT ![o].at = "failing", ![o].error = e]

\* Grading fails, the log or the queue is unavailable, the receiver answers
\* with an error: a PermanentError or any other exception.
HandlerFails(o) ==
  /\ InHandler(o)
  /\ \E e \in {"permanent", "transient"} :
       /\ At(o) = "decided" => e = "transient"
       /\ Raise(o, e)
  /\ UNCHANGED <<jobs, log, announced, delivered, bounds>>

\* Is there a decision under this id?  append_if_absent looks into the live
\* records and into the index of the archived ones.
Decided(e) == decision[e] # None

\* run_pilot(unique=True): append the decision, recognise our own, or refuse.
\* A decision that was archived is known to exist but is not read back.
Decide(o) ==
  LET e == <<worker[o].tenant, worker[o].body.artifact>>
      i == Held(o).id
  IN /\ At(o) = "grade"
     /\ \/ /\ ~Decided(e)
           /\ decision' = [decision EXCEPT ![e] = i]
           /\ Goto(o, "decided")
        \/ /\ Decided(e) /\ e \notin archived /\ decision[e] = i
           /\ Goto(o, "decided")
           /\ UNCHANGED decision
        \/ /\ Decided(e) /\ (e \in archived \/ decision[e] # i)
           /\ Raise(o, "duplicate")
           /\ UNCHANGED decision
     /\ UNCHANGED <<jobs, archived, announced, delivered, bounds>>

\* Mutant: the event is queued before the decision is recorded.
NotifyFirst(o) ==
  LET k == NotifyKey(Held(o).id, Held(o).attempts) IN
  /\ At(o) \in {"grade", "decided"}
  /\ IF worker[o].body.notify /\ ~HasKey(jobs, worker[o].tenant, k)
     THEN /\ \E i \in Id :
               /\ Fresh(jobs, i)
               /\ jobs' = EnqueueInternal(jobs, i, worker[o].tenant,
                    [kind |-> "webhook", about |-> Held(o).id], k, WebhookTries)
          /\ announced' = announced \union {k}
     ELSE UNCHANGED <<jobs, announced>>
  /\ IF At(o) = "decided" THEN Goto(o, "finish") ELSE UNCHANGED worker
  /\ UNCHANGED <<log, delivered, bounds>>

\* The end of _finish: the webhook job, once per attempt.
Notify(o) ==
  LET k == NotifyKey(Held(o).id, Held(o).attempts)
      tn == worker[o].tenant
  IN /\ At(o) = "decided"
     /\ IF worker[o].body.notify /\ ~HasKey(jobs, tn, k)
        THEN /\ \E i \in Id :
                  /\ Fresh(jobs, i)
                  /\ jobs' = EnqueueInternal(jobs, i, tn,
                       [kind |-> "webhook", about |-> Held(o).id], k, WebhookTries)
             /\ announced' = announced \union {k}
        ELSE UNCHANGED <<jobs, announced>>
     /\ Goto(o, "finish")
     /\ UNCHANGED <<log, delivered, bounds>>

\* deliver(): the receiver has the event, whatever becomes of the worker.
Deliver(o) ==
  /\ At(o) = "webhook"
  /\ delivered' = delivered \union {worker[o].body.about}
  /\ Goto(o, "finish")
  /\ UNCHANGED <<jobs, log, announced, bounds>>

\* complete(); LeaseLost is logged and forgotten.
Finish(o) ==
  /\ At(o) = "finish"
  /\ jobs' = IF _fenced(jobs, Held(o)) THEN Completed(jobs, Held(o)) ELSE jobs
  /\ worker' = [worker EXCEPT ![o] = Idle]
  /\ UNCHANGED <<log, announced, delivered, bounds>>

\* complete() raises a database error: treated like a failed handler.
FinishFails(o) ==
  /\ At(o) = "finish"
  /\ Raise(o, "transient")
  /\ UNCHANGED <<jobs, log, announced, delivered, bounds>>

\* _fail(); LeaseLost is swallowed.
_fail(o) ==
  /\ At(o) = "failing"
  /\ jobs' = IF _fenced(jobs, Held(o))
             THEN Failed(jobs, Held(o), worker[o].error # "transient") ELSE jobs
  /\ worker' = [worker EXCEPT ![o] = Idle]
  /\ UNCHANGED <<log, announced, delivered, bounds>>

\* The process dies and is started again under its worker id.
Crash(o) ==
  /\ At(o) # "idle" /\ crashes < MaxCrashes
  /\ crashes' = crashes + 1
  /\ worker' = [worker EXCEPT ![o] = Idle]
  /\ UNCHANGED <<jobs, log, announced, delivered, submitted>>

\* POST /v1/pilot/record: unique in the same way.
Record(e) ==
  /\ ~Decided(e)
  /\ decision' = [decision EXCEPT ![e] = Http]
  /\ UNCHANGED <<jobs, worker, archived, announced, delivered, bounds>>

\* verel pilot archive moves old decisions out of the live log.
Archive(e) ==
  /\ decision[e] # None
  /\ archived' = archived \union {e}
  /\ UNCHANGED <<jobs, worker, decision, announced, delivered, bounds>>

Purge ==
  /\ jobs' = Purged(jobs)
  /\ UNCHANGED <<worker, log, announced, delivered, bounds>>

WorkerTick ==
  /\ jobs' = Later(jobs)
  /\ UNCHANGED <<worker, log, announced, delivered, bounds>>

Work(o) == Take(o) \/ TakeNothing(o) \/ Decide(o) \/ Notify(o) \/ Deliver(o) \/ Finish(o) \/ _fail(o)

WorkerNext ==
  \/ \E tn \in Tenant, b \in GradeBody : Submit(tn, b)
  \/ \E o \in Owner : Work(o) \/ Beat(o) \/ HandlerFails(o) \/ FinishFails(o) \/ Crash(o)
  \/ \E e \in Entry : Record(e) \/ Archive(e)
  \/ Purge
  \/ WorkerTick

WorkerSpec == WorkerInit /\ [][WorkerNext]_workerVars

\* A worker that is alive goes on, and time passes.  Nothing is assumed of
\* the heartbeat: if it stops the job is taken back.
WorkerFairSpec == WorkerSpec /\ (\A o \in Owner : WF_workerVars(Work(o))) /\ WF_workerVars(WorkerTick)
-----------------------------------------------------------------------------
Activity ==
  [at : {"idle", "grade", "decided", "webhook", "finish", "failing"},
   claim : [id : Id, lease_owner : Owner \union {None}, attempts : 0..MAX_ATTEMPTS_CAP],
   body : Body \union {None}, tenant : Tenant \union {None},
   error : {"none", "permanent", "transient", "duplicate"}]

WorkerTypeOK ==
  /\ jobs \in [Id -> Row]
  /\ worker \in [Owner -> Activity]
  /\ decision \in [Entry -> Id \union {None, Http}]
  /\ archived \subseteq Entry /\ announced \subseteq Key /\ delivered \subseteq Id

\* A job is "done" only when its work is: a grade job's decision is in the log
\* under its own name and, if a sink was named, an event about it was queued;
\* a webhook job's event reached the receiver.  Whatever failed, was retried,
\* overtaken or lost in a crash on the way.
DoneIsEarned ==
  \A i \in Id : jobs[i].state = "done" =>
    LET b == jobs[i].body IN
    IF b.kind = "grade"
    THEN /\ decision[<<jobs[i].tenant, b.artifact>>] = i
         /\ b.notify => \E n \in 1..MAX_ATTEMPTS_CAP : NotifyKey(i, n) \in announced
    ELSE b.about \in delivered

\* No receiver is told of, and no event is queued about, a job whose decision
\* is not the one on record.
ToldIsDecided ==
  \A i \in Id :
    i \in delivered \/ (\E n \in 1..MAX_ATTEMPTS_CAP : NotifyKey(i, n) \in announced)
    => \E e \in Entry : decision[e] = i

\* Every accepted job, and every event it causes, ends (and is kept or
\* purged), through crashes, stalls and lost leases: the bounded supply of
\* jobs is used up, and no job is parked in "queued" or "running".
EveryJobEnds == []<>(\A i \in Id : jobs[i].state \notin Pending)

\* docs/connectors.md: "A job that names an artifact id that already has a
\* decision is refused, except for a retry of the same job".
OwnRetryAccepted ==
  \A o \in Owner :
    At(o) = "failing" /\ worker[o].error = "duplicate"
    => decision[<<worker[o].tenant, worker[o].body.artifact>>] # Held(o).id
-----------------------------------------------------------------------------
(* Values for the model checker: the bodies and the dedupe keys of jobs.   *)
Bodies == GradeBody \union WebhookBody
Keys == Id \X (1..MAX_ATTEMPTS_CAP)
=============================================================================
