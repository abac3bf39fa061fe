------------------------------ MODULE Operator ------------------------------
(***************************************************************************)
(* operator/handlers.py, GateRun: the create handler puts up an egress     *)
(* policy and a Job, the job-event handler mirrors the Job's end onto the  *)
(* GateRun.  One name in one namespace: the GateRun may be deleted and     *)
(* made again, somebody else may own a Job of the name, the cluster        *)
(* collects what belonged to a deleted GateRun in any order, the operator  *)
(* may die between two calls.  A handler's status goes out after it        *)
(* returns, to whatever has the name then.                                 *)
(***************************************************************************)
EXTENDS Integers, FiniteSets

CONSTANTS MaxRuns, MaxJobs, MaxDeaths    \* bounds: GateRuns made, Jobs made, deaths of the operator

ASSUME OperatorAssumption == MaxRuns \in Nat /\ MaxJobs \in Nat

VARIABLES run,       \* the GateRun: [uid, phase, verdict, jobUID]; uid 0: there is none
          job,       \* the Job of the name: [uid, owner, result]; owner 0: not the operator's
          policy,    \* the GateRun the policy belongs to, 0 when there is no policy
          create,    \* GateRun -> its create handler: [at, prior, jobUID]
          mirror,    \* Job -> the handler of its events: [at, result]
          ended,     \* history: the operator's Jobs that ended, with their GateRun
          counts       \* how many of each were made: [runs, jobs, deaths]

operatorVars == <<run, job, policy, create, mirror, ended, counts>>

NoRun == [uid |-> 0, phase |-> "none", verdict |-> "none", jobUID |-> 0]
NoneOf == [uid |-> 0, owner |-> 0, result |-> "running"]
NoHandler == [at |-> "none", prior |-> 0, jobUID |-> 0]
Quiet == [at |-> "idle", result |-> "running"]

OperatorInit ==
  /\ run = NoRun /\ job = NoneOf /\ policy = 0
  /\ create = [u \in 1..MaxRuns |-> NoHandler]
  /\ mirror = [j \in 1..MaxJobs |-> Quiet]
  /\ ended = {} /\ counts = [runs |-> 0, jobs |-> 0, deaths |-> 0]

-----------------------------------------------------------------------------
(* The cluster.                                                            *)

CreateRun ==
  /\ run = NoRun /\ counts.runs < MaxRuns
  /\ LET u == counts.runs + 1 IN
       /\ run' = [NoRun EXCEPT !.uid = u]
       /\ create' = [create EXCEPT ![u].at = "start"]
       /\ counts' = [counts EXCEPT !.runs = u]
  /\ UNCHANGED <<job, policy, mirror, ended>>

DeleteRun ==
  /\ run # NoRun /\ run' = NoRun
  /\ UNCHANGED <<job, policy, create, mirror, ended, counts>>

\* What belongs to a GateRun that is gone goes too, each thing in its own time;
\* an ended Job goes after ttlSecondsAfterFinished.
Collect ==
  /\ \/ job.owner \notin {0, run.uid} /\ job' = NoneOf /\ UNCHANGED policy
     \/ job # NoneOf /\ job.result # "running" /\ job' = NoneOf /\ UNCHANGED policy
     \/ policy \notin {0, run.uid} /\ policy' = 0 /\ UNCHANGED job
  /\ UNCHANGED <<run, create, mirror, ended, counts>>

NewJob(owner) ==
  /\ counts.jobs < MaxJobs
  /\ job' = [uid |-> counts.jobs + 1, owner |-> owner, result |-> "running"]
  /\ counts' = [counts EXCEPT !.jobs = @ + 1]

\* Somebody else takes the name, and the label.
OthersJob == job = NoneOf /\ NewJob(0) /\ UNCHANGED <<run, policy, create, mirror, ended>>

JobEnds ==
  /\ job # NoneOf /\ job.result = "running"
  /\ \E r \in {"succeeded", "failed"} :
       /\ job' = [job EXCEPT !.result = r]
       /\ ended' = IF job.owner = 0 THEN ended ELSE ended \cup {[run |-> job.owner, result |-> r]}
  /\ UNCHANGED <<run, policy, create, mirror, counts>>

-----------------------------------------------------------------------------
(* gaterun_create.                                                         *)

To(u, here, there) == create[u].at = here /\ create' = [create EXCEPT ![u] = there]

\* The handler is given the status as it is when it starts; a policy of the
\* name that is already there will do.
create_policy(u) ==
  /\ To(u, "start", [at |-> "job", jobUID |-> 0, prior |-> IF run.uid = u THEN run.jobUID ELSE 0])
  /\ policy' = IF policy = 0 THEN u ELSE policy
  /\ UNCHANGED <<run, job, mirror, ended, counts>>

create_job(u) ==
  \/ /\ job = NoneOf /\ NewJob(u)
     /\ To(u, "job", [create[u] EXCEPT !.at = "running", !.jobUID = counts.jobs + 1])
     /\ UNCHANGED <<run, policy, mirror, ended>>
  \/ /\ job # NoneOf
     /\ To(u, "job", [create[u] EXCEPT !.at = "conflict"])
     /\ UNCHANGED <<run, job, policy, mirror, ended, counts>>

\* A Job that is gone by now raises, and the handler starts again; one that is
\* not the recorded one is refused for good.
Adopt_(u) ==
  LET own == create[u].prior # 0 /\ job.uid = create[u].prior IN
  /\ To(u, "conflict", [create[u] EXCEPT !.at = IF job = NoneOf THEN "start" ELSE IF own THEN "running" ELSE "error"])
  /\ UNCHANGED <<run, job, policy, mirror, ended, counts>>

\* The handler's status goes out; without a GateRun it goes nowhere.
WriteStatus(u) ==
  LET h == create[u] IN
  /\ h.at \in {"running", "error"} /\ create' = [create EXCEPT ![u].at = "done"]
  /\ run' = IF run = NoRun THEN run
            ELSE [run EXCEPT !.phase = IF h.at = "running" THEN "Running" ELSE "Error",
                             !.jobUID = IF h.jobUID # 0 THEN h.jobUID ELSE @]
  /\ UNCHANGED <<job, policy, mirror, ended, counts>>

-----------------------------------------------------------------------------
(* gaterun_job_event.                                                      *)

\* Bug: the Job's label is enough.
_labelled(uid, status) == TRUE

_job_authenticated(uid, jobUID) == jobUID # 0 /\ uid = jobUID

\* An event carries the Job's status of the time; the GateRun is read after.
JobEvent(j) ==
  /\ job.uid = j /\ job.result # "running" /\ mirror[j].at = "idle"
  /\ mirror' = [mirror EXCEPT ![j] = [at |-> "read", result |-> job.result]]
  /\ UNCHANGED <<run, job, policy, create, ended, counts>>

ReadRun(j) ==
  /\ mirror[j].at = "read"
  /\ mirror' = [mirror EXCEPT ![j].at = IF run # NoRun /\ _job_authenticated(j, run.jobUID) THEN "write" ELSE "idle"]
  /\ UNCHANGED <<run, job, policy, create, ended, counts>>

MirrorVerdict(j) ==
  /\ mirror[j].at = "write" /\ mirror' = [mirror EXCEPT ![j] = Quiet]
  /\ run' = IF run = NoRun THEN run
            ELSE IF mirror[j].result = "succeeded" THEN [run EXCEPT !.phase = "Passed", !.verdict = "pass"]
            ELSE [run EXCEPT !.phase = "Failed", !.verdict = "fail"]
  /\ UNCHANGED <<job, policy, create, ended, counts>>

\* What the handlers know is lost; the framework starts the create handler of
\* the GateRun that is there again.
OperatorDies ==
  /\ counts.deaths < MaxDeaths /\ counts' = [counts EXCEPT !.deaths = @ + 1]
  /\ create' = [u \in 1..MaxRuns |->
                  IF create[u].at \in {"none", "done"} THEN create[u]
                  ELSE [NoHandler EXCEPT !.at = IF u = run.uid THEN "start" ELSE "done"]]
  /\ mirror' = [j \in 1..MaxJobs |-> Quiet]
  /\ UNCHANGED <<run, job, policy, ended>>

OperatorNext ==
  \/ CreateRun \/ DeleteRun \/ Collect \/ OthersJob \/ JobEnds \/ OperatorDies
  \/ \E u \in 1..MaxRuns : create_policy(u) \/ create_job(u) \/ Adopt_(u) \/ WriteStatus(u)
  \/ \E j \in 1..MaxJobs : JobEvent(j) \/ ReadRun(j) \/ MirrorVerdict(j)

-----------------------------------------------------------------------------
\* No verdict without a Job of the operator's that ended so, whoever else takes
\* the name and its label, wherever the operator dies; and but for a name that
\* was used before (the verdict of a GateRun that is gone may still be on its
\* way) it was a Job of this GateRun.
VerdictWasRun ==
  run.verdict # "none" =>
    \E e \in ended :
      /\ e.result = IF run.verdict = "pass" THEN "succeeded" ELSE "failed"
      /\ e.run = run.uid \/ run.uid > 1

\* "NetworkPolicy FIRST, so the untrusted pod is fenced before it can run"
\* (handlers.py:77): the operator's Job of a GateRun that is there runs behind
\* a policy.
RunsFenced == job.owner # 0 /\ job.owner = run.uid /\ job.result = "running" => policy # 0
=============================================================================
