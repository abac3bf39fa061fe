------------------------------ MODULE JobQueue ------------------------------
(***************************************************************************)
(* The queue of jobs/queue.py under arbitrary callers: whoever claimed a   *)
(* job may heartbeat, complete or fail it at any later time, in any order  *)
(* and as often as it likes, as a stalled worker, a late heartbeat thread  *)
(* and a worker that raced its own lease do.                               *)
(***************************************************************************)
EXTENDS JobTable

CONSTANTS Tries,     \* the max_attempts a request may ask for
          Delay      \* the delay_s a request may ask for

ASSUME RequestAssumption == Tries \subseteq Int /\ Delay \subseteq Nat

VARIABLE claims      \* every Job a worker was ever given

vars == <<jobs, claims>>

Init ==
  /\ jobs = [i \in Id |-> NoRow("none")]
  /\ claims = {}

enqueue(tn, b, k, n, d) ==
  /\ \E i \in Id : Fresh(jobs, i) /\ EnqueueRequest(jobs, jobs', i, tn, b, k, n, d)
  /\ UNCHANGED claims

\* A follow-up job of a worker.
enqueue_internal(tn, b, k, n) ==
  /\ ~HasKey(jobs, tn, k)
  /\ \E i \in Id : Fresh(jobs, i) /\ jobs' = EnqueueInternal(jobs, i, tn, b, k, n)
  /\ UNCHANGED claims

claim(o) ==
  LET T == Reap(jobs) IN
  \/ \E i \in Id :
       /\ First(T, i)
       /\ jobs' = Lent(T, i, o)
       /\ claims' = claims \union {Claim(i, o, T[i].attempts + 1)}
  \/ /\ Runnable(T) = {}
     /\ jobs' = T
     /\ UNCHANGED claims

heartbeat(c) == _fenced(jobs, c) /\ jobs' = Beaten(jobs, c) /\ UNCHANGED claims
complete(c) == _fenced(jobs, c) /\ jobs' = Completed(jobs, c) /\ UNCHANGED claims
fail(c, permanent) ==
  _fenced(jobs, c) /\ jobs' = Failed(jobs, c, permanent) /\ UNCHANGED claims

purge == jobs' = Purged(jobs) /\ UNCHANGED claims

Tick == jobs' = Later(jobs) /\ UNCHANGED claims

Next ==
  \/ \E tn \in Tenant, b \in Body, k \in Key \union {None}, n \in Tries :
       \/ \E d \in Delay : enqueue(tn, b, k, n, d)
       \/ enqueue_internal(tn, b, k, n)
  \/ \E o \in Owner : claim(o)
  \/ \E c \in claims : \/ heartbeat(c)
                       \/ complete(c)
                       \/ \E permanent \in BOOLEAN : fail(c, permanent)
  \/ purge
  \/ Tick

Spec == Init /\ [][Next]_vars
-----------------------------------------------------------------------------
TypeOK ==
  /\ jobs \in [Id -> Row]
  /\ claims \subseteq [id : Id, lease_owner : Owner, attempts : Nat \ {0}]

\* A queued job has an attempt left: claim does not check, so no failure, no
\* reaped lease and no late call of a stale claim may requeue a spent job.
QueuedHasAttempts ==
  \A i \in Id : jobs[i].state = "queued" => jobs[i].attempts < jobs[i].max_attempts

\* At most one claim passes the fence of a job, and a running job has one: of
\* two workers that ever held the job the older can do nothing to it.
OneFenced ==
  \A i \in Id :
    /\ \A c, d \in claims : c.id = i /\ d.id = i /\ _fenced(jobs, c) /\ _fenced(jobs, d) => c = d
    /\ jobs[i].state = "running" => \E c \in claims : c.id = i /\ _fenced(jobs, c)

\* The quota and the row cap hold for what requesters put in, whatever the
\* workers add to the same tenant.
QuotaHolds ==
  \A tn \in Tenant :
    /\ Cardinality({i \in PendingOf(jobs, tn) : ~jobs[i].internal}) <= Limit
    /\ Cardinality({i \in RowsOf(jobs, tn) : ~jobs[i].internal}) <= RowCap

\* A dedupe key stands for one stored job of its tenant (the unique index is
\* never hit).
KeysAreUnique ==
  \A i, j \in Id :
    jobs[i].state \in Stored /\ jobs[i].key # None
      /\ jobs[j].state \in Stored /\ jobs[j].tenant = jobs[i].tenant /\ jobs[j].key = jobs[i].key
    => i = j

\* A finished job never runs, changes its end or loses its place in time; it
\* is deleted or left alone.  A pending one is never deleted ("never silently
\* dropped").
EndIsFinal ==
  [][\A i \in Id :
       /\ jobs[i].state \in Settled => jobs'[i].state \in {jobs[i].state, "gone"}
       /\ jobs[i].state \in Pending => jobs'[i].state \in Stored]_vars

\* The queue implements bounded at-least-once delivery.
Delivery == INSTANCE AtLeastOnce
  WITH Job <- Id, Cap <- MAX_ATTEMPTS_CAP,
       status <- [i \in Id |-> CASE jobs[i].state \in Pending -> "open"
                                 [] jobs[i].state \in Settled -> "ended"
                                 [] OTHER -> jobs[i].state],
       tries <- [i \in Id |-> jobs[i].attempts]

Delivers == Delivery!Spec
=============================================================================
