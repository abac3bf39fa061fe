------------------------------ MODULE JobTable ------------------------------
(***************************************************************************)
(* jobs/queue.py: the durable queue.  Every operation is one BEGIN         *)
(* IMMEDIATE transaction on the jobs table, here a function or a relation  *)
(* on tables.                                                              *)
(*                                                                         *)
(* Times are relative to the present: wait is run_after - now, lease is    *)
(* lease_expires - now, age is now - updated.  Each is kept only as far as *)
(* a comparison in the code can see it: a lease past its end stays at -1,  *)
(* an age stops one above the largest limit it is compared with, and a job *)
(* that has been runnable for Past units counts as equally old as one that *)
(* waited longer (ties go to the job created first); nothing looks at the  *)
(* age of a pending job or at the other two times of a finished one.       *)
(***************************************************************************)
EXTENDS Integers, FiniteSets

CONSTANTS Tenant, Owner, Body,
          Key,                \* dedupe keys
          None,               \* NULL
          MaxJobs,            \* bound of the model: jobs ever created
          MAX_ATTEMPTS_CAP,
          Limit,              \* VEREL_JOBS_MAX_PENDING
          RowCap,             \* VEREL_JOBS_MAX_ROWS
          LeaseS,             \* lease_s
          KeepS,              \* retention of finished jobs
          YoungS,             \* the 60 s a finished job is safe from the row cap
          BACKOFF_BASE_S, BACKOFF_CAP_S,
          Past                \* how far back two runnable jobs are told apart

VARIABLE jobs                 \* the jobs table: [Id -> Row]

Id == 1..MaxJobs              \* in the order of creation
AgeTop == (IF KeepS > YoungS THEN KeepS ELSE YoungS) + 1

ASSUME QueueAssumption ==
  /\ MaxJobs \in Nat /\ MAX_ATTEMPTS_CAP \in Nat \ {0}
  /\ Limit \in Nat /\ RowCap \in Nat /\ LeaseS \in Nat
  /\ KeepS \in Nat /\ YoungS \in Nat /\ Past \in Nat
  /\ BACKOFF_BASE_S \in Nat /\ BACKOFF_CAP_S \in Nat
  /\ None \notin Key \union Owner \union Tenant \union Body

Pending == {"queued", "running"}
Settled == {"done", "dead"}

Stored == Pending \union Settled

\* No row: never created ("none") or deleted ("gone"; ids are never reused).
NoRow(s) ==
  [state |-> s, tenant |-> None, body |-> None, payload |-> FALSE, key |-> None,
   internal |-> FALSE, attempts |-> 0, max_attempts |-> 0, wait |-> 0,
   lease_owner |-> None, lease |-> -1, age |-> 0]

Row ==
  [state : Stored \union {"none", "gone"}, tenant : Tenant \union {None},
   body : Body \union {None}, payload : BOOLEAN, key : Key \union {None},
   internal : BOOLEAN, attempts : Nat, max_attempts : Nat, wait : Int,
   lease_owner : Owner \union {None}, lease : Int, age : Nat]

Claim(i, o, n) == [id |-> i, lease_owner |-> o, attempts |-> n]
-----------------------------------------------------------------------------
(* The operations, as functions from table to table. *)

backoff(n) ==
  LET b == BACKOFF_BASE_S * 2 ^ (IF n > 1 THEN n - 1 ELSE 0)
  IN IF b < BACKOFF_CAP_S THEN b ELSE BACKOFF_CAP_S

ASSUME BackoffAssumption == \A n \in 1..MAX_ATTEMPTS_CAP : backoff(n) \in Nat

RowsOf(T, tn) == {i \in Id : T[i].state \in Stored /\ T[i].tenant = tn}
PendingOf(T, tn) == {i \in RowsOf(T, tn) : T[i].state \in Pending}

HasKey(T, tn, k) == k # None /\ \E i \in RowsOf(T, tn) : T[i].key = k

Clamp(n) == IF n < 1 THEN 1 ELSE IF n > MAX_ATTEMPTS_CAP THEN MAX_ATTEMPTS_CAP ELSE n

\* The row cap makes room by dropping the tenant's oldest finished jobs that
\* are not young.
Droppable(T, tn) == {i \in RowsOf(T, tn) : T[i].state \in Settled /\ T[i].age > YoungS}
DropCount == IF RowCap \div 10 > 1 THEN RowCap \div 10 ELSE 1
MayDrop(T, tn, D) ==
  /\ D \subseteq Droppable(T, tn)
  /\ Cardinality(D) = (IF Cardinality(Droppable(T, tn)) < DropCount
                       THEN Cardinality(Droppable(T, tn)) ELSE DropCount)
  /\ \A i \in D, j \in Droppable(T, tn) \ D : T[i].age >= T[j].age
Without(T, D) == [i \in Id |-> IF i \in D THEN NoRow("gone") ELSE T[i]]

NewRow(tn, b, k, n, delay, int) ==
  [state |-> "queued", tenant |-> tn, body |-> b, payload |-> TRUE, key |-> k,
   internal |-> int, attempts |-> 0, max_attempts |-> Clamp(n), wait |-> delay,
   lease_owner |-> None, lease |-> -1, age |-> 0]

\* The id of the new row: the next one in creation order.
Fresh(T, i) == T[i].state = "none" /\ \A j \in Id : j < i => T[j].state # "none"

\* enqueue of a requester: quota, then row cap (with what it drops), then the
\* insert; a refusal rolls everything back.
EnqueueRequest(T, U, i, tn, b, k, n, delay) ==
  /\ ~HasKey(T, tn, k)
  /\ Cardinality(PendingOf(T, tn)) < Limit
  /\ \E D \in SUBSET Id :
       /\ IF Cardinality(RowsOf(T, tn)) >= RowCap THEN MayDrop(T, tn, D) ELSE D = {}
       /\ Cardinality(RowsOf(T, tn) \ D) < RowCap
       /\ U = [Without(T, D) EXCEPT ![i] = NewRow(tn, b, k, n, delay, FALSE)]

\* enqueue(internal=True), a worker's follow-up job: no quota, no cap.
EnqueueInternal(T, i, tn, b, k, n) == [T EXCEPT ![i] = NewRow(tn, b, k, n, 0, TRUE)]

\* claim, first half: every expired lease is taken back, of whatever kind.
Expired(r) == r.state = "running" /\ r.lease < 0
Spent(r) == r.attempts >= r.max_attempts
TakenBack(r) ==
  [r EXCEPT !.state = IF Spent(r) THEN "dead" ELSE "queued", !.lease_owner = None, !.age = 0]

\* Mutant: the lease column of a finished job is read, too.
ReapFinished(T) ==
  [i \in Id |-> IF T[i].state \in {"running", "done"} /\ T[i].lease < 0
                THEN TakenBack(T[i]) ELSE T[i]]

\* Mutant: no one takes expired leases back.
ReapNone(T) == T

Reap(T) == [i \in Id |-> IF Expired(T[i]) THEN TakenBack(T[i]) ELSE T[i]]

\* claim, second half: the runnable job of the tenant with the fewest running
\* jobs, then the one runnable longest, then the one created first.
Runnable(T) == {i \in Id : T[i].state = "queued" /\ T[i].wait <= 0}
Load(T, i) == Cardinality({j \in Id : T[j].state = "running" /\ T[j].tenant = T[i].tenant})
Before(T, i, j) ==
  \/ Load(T, i) < Load(T, j)
  \/ Load(T, i) = Load(T, j) /\ T[i].wait < T[j].wait
  \/ Load(T, i) = Load(T, j) /\ T[i].wait = T[j].wait /\ i < j
First(T, i) == i \in Runnable(T) /\ \A j \in Runnable(T) : ~Before(T, j, i)
LentTo(r, o) ==
  [r EXCEPT !.state = "running", !.attempts = r.attempts + 1, !.lease_owner = o,
            !.lease = LeaseS, !.age = 0]
Lent(T, i, o) == [T EXCEPT ![i] = LentTo(T[i], o)]

\* Mutant: the fence forgets the attempt.
_fencedOwner(T, c) == T[c.id].state = "running" /\ T[c.id].lease_owner = c.lease_owner

\* The fence of heartbeat, complete and fail: this very attempt is running.
\* The lease's end is not looked at.
_fenced(T, c) ==
  /\ T[c.id].state = "running"
  /\ T[c.id].lease_owner = c.lease_owner
  /\ T[c.id].attempts = c.attempts

Beaten(T, c) == [T EXCEPT ![c.id] = [T[c.id] EXCEPT !.lease = LeaseS, !.age = 0]]

Completed(T, c) ==
  [T EXCEPT ![c.id] = [T[c.id] EXCEPT !.state = "done", !.payload = FALSE, !.lease_owner = None,
                                      !.age = 0]]

Retried(r, n) ==
  [r EXCEPT !.state = "queued", !.lease_owner = None, !.wait = backoff(n), !.age = 0]
Buried(r, n) ==
  [r EXCEPT !.state = "dead", !.lease_owner = None, !.wait = backoff(n), !.age = 0,
            !.payload = FALSE]

\* Mutant: one retry too many.
FailedLate(T, c, permanent) ==
  [T EXCEPT ![c.id] = IF permanent \/ c.attempts > T[c.id].max_attempts
                      THEN Buried(T[c.id], c.attempts) ELSE Retried(T[c.id], c.attempts)]

Failed(T, c, permanent) ==
  [T EXCEPT ![c.id] = IF permanent \/ c.attempts >= T[c.id].max_attempts
                      THEN Buried(T[c.id], c.attempts) ELSE Retried(T[c.id], c.attempts)]

Purged(T) == Without(T, {i \in Id : T[i].state \in Settled /\ T[i].age > KeepS})

Older(r) ==
  CASE r.state \in Pending -> [r EXCEPT !.wait = IF r.wait > -Past THEN r.wait - 1 ELSE r.wait,
                                        !.lease = IF r.lease >= 0 THEN r.lease - 1 ELSE r.lease]
    [] r.state \in Settled -> [r EXCEPT !.age = IF r.age < AgeTop THEN r.age + 1 ELSE r.age]
    [] OTHER -> r
Later(T) == [i \in Id |-> Older(T[i])]
=============================================================================
