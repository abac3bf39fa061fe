--------------------------- MODULE JobQueueProofs ---------------------------
(***************************************************************************)
(* The properties of JobQueue for any tenants, workers, jobs, limits and   *)
(* times.  The argument: the attempts of a job only grow while it is       *)
(* stored, every claim has the number of the attempt it opened, and a row  *)
(* that was deleted never comes back; so the claim that passes the fence   *)
(* is the one that opened the newest attempt, and there is one of these.   *)
(***************************************************************************)
EXTENDS JobQueue, JobWorker, FiniteSetTheorems, TLAPS

\* How far a row has come in its life agrees with its count of attempts.
Counted ==
  \A i \in Id :
    /\ jobs[i].state \in Stored =>
         /\ jobs[i].max_attempts \in 1..MAX_ATTEMPTS_CAP
         /\ jobs[i].attempts <= jobs[i].max_attempts
    /\ jobs[i].state = "queued" => jobs[i].attempts < jobs[i].max_attempts
    /\ jobs[i].state \in Settled \union {"running"} => jobs[i].attempts > 0
    /\ jobs[i].state \notin Stored => jobs[i].attempts = 0

\* No claim is ahead of its row.
NotAhead ==
  \A c \in claims :
    /\ jobs[c.id].state # "none"
    /\ jobs[c.id].state \in Stored => c.attempts <= jobs[c.id].attempts

\* An attempt is given to one worker.
Distinct ==
  \A c, d \in claims : c.id = d.id /\ c.attempts = d.attempts => c = d

\* The running attempt is one that was given out.
Given ==
  \A i \in Id : jobs[i].state = "running"
                => Claim(i, jobs[i].lease_owner, jobs[i].attempts) \in claims

IInv == TypeOK /\ Counted /\ NotAhead /\ Distinct /\ Given

\* What one operation may do to a row it does not lend.
SameJob(r, s) ==
  s.tenant = r.tenant /\ s.body = r.body /\ s.key = r.key /\ s.internal = r.internal
Rests(r, s) ==
  /\ s.state = r.state /\ s.attempts = r.attempts /\ s.max_attempts = r.max_attempts
  /\ s.lease_owner = r.lease_owner /\ SameJob(r, s)
Created(r, s) ==
  /\ r.state = "none" /\ s.state = "queued" /\ s.attempts = 0
  /\ s.max_attempts \in 1..MAX_ATTEMPTS_CAP
Deleted(r, s) == r.state \in Settled /\ s.state = "gone" /\ s.attempts = 0
Left(r, s) ==
  /\ r.state = "running" /\ s.state \in {"queued", "done", "dead"}
  /\ s.attempts = r.attempts /\ s.max_attempts = r.max_attempts /\ SameJob(r, s)
  /\ s.state = "queued" => s.attempts < s.max_attempts
Moved(r, s) == Rests(r, s) \/ Created(r, s) \/ Deleted(r, s) \/ Left(r, s)

\* A row nobody finishes or creates.
Kept(r, s) ==
  /\ r.state # "none" => s.state # "none"
  /\ s.state \in Stored => r.state \in Stored /\ SameJob(r, s)
  /\ s.state = "done" => r.state = "done"

\* What claim does to the row it lends.
Lends(r, s, o) ==
  /\ r.state \in Pending /\ r.attempts < r.max_attempts
  /\ s.state = "running" /\ s.attempts = r.attempts + 1 /\ s.max_attempts = r.max_attempts
  /\ s.lease_owner = o /\ SameJob(r, s)

AllMoved == claims' = claims /\ \A i \in Id : Moved(jobs[i], jobs'[i])
OneLent ==
  \E i \in Id, o \in Owner :
    /\ Lends(jobs[i], jobs'[i], o)
    /\ claims' = claims \union {Claim(i, o, jobs[i].attempts + 1)}
    /\ \A j \in Id \ {i} : Moved(jobs[j], jobs'[j])
Step == jobs' \in [Id -> Row] /\ (AllMoved \/ OneLent)
-----------------------------------------------------------------------------
(* Rows. *)

LEMMA IdIsNat == Id \subseteq Nat
  BY QueueAssumption DEF Id

LEMMA TimesAreInts == LeaseS \in Int /\ Past \in Int
  BY QueueAssumption

LEMMA NoRowIsRow == NoRow("gone") \in Row /\ NoRow("none") \in Row
  BY DEF NoRow, Row

LEMMA ClampLemma == ASSUME NEW n \in Int PROVE Clamp(n) \in 1..MAX_ATTEMPTS_CAP
  BY QueueAssumption DEF Clamp

LEMMA NewRowLemma ==
  ASSUME NEW tn \in Tenant, NEW b \in Body, NEW k \in Key \union {None}, NEW n \in Int,
         NEW d \in Nat, NEW int \in BOOLEAN
  PROVE  LET r == NewRow(tn, b, k, n, d, int)
         IN /\ r \in Row /\ r.state = "queued" /\ r.attempts = 0
            /\ r.max_attempts \in 1..MAX_ATTEMPTS_CAP
  <1>1. Clamp(n) \in 1..MAX_ATTEMPTS_CAP
    BY ClampLemma
  <1>2. Clamp(n) \in Nat
    BY <1>1, QueueAssumption
  <1>3. QED BY <1>1, <1>2, QueueAssumption DEF NewRow, Row, Stored, Pending, Settled

LEMMA TakenBackLemma ==
  ASSUME NEW r \in Row, Expired(r)
  PROVE  TakenBack(r) \in Row /\ Left(r, TakenBack(r)) /\ Kept(r, TakenBack(r))
  <1>1. TakenBack(r) \in Row
    BY ZenonT(60) DEF TakenBack, Row, Stored, Pending, Settled
  <1>2. Left(r, TakenBack(r))
    BY DEF TakenBack, Row, Left, Expired, Spent, SameJob
  <1>3. Kept(r, TakenBack(r))
    BY DEF TakenBack, Row, Kept, Expired, SameJob, Stored, Pending
  <1>4. QED BY <1>1, <1>2, <1>3

LEMMA LentToLemma ==
  ASSUME NEW r \in Row, NEW o \in Owner, r.state \in Pending, r.attempts < r.max_attempts
  PROVE  LentTo(r, o) \in Row /\ Lends(r, LentTo(r, o), o)
  <1>1. LentTo(r, o) \in Row
    <2>1. r.attempts + 1 \in Nat /\ LeaseS \in Int
      BY TimesAreInts DEF Row
    <2>2. QED BY <2>1 DEF LentTo, Row, Stored, Pending, Settled
  <1>2. Lends(r, LentTo(r, o), o)
    BY DEF LentTo, Row, Lends, SameJob
  <1>3. QED BY <1>1, <1>2

LEMMA BeatenLemma ==
  ASSUME NEW r \in Row
  PROVE  LET s == [r EXCEPT !.lease = LeaseS, !.age = 0] IN s \in Row /\ Rests(r, s)
  <1>1. LeaseS \in Int
    BY TimesAreInts
  <1>2. QED BY <1>1 DEF Row, Rests, SameJob

LEMMA DoneLemma ==
  ASSUME NEW r \in Row, r.state = "running"
  PROVE  LET s == [r EXCEPT !.state = "done", !.payload = FALSE, !.lease_owner = None, !.age = 0]
         IN s \in Row /\ Left(r, s)
  BY DEF Row, Left, Stored, Pending, Settled, SameJob

LEMMA FailedLemma ==
  ASSUME NEW r \in Row, r.state = "running", NEW n \in 1..MAX_ATTEMPTS_CAP
  PROVE  /\ Buried(r, n) \in Row /\ Left(r, Buried(r, n))
         /\ Retried(r, n) \in Row
         /\ r.attempts < r.max_attempts => Left(r, Retried(r, n))
  <1>1. backoff(n) \in Int
    BY BackoffAssumption
  <1>2. Buried(r, n) \in Row /\ Retried(r, n) \in Row
    BY <1>1 DEF Buried, Retried, Row, Stored, Pending, Settled
  <1>3. Left(r, Buried(r, n))
    BY DEF Buried, Row, Left, SameJob
  <1>4. r.attempts < r.max_attempts => Left(r, Retried(r, n))
    BY DEF Retried, Row, Left, SameJob
  <1>5. QED BY <1>2, <1>3, <1>4

LEMMA OlderLemma ==
  ASSUME NEW r \in Row PROVE Older(r) \in Row /\ Rests(r, Older(r))
  <1>1. CASE r.state \in Pending
    <2> DEFINE w == IF r.wait > -Past THEN r.wait - 1 ELSE r.wait
               l == IF r.lease >= 0 THEN r.lease - 1 ELSE r.lease
    <2>1. Older(r) = [r EXCEPT !.wait = w, !.lease = l]
      BY <1>1 DEF Older, Pending, Settled
    <2>2. w \in Int /\ l \in Int
      BY TimesAreInts DEF Row
    <2> HIDE DEF w, l
    <2>3. QED BY <2>1, <2>2 DEF Rests, Row, SameJob
  <1>2. CASE r.state \in Settled
    <2>1. Older(r) = [r EXCEPT !.age = IF r.age < AgeTop THEN r.age + 1 ELSE r.age]
      BY <1>2 DEF Older, Pending, Settled
    <2>2. QED BY <2>1 DEF Rests, Row, SameJob
  <1>3. CASE r.state \notin Pending /\ r.state \notin Settled
    BY <1>3 DEF Older, Rests, SameJob
  <1>4. QED BY <1>1, <1>2, <1>3
-----------------------------------------------------------------------------
(* Tables. *)

LEMMA WithoutLemma ==
  ASSUME NEW T \in [Id -> Row], NEW D \in SUBSET Id, \A i \in D : T[i].state \in Settled
  PROVE  /\ Without(T, D) \in [Id -> Row]
         /\ \A i \in Id : Moved(T[i], Without(T, D)[i]) /\ Kept(T[i], Without(T, D)[i])
  <1>1. NoRow("gone") \in Row /\ NoRow("gone").state = "gone" /\ NoRow("gone").attempts = 0
    BY NoRowIsRow DEF NoRow
  <1>2. Without(T, D) \in [Id -> Row]
    BY <1>1 DEF Without
  <1>3. ASSUME NEW i \in Id PROVE Moved(T[i], Without(T, D)[i]) /\ Kept(T[i], Without(T, D)[i])
    BY <1>1 DEF Without, Moved, Rests, Deleted, Kept, SameJob, Stored, Pending, Settled
  <1>4. QED BY <1>2, <1>3

LEMMA InsertLemma ==
  ASSUME NEW T \in [Id -> Row], NEW W \in [Id -> Row],
         \A j \in Id : Moved(T[j], W[j]) /\ Kept(T[j], W[j]),
         NEW i \in Id, NEW r \in Row, Created(T[i], r), NEW U, U = [W EXCEPT ![i] = r]
  PROVE  /\ U \in [Id -> Row] /\ U[i] = r
         /\ \A j \in Id : Moved(T[j], U[j])
         /\ \A j \in Id \ {i} : Kept(T[j], U[j])
  BY DEF Moved

LEMMA ReapLemma ==
  ASSUME NEW T \in [Id -> Row]
  PROVE  /\ Reap(T) \in [Id -> Row]
         /\ \A i \in Id : Moved(T[i], Reap(T)[i]) /\ Kept(T[i], Reap(T)[i])
  <1>1. ASSUME NEW i \in Id
        PROVE  Reap(T)[i] \in Row /\ Moved(T[i], Reap(T)[i]) /\ Kept(T[i], Reap(T)[i])
    <2>1. CASE Expired(T[i])
      BY <2>1, TakenBackLemma DEF Reap, Moved
    <2>2. CASE ~Expired(T[i])
      BY <2>2 DEF Reap, Moved, Rests, SameJob, Kept
    <2>3. QED BY <2>1, <2>2
  <1>2. QED BY <1>1 DEF Reap
-----------------------------------------------------------------------------
(* Operations. *)

LEMMA EnqueueStep ==
  ASSUME TypeOK, NEW tn \in Tenant, NEW b \in Body, NEW k \in Key \union {None},
         NEW n \in Tries, NEW d \in Delay, enqueue(tn, b, k, n, d)
  PROVE  Step
  <1>1. PICK i \in Id : Fresh(jobs, i) /\ EnqueueRequest(jobs, jobs', i, tn, b, k, n, d)
    BY DEF enqueue
  <1>2. PICK D \in SUBSET Id :
          /\ IF Cardinality(RowsOf(jobs, tn)) >= RowCap THEN MayDrop(jobs, tn, D) ELSE D = {}
          /\ jobs' = [Without(jobs, D) EXCEPT ![i] = NewRow(tn, b, k, n, d, FALSE)]
    BY <1>1 DEF EnqueueRequest
  <1>3. \A j \in D : jobs[j].state \in Settled
    BY <1>2 DEF MayDrop, Droppable
  <1>4. n \in Int /\ d \in Nat
    BY RequestAssumption
  <1>5. jobs[i].state = "none" /\ jobs \in [Id -> Row]
    BY <1>1 DEF Fresh, TypeOK
  <1> DEFINE r == NewRow(tn, b, k, n, d, FALSE)
  <1>6. r \in Row /\ Created(jobs[i], r)
    BY <1>4, <1>5, NewRowLemma DEF Created
  <1> DEFINE W == Without(jobs, D)
  <1>7. /\ W \in [Id -> Row] /\ \A j \in Id : Moved(jobs[j], W[j]) /\ Kept(jobs[j], W[j])
        /\ jobs' = [W EXCEPT ![i] = r]
    BY <1>2, <1>3, <1>5, WithoutLemma
  <1> HIDE DEF r, W
  <1>8. jobs' \in [Id -> Row] /\ \A j \in Id : Moved(jobs[j], jobs'[j])
    BY <1>5, <1>6, <1>7, InsertLemma
  <1>9. QED BY <1>8 DEF Step, AllMoved, enqueue

LEMMA EnqueueInternalStep ==
  ASSUME TypeOK, NEW tn \in Tenant, NEW b \in Body, NEW k \in Key \union {None},
         NEW n \in Tries, enqueue_internal(tn, b, k, n)
  PROVE  Step
  <1>1. PICK i \in Id : Fresh(jobs, i) /\ jobs' = EnqueueInternal(jobs, i, tn, b, k, n)
    BY DEF enqueue_internal
  <1>2. n \in Int /\ 0 \in Nat /\ TRUE \in BOOLEAN /\ jobs[i].state = "none"
    BY <1>1, RequestAssumption DEF Fresh
  <1>3. jobs \in [Id -> Row]
    BY DEF TypeOK
  <1> DEFINE r == NewRow(tn, b, k, n, 0, TRUE)
  <1>4. r \in Row /\ Created(jobs[i], r)
    BY <1>2, NewRowLemma DEF Created
  <1>5. /\ \A j \in Id : Moved(jobs[j], jobs[j]) /\ Kept(jobs[j], jobs[j])
        /\ jobs' = [jobs EXCEPT ![i] = r]
    BY <1>1 DEF Moved, Rests, Kept, SameJob, EnqueueInternal
  <1> HIDE DEF r
  <1>6. jobs' \in [Id -> Row] /\ \A j \in Id : Moved(jobs[j], jobs'[j])
    BY <1>3, <1>4, <1>5, InsertLemma
  <1>7. QED BY <1>6 DEF Step, AllMoved, enqueue_internal

\* claim lends the first job of what is left once the expired leases are back.
LEMMA LentLemma ==
  ASSUME jobs \in [Id -> Row], Counted, NEW o \in Owner, NEW i \in Id,
         NEW T, T = Reap(jobs), First(T, i)
  PROVE  /\ Lent(T, i, o) \in [Id -> Row] /\ Lends(jobs[i], Lent(T, i, o)[i], o)
         /\ SameJob(jobs[i], T[i]) /\ T[i].attempts = jobs[i].attempts
         /\ \A j \in Id \ {i} : Moved(jobs[j], Lent(T, i, o)[j])
         /\ \A j \in Id : Kept(jobs[j], Lent(T, i, o)[j])
  <1>1. T \in [Id -> Row] /\ \A j \in Id : Moved(jobs[j], T[j]) /\ Kept(jobs[j], T[j])
    BY ReapLemma
  <1>2. T[i].state = "queued"
    BY DEF First, Runnable
  <1>3. /\ jobs[i].state \in Pending /\ jobs[i].attempts < jobs[i].max_attempts
        /\ T[i].attempts = jobs[i].attempts /\ T[i].max_attempts = jobs[i].max_attempts
        /\ SameJob(jobs[i], T[i])
    <2>1. CASE Expired(jobs[i])
      <3>1. T[i] = TakenBack(jobs[i])
        BY <2>1 DEF Reap
      <3>2. Left(jobs[i], T[i])
        BY <2>1, <3>1, TakenBackLemma
      <3>3. QED BY <1>2, <3>2 DEF Left, Pending
    <2>2. CASE ~Expired(jobs[i])
      BY <1>2, <2>2 DEF Reap, Counted, Pending, SameJob
    <2>3. QED BY <2>1, <2>2
  <1>4. LentTo(T[i], o) \in Row /\ Lends(T[i], LentTo(T[i], o), o)
    BY <1>1, <1>2, <1>3, LentToLemma DEF Pending
  <1> DEFINE U == Lent(T, i, o)
  <1>5. U = [T EXCEPT ![i] = LentTo(T[i], o)]
    BY DEF Lent
  <1> HIDE DEF U
  <1>6. U \in [Id -> Row] /\ U[i] = LentTo(T[i], o)
    BY <1>1, <1>4, <1>5
  <1>7. Lends(jobs[i], U[i], o)
    BY <1>3, <1>4, <1>6 DEF Lends, SameJob
  <1>8. \A j \in Id \ {i} : Moved(jobs[j], U[j]) /\ Kept(jobs[j], U[j])
    BY <1>1, <1>5
  <1>9. Kept(jobs[i], U[i])
    BY <1>7 DEF Lends, Kept, Stored
  <1>10. QED BY <1>3, <1>6, <1>7, <1>8, <1>9 DEF U

LEMMA ClaimStep ==
  ASSUME TypeOK, Counted, NEW o \in Owner, claim(o)
  PROVE  Step
  <1> DEFINE T == Reap(jobs)
  <1>1. CASE jobs' = T /\ UNCHANGED claims
    BY <1>1, ReapLemma DEF Step, AllMoved, TypeOK
  <1>2. ASSUME NEW i \in Id, First(T, i), jobs' = Lent(T, i, o),
               claims' = claims \union {Claim(i, o, T[i].attempts + 1)}
        PROVE  Step
    BY <1>2, LentLemma DEF Step, OneLent, TypeOK
  <1>3. QED BY <1>1, <1>2 DEF claim

\* What the holder of an attempt may do to its row.
LEMMA HeldLemma ==
  ASSUME jobs \in [Id -> Row], Counted, NEW c, c.id \in Id, c.attempts \in Nat \ {0},
         _fenced(jobs, c), NEW permanent \in BOOLEAN
  PROVE  /\ Beaten(jobs, c) \in [Id -> Row]
         /\ \A j \in Id : Moved(jobs[j], Beaten(jobs, c)[j]) /\ Kept(jobs[j], Beaten(jobs, c)[j])
         /\ Completed(jobs, c) \in [Id -> Row]
         /\ \A j \in Id : Moved(jobs[j], Completed(jobs, c)[j])
         /\ \A j \in Id \ {c.id} : Kept(jobs[j], Completed(jobs, c)[j])
         /\ SameJob(jobs[c.id], Completed(jobs, c)[c.id])
         /\ Failed(jobs, c, permanent) \in [Id -> Row]
         /\ \A j \in Id : /\ Moved(jobs[j], Failed(jobs, c, permanent)[j])
                          /\ Kept(jobs[j], Failed(jobs, c, permanent)[j])
  <1> DEFINE i == c.id
             r == jobs[i]
  <1>1. i \in Id /\ r \in Row
    OBVIOUS
  <1>2. r.state = "running" /\ r.attempts = c.attempts
    BY DEF _fenced
  <1>3. ASSUME NEW s \in Row, Moved(r, s), NEW U, U = [jobs EXCEPT ![i] = s]
        PROVE  /\ U \in [Id -> Row] /\ U[i] = s
               /\ \A j \in Id : Moved(jobs[j], U[j])
               /\ \A j \in Id \ {i} : Kept(jobs[j], U[j])
               /\ Kept(r, s) => \A j \in Id : Kept(jobs[j], U[j])
    <2>1. \A j \in Id : Moved(jobs[j], jobs[j]) /\ Kept(jobs[j], jobs[j])
      BY DEF Moved, Rests, SameJob, Kept
    <2> HIDE DEF i
    <2>2. QED BY <1>1, <1>3, <2>1
  <1>4. Beaten(jobs, c) \in [Id -> Row]
        /\ \A j \in Id : Moved(jobs[j], Beaten(jobs, c)[j]) /\ Kept(jobs[j], Beaten(jobs, c)[j])
    <2> DEFINE s == [r EXCEPT !.lease = LeaseS, !.age = 0]
    <2>1. s \in Row /\ Rests(r, s)
      BY <1>1, BeatenLemma
    <2>2. Moved(r, s) /\ Kept(r, s)
      BY <2>1 DEF Moved, Rests, Kept
    <2>3. QED BY <1>3, <2>1, <2>2 DEF Beaten
  <1>5. /\ Completed(jobs, c) \in [Id -> Row]
        /\ \A j \in Id : Moved(jobs[j], Completed(jobs, c)[j])
        /\ \A j \in Id \ {i} : Kept(jobs[j], Completed(jobs, c)[j])
        /\ SameJob(r, Completed(jobs, c)[i])
    <2> DEFINE s == [r EXCEPT !.state = "done", !.payload = FALSE, !.lease_owner = None, !.age = 0]
    <2>1. s \in Row /\ Left(r, s)
      BY <1>1, <1>2, DoneLemma
    <2>2. Moved(r, s) /\ SameJob(r, s)
      BY <2>1 DEF Moved, Left
    <2>3. QED BY <1>3, <2>1, <2>2 DEF Completed
  <1>6. /\ Failed(jobs, c, permanent) \in [Id -> Row]
        /\ \A j \in Id : /\ Moved(jobs[j], Failed(jobs, c, permanent)[j])
                         /\ Kept(jobs[j], Failed(jobs, c, permanent)[j])
    <2>1. /\ c.attempts \in 1..MAX_ATTEMPTS_CAP
          /\ r.attempts \in Nat /\ r.max_attempts \in Nat
      BY <1>1, <1>2, QueueAssumption DEF Counted, Row, Stored, Pending, Settled
    <2>2. /\ Buried(r, c.attempts) \in Row /\ Left(r, Buried(r, c.attempts))
          /\ Retried(r, c.attempts) \in Row
          /\ r.attempts < r.max_attempts => Left(r, Retried(r, c.attempts))
      BY <1>1, <1>2, <2>1, FailedLemma
    <2>3. Buried(r, c.attempts).state = "dead" /\ Retried(r, c.attempts).state = "queued"
      BY <1>1 DEF Buried, Retried, Row
    <2>4. ASSUME NEW s \in Row, Left(r, s), s.state # "done" PROVE Moved(r, s) /\ Kept(r, s)
      BY <2>4 DEF Moved, Left, Kept, Stored, Pending
    <2>5. CASE permanent \/ c.attempts >= r.max_attempts
      <3>1. Failed(jobs, c, permanent) = [jobs EXCEPT ![i] = Buried(r, c.attempts)]
        BY <2>5 DEF Failed
      <3>2. QED BY <1>3, <2>2, <2>3, <2>4, <3>1
    <2>6. CASE ~(permanent \/ c.attempts >= r.max_attempts)
      <3>1. Failed(jobs, c, permanent) = [jobs EXCEPT ![i] = Retried(r, c.attempts)]
        BY <2>6 DEF Failed
      <3>2. r.attempts < r.max_attempts
        BY <1>2, <2>1, <2>6
      <3>3. QED BY <1>3, <2>2, <2>3, <2>4, <3>1, <3>2
    <2>7. QED BY <2>5, <2>6
  <1>7. QED BY <1>4, <1>5, <1>6

LEMMA HeldStep ==
  ASSUME TypeOK, Counted, NEW c \in claims,
         heartbeat(c) \/ complete(c) \/ \E permanent \in BOOLEAN : fail(c, permanent)
  PROVE  Step
  <1>1. c.id \in Id /\ c.attempts \in Nat \ {0} /\ jobs \in [Id -> Row]
    BY DEF TypeOK
  <1>2. _fenced(jobs, c) /\ claims' = claims
    BY DEF heartbeat, complete, fail
  <1>3. jobs' \in [Id -> Row] /\ \A j \in Id : Moved(jobs[j], jobs'[j])
    BY <1>1, <1>2, HeldLemma DEF heartbeat, complete, fail
  <1>4. QED BY <1>2, <1>3 DEF Step, AllMoved

LEMMA NextStep == TypeOK /\ Counted /\ [Next]_vars => Step
  <1> SUFFICES ASSUME TypeOK, Counted, [Next]_vars PROVE Step
    OBVIOUS
  <1>1. CASE purge
    <2>1. jobs \in [Id -> Row]
      BY DEF TypeOK
    <2>2. QED BY <1>1, <2>1, WithoutLemma DEF purge, Purged, Step, AllMoved
  <1>2. CASE Tick
    <2>1. \A i \in Id : Older(jobs[i]) \in Row /\ Rests(jobs[i], Older(jobs[i]))
      BY OlderLemma DEF TypeOK
    <2>2. QED BY <1>2, <2>1 DEF Tick, Later, Step, AllMoved, Moved
  <1>3. CASE UNCHANGED vars
    BY <1>3 DEF vars, TypeOK, Step, AllMoved, Moved, Rests, SameJob
  <1>4. QED
    BY <1>1, <1>2, <1>3, EnqueueStep, EnqueueInternalStep, ClaimStep, HeldStep DEF Next
-----------------------------------------------------------------------------
(* The invariant. *)

LEMMA InitIInv == Init => IInv
  <1>1. NoRow("none") \in Row /\ NoRow("none").state = "none" /\ NoRow("none").attempts = 0
    BY NoRowIsRow DEF NoRow
  <1>2. QED
    BY <1>1 DEF Init, IInv, TypeOK, Counted, NotAhead, Distinct, Given, Stored, Pending, Settled

\* Numbers that the steps below compare.
LEMMA Numbers ==
  ASSUME jobs \in [Id -> Row], NEW i \in Id
  PROVE  jobs[i].attempts \in Nat /\ jobs[i].max_attempts \in Nat
  BY DEF Row

LEMMA StepCounted ==
  ASSUME jobs \in [Id -> Row], jobs' \in [Id -> Row], Counted,
         \A i \in Id : Moved(jobs[i], jobs'[i]) \/ \E o \in Owner : Lends(jobs[i], jobs'[i], o)
  PROVE  Counted'
  <1> DEFINE Good(r) ==
        /\ r.state \in Stored => /\ r.max_attempts \in 1..MAX_ATTEMPTS_CAP
                                 /\ r.attempts <= r.max_attempts
        /\ r.state = "queued" => r.attempts < r.max_attempts
        /\ r.state \in Settled \union {"running"} => r.attempts > 0
        /\ r.state \notin Stored => r.attempts = 0
  <1>2. ASSUME NEW r \in Row, NEW s \in Row, Good(r), Moved(r, s) PROVE Good(s)
    <2>1. r.attempts \in Nat /\ r.max_attempts \in Nat /\ s.attempts \in Nat /\ s.max_attempts \in Nat
      BY DEF Row
    <2>2. CASE Rests(r, s)
      BY <1>2, <2>2 DEF Rests
    <2>3. CASE Created(r, s)
      BY <2>1, <2>3, QueueAssumption DEF Created, Stored, Pending, Settled
    <2>4. CASE Deleted(r, s)
      BY <2>4 DEF Deleted, Stored, Pending, Settled
    <2>5. CASE Left(r, s)
      BY <1>2, <2>1, <2>5 DEF Left, Stored, Pending, Settled
    <2>6. QED BY <1>2, <2>2, <2>3, <2>4, <2>5 DEF Moved
  <1>3. ASSUME NEW r \in Row, NEW s \in Row, NEW o \in Owner, Good(r), Lends(r, s, o) PROVE Good(s)
    <2>1. r.attempts \in Nat /\ r.max_attempts \in Nat /\ s.attempts \in Nat /\ s.max_attempts \in Nat
      BY DEF Row
    <2>2. QED BY <1>3, <2>1 DEF Lends, Stored, Pending, Settled
  <1>4. \A i \in Id : Good(jobs[i])
    BY DEF Counted
  <1>5. \A i \in Id : Good(jobs'[i])
    <2> HIDE DEF Good
    <2>1. QED BY <1>2, <1>3, <1>4
  <1>6. QED BY <1>5 DEF Counted

\* Rows only move forward, so a claim that is not ahead stays so.
LEMMA Forward ==
  ASSUME NEW r \in Row, NEW s \in Row, Moved(r, s) \/ (\E o \in Owner : Lends(r, s, o))
  PROVE  r.state # "none" =>
           /\ s.state # "none"
           /\ s.state \in Stored => r.state \in Stored /\ r.attempts <= s.attempts
  BY DEF Moved, Rests, Created, Deleted, Left, Lends, Row, Stored, Pending, Settled

LEMMA NextIInv == IInv /\ [Next]_vars => IInv'
  <1> SUFFICES ASSUME IInv, [Next]_vars PROVE IInv'
    OBVIOUS
  <1>1. Step
    BY NextStep DEF IInv
  <1>2. jobs \in [Id -> Row] /\ jobs' \in [Id -> Row]
        /\ claims \subseteq [id : Id, lease_owner : Owner, attempts : Nat \ {0}]
    BY <1>1 DEF IInv, TypeOK, Step
  <1>3. Counted'
    BY <1>1, <1>2, StepCounted DEF IInv, Step, AllMoved, OneLent
  <1>4. \A i \in Id : jobs[i].state # "none" =>
           /\ jobs'[i].state # "none"
           /\ jobs'[i].state \in Stored =>
                jobs[i].state \in Stored /\ jobs[i].attempts <= jobs'[i].attempts
    <2>1. \A i \in Id : Moved(jobs[i], jobs'[i]) \/ \E o \in Owner : Lends(jobs[i], jobs'[i], o)
      BY <1>1 DEF Step, AllMoved, OneLent
    <2>2. QED BY <1>2, <2>1, Forward
  <1>5. \A i \in Id : /\ jobs[i].attempts \in Nat /\ jobs'[i].attempts \in Nat
                      /\ jobs[i].max_attempts \in Nat
    BY <1>2 DEF Row
  <1>6. \A c \in claims : /\ jobs'[c.id].state # "none"
                          /\ jobs'[c.id].state \in Stored => c.attempts <= jobs'[c.id].attempts
    <2> SUFFICES ASSUME NEW c \in claims
                 PROVE  /\ jobs'[c.id].state # "none"
                        /\ jobs'[c.id].state \in Stored => c.attempts <= jobs'[c.id].attempts
      OBVIOUS
    <2>1. c.id \in Id /\ c.attempts \in Nat
      BY <1>2
    <2>2. /\ jobs[c.id].state # "none"
          /\ jobs[c.id].state \in Stored => c.attempts <= jobs[c.id].attempts
      BY DEF IInv, NotAhead
    <2>3. QED BY <1>4, <1>5, <2>1, <2>2
  <1>7. CASE AllMoved
    <2>1. claims' = claims
      BY <1>7 DEF AllMoved
    <2>2. TypeOK' /\ NotAhead' /\ Distinct'
      BY <1>2, <1>6, <2>1 DEF TypeOK, NotAhead, Distinct, IInv
    <2>3. Given'
      <3> SUFFICES ASSUME NEW i \in Id, jobs'[i].state = "running"
                   PROVE  Claim(i, jobs'[i].lease_owner, jobs'[i].attempts) \in claims
        BY <2>1 DEF Given
      <3>1. Rests(jobs[i], jobs'[i])
        BY <1>7 DEF AllMoved, Moved, Created, Deleted, Left
      <3>2. QED BY <3>1 DEF Rests, IInv, Given
    <2>4. QED BY <1>3, <2>2, <2>3 DEF IInv
  <1>8. CASE OneLent
    <2>1. PICK i \in Id, o \in Owner :
            /\ Lends(jobs[i], jobs'[i], o)
            /\ claims' = claims \union {Claim(i, o, jobs[i].attempts + 1)}
            /\ \A j \in Id \ {i} : Moved(jobs[j], jobs'[j])
      BY <1>8 DEF OneLent
    <2> DEFINE n == Claim(i, o, jobs[i].attempts + 1)
    <2>2. n.id = i /\ n.attempts = jobs'[i].attempts /\ n.lease_owner = jobs'[i].lease_owner
          /\ n \in [id : Id, lease_owner : Owner, attempts : Nat \ {0}]
          /\ n = Claim(i, jobs'[i].lease_owner, jobs'[i].attempts)
      BY <1>5, <2>1 DEF Claim, Lends
    <2>3. \A c \in claims : c.id = i => c.attempts < n.attempts
      <3> SUFFICES ASSUME NEW c \in claims, c.id = i PROVE c.attempts < n.attempts
        OBVIOUS
      <3>1. jobs[i].state \in Stored
        BY <2>1 DEF Lends, Stored
      <3>2. c.attempts <= jobs[i].attempts /\ c.attempts \in Nat
        BY <1>2, <3>1 DEF IInv, NotAhead
      <3>3. n.attempts = jobs[i].attempts + 1
        BY DEF Claim
      <3>4. QED BY <1>5, <3>2, <3>3
    <2>4. claims' = claims \union {n}
      BY <2>1
    <2> HIDE DEF n
    <2>5. TypeOK'
      BY <1>2, <2>2, <2>4 DEF TypeOK
    <2>6. NotAhead'
      <3>1. jobs'[n.id].state = "running" /\ n.attempts <= jobs'[n.id].attempts
        BY <1>5, <2>1, <2>2 DEF Lends
      <3>2. QED BY <1>6, <2>4, <3>1 DEF NotAhead
    <2>7. Distinct'
      <3>1. \A c \in claims : c.attempts \in Nat
        BY <1>2
      <3>2. \A c \in claims : c.id = n.id => c.attempts # n.attempts
        BY <1>5, <2>2, <2>3, <3>1
      <3>3. QED BY <2>4, <3>2 DEF Distinct, IInv
    <2>8. Given'
      <3> SUFFICES ASSUME NEW j \in Id, jobs'[j].state = "running"
                   PROVE  Claim(j, jobs'[j].lease_owner, jobs'[j].attempts) \in claims'
        BY DEF Given
      <3>1. CASE j = i
        BY <2>2, <2>4, <3>1
      <3>2. CASE j # i
        <4>1. Rests(jobs[j], jobs'[j])
          BY <2>1, <3>2 DEF Moved, Created, Deleted, Left
        <4>2. QED BY <2>4, <4>1 DEF Rests, IInv, Given
      <3>3. QED BY <3>1, <3>2
    <2>9. QED BY <1>3, <2>5, <2>6, <2>7, <2>8 DEF IInv
  <1>9. QED BY <1>1, <1>7, <1>8 DEF Step

\* The invariant that carries everything below.
THEOREM Invariance == Spec => []IInv
  BY InitIInv, NextIInv, PTL DEF Spec

\* A job in the queue always has an attempt left, in every reachable state.
THEOREM AttemptsLeft == Spec => [](TypeOK /\ QueuedHasAttempts)
  <1>1. IInv => TypeOK /\ QueuedHasAttempts
    BY DEF IInv, Counted, QueuedHasAttempts
  <1>2. QED BY <1>1, Invariance, PTL

\* Of all the workers that were ever given a job one at most can still report
\* on it, and while it runs one can.
THEOREM FenceIsExclusive == Spec => []OneFenced
  <1>1. IInv => OneFenced
    <2> SUFFICES ASSUME IInv, NEW i \in Id PROVE
          /\ \A c, d \in claims : c.id = i /\ d.id = i /\ _fenced(jobs, c) /\ _fenced(jobs, d) => c = d
          /\ jobs[i].state = "running" => \E c \in claims : c.id = i /\ _fenced(jobs, c)
      BY DEF OneFenced
    <2>1. \A c, d \in claims : c.id = i /\ d.id = i /\ _fenced(jobs, c) /\ _fenced(jobs, d) => c = d
      BY DEF _fenced, IInv, Distinct
    <2>2. ASSUME jobs[i].state = "running" PROVE \E c \in claims : c.id = i /\ _fenced(jobs, c)
      <3>1. Claim(i, jobs[i].lease_owner, jobs[i].attempts) \in claims
        BY <2>2 DEF IInv, Given
      <3>2. QED BY <2>2, <3>1 DEF Claim, _fenced
    <2>3. QED BY <2>1, <2>2
  <1>2. QED BY <1>1, Invariance, PTL

\* A finished job stays as it ended until it is deleted, and nothing deletes a
\* job that has not ended.
THEOREM EndsStay == Spec => EndIsFinal
  <1>1. IInv /\ [Next]_vars =>
          [\A i \in Id :
             /\ jobs[i].state \in Settled => jobs'[i].state \in {jobs[i].state, "gone"}
             /\ jobs[i].state \in Pending => jobs'[i].state \in Stored]_vars
    <2> SUFFICES ASSUME IInv, [Next]_vars, NEW i \in Id
                 PROVE /\ jobs[i].state \in Settled => jobs'[i].state \in {jobs[i].state, "gone"}
                       /\ jobs[i].state \in Pending => jobs'[i].state \in Stored
      OBVIOUS
    <2>1. Step
      BY NextStep DEF IInv
    <2>2. Moved(jobs[i], jobs'[i]) \/ \E o \in Owner : Lends(jobs[i], jobs'[i], o)
      BY <2>1 DEF Step, AllMoved, OneLent
    <2>3. QED
      BY <2>2 DEF Moved, Rests, Created, Deleted, Left, Lends, Stored, Pending, Settled
  <1>2. QED BY <1>1, Invariance, PTL DEF Spec, EndIsFinal

\* The queue implements bounded at-least-once delivery.
THEOREM DeliversAtLeastOnce == Spec => Delivers
  <1> DEFINE st == [i \in Id |-> CASE jobs[i].state \in Pending -> "open"
                                    [] jobs[i].state \in Settled -> "ended"
                                    [] OTHER -> jobs[i].state]
             tr == [i \in Id |-> jobs[i].attempts]
  <1>1. Init => Delivery!Init
    BY DEF Init, NoRow, Delivery!Init, Pending, Settled
  <1>2. IInv /\ [Next]_vars => [Delivery!Next]_(Delivery!vars)
    <2> SUFFICES ASSUME IInv, [Next]_vars PROVE Delivery!Next
      OBVIOUS
    <2>1. Step
      BY NextStep DEF IInv
    <2>2. Counted'
      BY NextIInv DEF IInv
    <2>3. jobs \in [Id -> Row] /\ jobs' \in [Id -> Row]
      BY <2>1 DEF IInv, TypeOK, Step
    <2>4. \A i \in Id : /\ jobs[i].attempts \in Nat /\ jobs'[i].attempts \in Nat
                        /\ jobs[i].max_attempts \in Nat /\ jobs'[i].max_attempts \in Nat
                        /\ jobs[i].state \in Stored \union {"none", "gone"}
                        /\ jobs'[i].state \in Stored \union {"none", "gone"}
      BY <2>3 DEF Row
    <2>5. st' \in [Id -> {"none", "open", "ended", "gone"}]
      BY <2>4 DEF Stored, Pending, Settled
    <2>6. tr' \in [Id -> 0..MAX_ATTEMPTS_CAP]
      BY <2>2, <2>4, QueueAssumption DEF Counted
    <2>7. ASSUME NEW i \in Id
          PROVE  Delivery!Submit(i) \/ Delivery!Attempt(i) \/ Delivery!End(i)
                   \/ Delivery!Forget(i) \/ Delivery!Rest(i)
      <3>1. Moved(jobs[i], jobs'[i]) \/ \E o \in Owner : Lends(jobs[i], jobs'[i], o)
        BY <2>1 DEF Step, AllMoved, OneLent
      <3>2. CASE Rests(jobs[i], jobs'[i])
        BY <3>2 DEF Rests, Delivery!Rest
      <3>3. CASE Created(jobs[i], jobs'[i])
        BY <3>3 DEF Created, Delivery!Submit, Pending, Settled
      <3>4. CASE Deleted(jobs[i], jobs'[i])
        BY <3>4 DEF Deleted, Delivery!Forget, Pending, Settled
      <3>5. CASE Left(jobs[i], jobs'[i])
        <4>1. jobs[i].attempts > 0
          BY <3>5 DEF Left, IInv, Counted
        <4>2. QED BY <3>5, <4>1 DEF Left, Delivery!End, Delivery!Rest, Pending, Settled
      <3>6. ASSUME NEW o \in Owner, Lends(jobs[i], jobs'[i], o) PROVE Delivery!Attempt(i)
        <4>1. jobs[i].max_attempts \in 1..MAX_ATTEMPTS_CAP
          BY <3>6 DEF Lends, IInv, Counted, Stored
        <4>2. jobs[i].attempts < MAX_ATTEMPTS_CAP
          BY <2>4, <3>6, <4>1, QueueAssumption DEF Lends
        <4>3. QED BY <3>6, <4>2 DEF Lends, Delivery!Attempt, Pending, Settled
      <3>7. QED BY <3>1, <3>2, <3>3, <3>4, <3>5, <3>6 DEF Moved
    <2>8. QED BY <2>5, <2>6, <2>7 DEF Delivery!Next
  <1>3. QED BY <1>1, <1>2, Invariance, PTL DEF Spec, Delivers, Delivery!Spec
-----------------------------------------------------------------------------
(* Where rows come from.  Only a request or a follow-up makes one, one at a *)
(* time, and each asks for its key, a request for the quota and the cap, in *)
(* the transaction that inserts.                                            *)

Asked(tn) == {i \in RowsOf(jobs, tn) : ~jobs[i].internal}
Awaited(tn) == {i \in PendingOf(jobs, tn) : ~jobs[i].internal}

NoneNew == \A i \in Id : jobs[i].state = "none" => jobs'[i].state = "none"
OneNew(i, tn, k) ==
  /\ ~HasKey(jobs, tn, k)
  /\ jobs'[i].tenant = tn /\ jobs'[i].key = k
  /\ \A j \in Id \ {i} : jobs[j].state = "none" => jobs'[j].state = "none"
  /\ ~jobs'[i].internal =>
       /\ Cardinality(PendingOf(jobs, tn)) < Limit
       /\ \E R \in SUBSET Id : Cardinality(R) < RowCap /\ RowsOf(jobs, tn)' \subseteq R \union {i}

LEMMA WithoutKeeps ==
  ASSUME NEW T, NEW D \in SUBSET Id, NEW j \in Id
  PROVE  Without(T, D)[j].state \in Stored => j \notin D /\ Without(T, D)[j] = T[j]
  BY DEF Without, NoRow, Stored, Pending, Settled

LEMMA RequestMakesOne ==
  ASSUME TypeOK, NEW tn \in Tenant, NEW b \in Body, NEW k \in Key \union {None},
         NEW n \in Tries, NEW d \in Delay, enqueue(tn, b, k, n, d)
  PROVE  \E i \in Id : OneNew(i, tn, k)
<1>1. PICK i \in Id, D \in SUBSET Id :
        /\ ~HasKey(jobs, tn, k) /\ Cardinality(PendingOf(jobs, tn)) < Limit
        /\ Cardinality(RowsOf(jobs, tn) \ D) < RowCap
        /\ IF Cardinality(RowsOf(jobs, tn)) >= RowCap THEN MayDrop(jobs, tn, D) ELSE D = {}
        /\ jobs' = [Without(jobs, D) EXCEPT ![i] = NewRow(tn, b, k, n, d, FALSE)]
  BY DEF enqueue, EnqueueRequest
<1>2. PICK r : r = NewRow(tn, b, k, n, d, FALSE)
  OBVIOUS
<1>3. r.tenant = tn /\ r.key = k /\ r.internal = FALSE
  BY <1>2 DEF NewRow
<1>4. PICK W : W = Without(jobs, D)
  OBVIOUS
<1>5. DOMAIN W = Id
  BY <1>4 DEF Without
<1>6. jobs' = [W EXCEPT ![i] = r]
  BY <1>1, <1>2, <1>4
<1>7. jobs'[i] = r /\ \A j \in Id \ {i} : jobs'[j] = W[j]
  BY <1>5, <1>6
<1>8. \A j \in Id : W[j].state \in Stored => j \notin D /\ W[j] = jobs[j]
  BY <1>4, WithoutKeeps
<1>9. \A j \in D : jobs[j].state \in Settled
  BY <1>1 DEF MayDrop, Droppable
<1>10. \A j \in Id \ {i} : jobs[j].state = "none" => jobs'[j].state = "none"
  <2> SUFFICES ASSUME NEW j \in Id \ {i}, jobs[j].state = "none" PROVE jobs'[j].state = "none"
    OBVIOUS
  <2>1. j \notin D
    BY <1>9 DEF Settled
  <2>2. W[j] = jobs[j]
    BY <1>4, <2>1 DEF Without
  <2> QED
    BY <1>7, <2>2
<1>11. RowsOf(jobs, tn)' \subseteq (RowsOf(jobs, tn) \ D) \union {i}
  <2> SUFFICES ASSUME NEW j \in Id, jobs'[j].state \in Stored, jobs'[j].tenant = tn, j # i
               PROVE  j \in RowsOf(jobs, tn) \ D
    BY DEF RowsOf
  <2> QED
    BY <1>7, <1>8 DEF RowsOf
<1>12. RowsOf(jobs, tn) \ D \in SUBSET Id
  BY DEF RowsOf
<1> QED
  BY <1>1, <1>3, <1>7, <1>10, <1>11, <1>12 DEF OneNew

LEMMA FollowUpMakesOne ==
  ASSUME TypeOK, NEW tn \in Tenant, NEW b \in Body, NEW k \in Key \union {None},
         NEW n \in Tries, enqueue_internal(tn, b, k, n)
  PROVE  \E i \in Id : OneNew(i, tn, k)
<1>1. PICK i \in Id : ~HasKey(jobs, tn, k) /\ jobs' = [jobs EXCEPT ![i] = NewRow(tn, b, k, n, 0, TRUE)]
  BY DEF enqueue_internal, EnqueueInternal
<1>2. PICK r : r = NewRow(tn, b, k, n, 0, TRUE)
  OBVIOUS
<1>3. r.tenant = tn /\ r.key = k /\ r.internal = TRUE
  BY <1>2 DEF NewRow
<1>4. DOMAIN jobs = Id /\ jobs' = [jobs EXCEPT ![i] = r]
  BY <1>1, <1>2 DEF TypeOK
<1>5. jobs'[i] = r /\ \A j \in Id \ {i} : jobs'[j] = jobs[j]
  BY <1>4
<1>6. jobs'[i].internal /\ jobs'[i].tenant = tn /\ jobs'[i].key = k
  BY <1>3, <1>5
<1>7. \A j \in Id \ {i} : jobs[j].state = "none" => jobs'[j].state = "none"
  BY <1>5
<1>8. OneNew(i, tn, k)
  BY <1>1, <1>6, <1>7, Zenon DEF OneNew
<1> QED
  BY <1>8

LEMMA Origin ==
  ASSUME TypeOK, Counted, [Next]_vars
  PROVE  NoneNew \/ \E i \in Id, tn \in Tenant, k \in Key \union {None} : OneNew(i, tn, k)
<1>1. jobs \in [Id -> Row] /\ claims \subseteq [id : Id, lease_owner : Owner, attempts : Nat \ {0}]
  BY DEF TypeOK
<1>2. ASSUME NEW o \in Owner, claim(o) PROVE NoneNew
  <2>1. PICK T : T = Reap(jobs)
    OBVIOUS
  <2>2. \A j \in Id : Kept(jobs[j], T[j]) /\ Moved(jobs[j], T[j])
    BY <1>1, <2>1, ReapLemma
  <2>3. CASE jobs' = T
    <3> SUFFICES ASSUME NEW j \in Id, jobs[j].state = "none" PROVE jobs'[j].state = "none"
      BY DEF NoneNew
    <3>1. jobs'[j].state \in Stored \union {"none", "gone"}
      BY <1>1, <2>1, <2>3, ReapLemma DEF Row
    <3>2. jobs'[j].state \notin Stored
      BY <2>2, <2>3 DEF Kept, Stored, Pending, Settled
    <3>3. jobs'[j].state # "gone"
      BY <2>2, <2>3 DEF Moved, Rests, Created, Deleted, Left, Settled
    <3> QED
      BY <3>1, <3>2, <3>3
  <2>4. ASSUME NEW i \in Id, First(T, i), jobs' = Lent(T, i, o) PROVE NoneNew
    <3>1. /\ jobs' \in [Id -> Row] /\ \A j \in Id : Kept(jobs[j], jobs'[j])
          /\ Lends(jobs[i], jobs'[i], o) /\ \A j \in Id \ {i} : Moved(jobs[j], jobs'[j])
      BY <1>1, <2>1, <2>4, LentLemma
    <3> SUFFICES ASSUME NEW j \in Id, jobs[j].state = "none" PROVE jobs'[j].state = "none"
      BY DEF NoneNew
    <3>2. jobs'[j].state \in Stored \union {"none", "gone"}
      BY <3>1 DEF Row
    <3>3. jobs'[j].state \notin Stored
      BY <3>1 DEF Kept, Stored, Pending, Settled
    <3>4. j # i
      BY <3>1 DEF Lends, Pending
    <3>5. jobs'[j].state # "gone"
      BY <3>1, <3>4 DEF Moved, Rests, Created, Deleted, Left, Settled
    <3> QED
      BY <3>2, <3>3, <3>5
  <2> QED
    BY <1>2, <2>1, <2>3, <2>4 DEF claim
<1>3. ASSUME NEW c \in claims, heartbeat(c) \/ complete(c) \/ \E permanent \in BOOLEAN : fail(c, permanent)
      PROVE  NoneNew
  <2>1. c.id \in Id /\ jobs[c.id].state = "running"
    BY <1>1, <1>3 DEF heartbeat, complete, fail, _fenced
  <2>2. \A j \in Id \ {c.id} : jobs'[j] = jobs[j]
    BY <1>1, <1>3, <2>1 DEF heartbeat, complete, fail, Beaten, Completed, Failed
  <2> QED
    BY <2>1, <2>2 DEF NoneNew
<1>4. CASE purge
  <2> SUFFICES ASSUME NEW j \in Id, jobs[j].state = "none" PROVE jobs'[j].state = "none"
    BY DEF NoneNew
  <2> QED
    BY <1>4 DEF purge, Purged, Without, Settled
<1>5. CASE Tick
  <2> SUFFICES ASSUME NEW j \in Id, jobs[j].state = "none" PROVE jobs'[j].state = "none"
    BY DEF NoneNew
  <2> QED
    BY <1>5 DEF Tick, Later, Older, Pending, Settled
<1>6. CASE UNCHANGED vars
  BY <1>6 DEF vars, NoneNew
<1> QED
  BY <1>2, <1>3, <1>4, <1>5, <1>6, RequestMakesOne, FollowUpMakesOne DEF Next

\* A row that is not new was there as the same job, and was pending if it is.
LEMMA OldRows ==
  ASSUME TypeOK, Counted, [Next]_vars, NEW j \in Id, jobs'[j].state \in Stored, jobs[j].state # "none"
  PROVE  /\ jobs[j].state \in Stored /\ SameJob(jobs[j], jobs'[j])
         /\ jobs'[j].state \in Pending => jobs[j].state \in Pending
<1>1. Moved(jobs[j], jobs'[j]) \/ \E o \in Owner : Lends(jobs[j], jobs'[j], o)
  BY NextStep DEF Step, AllMoved, OneLent
<1> QED
  BY <1>1 DEF Moved, Rests, Created, Deleted, Left, Lends, Stored, Pending, Settled

LEMMA StoredIsNotNone == "none" \notin Stored
  BY DEF Stored, Pending, Settled

\* A dedupe key finds the one job it was given for: no two stored jobs of a
\* tenant share it, so the unique index is never hit.
THEOREM KeysStayUnique == Spec => []KeysAreUnique
<1>1. Init => KeysAreUnique
  BY StoredIsNotNone DEF Init, KeysAreUnique, NoRow
<1>2. KeysAreUnique /\ IInv /\ [Next]_vars => KeysAreUnique'
  <2> SUFFICES ASSUME KeysAreUnique, IInv, [Next]_vars, NEW i \in Id, NEW j \in Id,
                      jobs'[i].state \in Stored, jobs'[i].key # None, jobs'[j].state \in Stored,
                      jobs'[j].tenant = jobs'[i].tenant, jobs'[j].key = jobs'[i].key, i # j
               PROVE  FALSE
    BY DEF KeysAreUnique
  <2>1. TypeOK /\ Counted
    BY DEF IInv
  <2>2. \A h \in {i, j} : jobs[h].state # "none" => jobs[h].state \in Stored /\ SameJob(jobs[h], jobs'[h])
    BY <2>1, OldRows
  <2>3. jobs[i].state = "none" \/ jobs[j].state = "none"
    BY <2>2 DEF KeysAreUnique, SameJob
  <2>4. ~NoneNew
    BY <2>3, StoredIsNotNone DEF NoneNew
  <2>5. PICK n \in Id, tn \in Tenant, k \in Key \union {None} : OneNew(n, tn, k)
    BY <2>1, <2>4, Origin
  <2>6. ASSUME NEW g \in {i, j}, NEW h \in {i, j}, g # h, n = g PROVE FALSE
    <3>1. jobs[h].state # "none"
      BY <2>5, <2>6, StoredIsNotNone DEF OneNew
    <3>2. h \in Id /\ jobs[h].state \in Stored /\ jobs[h].tenant = tn /\ jobs[h].key = k /\ k # None
      BY <2>2, <2>5, <2>6, <3>1 DEF OneNew, SameJob
    <3>3. HasKey(jobs, tn, k)
      BY <3>2 DEF HasKey, RowsOf
    <3> QED
      BY <2>5, <3>3 DEF OneNew
  <2>7. n \in {i, j}
    BY <2>3, <2>5, StoredIsNotNone DEF OneNew
  <2> QED
    BY <2>6, <2>7
<1> QED
  BY <1>1, <1>2, Invariance, PTL DEF Spec

\* Finite sets of jobs.
LEMMA FewerJobs ==
  ASSUME NEW B \in SUBSET Id, NEW A \in SUBSET B
  PROVE  IsFiniteSet(A) /\ Cardinality(A) \in Nat /\ Cardinality(B) \in Nat /\ Cardinality(A) <= Cardinality(B)
<1>1. IsFiniteSet(Id)
  BY FS_Interval, QueueAssumption DEF Id
<1>2. IsFiniteSet(B) /\ IsFiniteSet(A)
  BY <1>1, FS_Subset
<1> QED
  BY <1>2, FS_Subset, FS_CardinalityType

LEMMA OneMoreJob ==
  ASSUME NEW B \in SUBSET Id, NEW i \in Id, NEW A \in SUBSET (B \union {i}), NEW N \in Nat, Cardinality(B) < N
  PROVE  Cardinality(A) <= N
<1>1. IsFiniteSet(B) /\ Cardinality(B) \in Nat
  BY FewerJobs
<1>2. Cardinality(B \union {i}) = (IF i \in B THEN Cardinality(B) ELSE Cardinality(B) + 1)
  BY <1>1, FS_AddElement
<1>3. Cardinality(A) <= Cardinality(B \union {i}) /\ Cardinality(A) \in Nat
  BY FewerJobs
<1> QED
  BY <1>1, <1>2, <1>3

\* Whatever the workers add and take back meanwhile, what requesters put into a
\* tenant's queue stays within the pending quota and the row cap.
THEOREM QuotaIsKept == Spec => []QuotaHolds
<1>1. Init => QuotaHolds
  <2> SUFFICES ASSUME Init, NEW tn \in Tenant
               PROVE  Cardinality(Awaited(tn)) <= Limit /\ Cardinality(Asked(tn)) <= RowCap
    BY DEF QuotaHolds, Awaited, Asked
  <2>1. Awaited(tn) = {} /\ Asked(tn) = {}
    BY StoredIsNotNone DEF Init, Awaited, Asked, PendingOf, RowsOf, NoRow
  <2> QED
    BY <2>1, FS_EmptySet, QueueAssumption
<1>2. QuotaHolds /\ IInv /\ [Next]_vars => QuotaHolds'
  <2> SUFFICES ASSUME QuotaHolds, IInv, [Next]_vars, NEW tn \in Tenant
               PROVE  Cardinality(Awaited(tn)') <= Limit /\ Cardinality(Asked(tn)') <= RowCap
    BY DEF QuotaHolds, Awaited, Asked
  <2>1. TypeOK /\ Counted
    BY DEF IInv
  <2>2. Limit \in Nat /\ RowCap \in Nat
    BY QueueAssumption
  <2>3. PICK P, P1, R, R1 : P = Awaited(tn) /\ P1 = Awaited(tn)' /\ R = Asked(tn) /\ R1 = Asked(tn)'
    OBVIOUS
  <2>4. Cardinality(P) <= Limit /\ Cardinality(R) <= RowCap
    BY <2>3 DEF QuotaHolds, Awaited, Asked
  <2>5. P \in SUBSET Id /\ P1 \in SUBSET Id /\ R \in SUBSET Id /\ R1 \in SUBSET Id
    BY <2>3 DEF Awaited, Asked, PendingOf, RowsOf
  <2>6. \A j \in Id : /\ j \in P1 /\ jobs[j].state # "none" => j \in P
                      /\ j \in R1 /\ jobs[j].state # "none" => j \in R
    BY <2>1, <2>3, OldRows DEF Awaited, Asked, PendingOf, RowsOf, SameJob
  <2>7. \A j \in R1 : jobs'[j].state \in Stored /\ jobs'[j].tenant = tn /\ ~jobs'[j].internal
    BY <2>3 DEF Asked, RowsOf
  <2>8. P1 \subseteq R1
    BY <2>3 DEF Awaited, Asked, PendingOf
  <2>9. ASSUME \A j \in R1 : jobs[j].state # "none" PROVE Cardinality(P1) <= Limit /\ Cardinality(R1) <= RowCap
    <3>1. P1 \in SUBSET P /\ R1 \in SUBSET R
      BY <2>5, <2>6, <2>8, <2>9
    <3>2. /\ Cardinality(P1) <= Cardinality(P) /\ Cardinality(R1) <= Cardinality(R)
          /\ Cardinality(P1) \in Nat /\ Cardinality(R1) \in Nat /\ Cardinality(P) \in Nat /\ Cardinality(R) \in Nat
      BY <2>5, <3>1, FewerJobs
    <3> QED
      BY <2>2, <2>4, <3>2
  <2>10. ASSUME NEW g \in R1, jobs[g].state = "none" PROVE Cardinality(P1) <= Limit /\ Cardinality(R1) <= RowCap
    <3>1. ~NoneNew
      BY <2>5, <2>7, <2>10, StoredIsNotNone DEF NoneNew
    <3>2. PICK i \in Id, t \in Tenant, k \in Key \union {None} : OneNew(i, t, k)
      BY <2>1, <3>1, Origin
    <3>3. i = g /\ t = tn /\ ~jobs'[i].internal
      BY <2>5, <2>7, <2>10, <3>2, StoredIsNotNone DEF OneNew
    <3>4. Cardinality(PendingOf(jobs, tn)) < Limit
      BY <3>2, <3>3 DEF OneNew
    <3>5. PICK B \in SUBSET Id : Cardinality(B) < RowCap /\ RowsOf(jobs, tn)' \subseteq B \union {i}
      BY <3>2, <3>3 DEF OneNew
    <3>6. \A j \in R1 : j # i => jobs[j].state # "none"
      BY <2>5, <2>7, <3>2, StoredIsNotNone DEF OneNew
    <3>7. R1 \in SUBSET (B \union {i})
      BY <2>3, <3>5 DEF Asked
    <3>8. P1 \in SUBSET (PendingOf(jobs, tn) \union {i})
      <4>1. P \subseteq PendingOf(jobs, tn)
        BY <2>3 DEF Awaited
      <4> QED
        BY <2>5, <2>6, <2>8, <3>6, <4>1
    <3>9. PendingOf(jobs, tn) \in SUBSET Id
      BY DEF PendingOf, RowsOf
    <3> QED
      BY <2>2, <3>4, <3>5, <3>7, <3>8, <3>9, OneMoreJob
  <2> QED
    BY <2>3, <2>9, <2>10
<1> QED
  BY <1>1, <1>2, Invariance, PTL DEF Spec
-----------------------------------------------------------------------------
(* The workers.  What a worker believes of its job stays true although the *)
(* row may be taken back, lent to another, finished or deleted under it:   *)
(* an id is never reused, a row keeps its body while it is stored, and a   *)
(* decision on record is never replaced.                                   *)

OnRecord(i) == \E e \in Entry : decision[e] = i
WorkDone(i, tn, b) ==
  IF b.kind = "grade"
  THEN /\ decision[<<tn, b.artifact>>] = i
       /\ b.notify => \E n \in 1..MAX_ATTEMPTS_CAP : NotifyKey(i, n) \in announced
  ELSE b.about \in delivered

\* A stored job is about something on record, and done if it says so.
SoundRow(i) ==
  jobs[i].state \in Stored =>
    /\ jobs[i].tenant \in Tenant /\ jobs[i].body \in Body
    /\ jobs[i].body.kind = "webhook" => OnRecord(jobs[i].body.about)
    /\ jobs[i].key # None => jobs[i].key \in announced
    /\ jobs[i].state = "done" => WorkDone(i, jobs[i].tenant, jobs[i].body)

\* A worker's copy of its job is the job, whatever became of the row, and the
\* point it has reached is true of the log.
SoundWorker(o) ==
  LET w == worker[o]
      i == w.claim.id
  IN w.at # "idle" =>
       /\ w.claim.attempts > 0 /\ w.tenant \in Tenant /\ w.body \in Body
       /\ jobs[i].state # "none"
       /\ jobs[i].state \in Stored => jobs[i].tenant = w.tenant /\ jobs[i].body = w.body
       /\ w.at \in {"grade", "decided"} => w.body.kind = "grade"
       /\ w.at = "webhook" => w.body.kind = "webhook"
       /\ w.body.kind = "webhook" => OnRecord(w.body.about)
       /\ w.at = "decided" => decision[<<w.tenant, w.body.artifact>>] = i
       /\ w.at = "finish" => WorkDone(i, w.tenant, w.body)

Announced == \A i \in Id, n \in 1..MAX_ATTEMPTS_CAP : NotifyKey(i, n) \in announced => OnRecord(i)
Informed == \A i \in delivered : OnRecord(i)

WorkerInv ==
  /\ WorkerTypeOK /\ Counted
  /\ \A i \in Id : SoundRow(i)
  /\ \A o \in Owner : SoundWorker(o)
  /\ Announced /\ Informed

\* What is on record, announced or delivered stays so.
Grows ==
  /\ \A e \in Entry : decision[e] \in Id => decision'[e] = decision[e]
  /\ announced \subseteq announced' /\ delivered \subseteq delivered'

\* A step of the workers' system, as far as the invariant looks at it.
WorkerStep ==
  /\ WorkerTypeOK' /\ Grows
  /\ \A i \in Id : Moved(jobs[i], jobs'[i]) \/ \E o \in Owner : Lends(jobs[i], jobs'[i], o)
  /\ \A i \in Id : Kept(jobs[i], jobs'[i]) \/ SoundRow(i)'
  /\ \A o \in Owner : worker'[o] = worker[o] \/ SoundWorker(o)'
  /\ announced' = announced \/ Announced'
  /\ delivered' = delivered \/ Informed'

LEMMA BodyLemma ==
  ASSUME NEW b \in Body
  PROVE  /\ b.kind \in {"grade", "webhook"}
         /\ b.kind = "grade" => b.artifact \in Artifact /\ b.notify \in BOOLEAN
         /\ b.kind = "webhook" => b.about \in Id
  BY WorkerAssumption DEF GradeBody, WebhookBody

\* What was true of the log stays true.
LEMMA GrowsLemma ==
  ASSUME Grows, NEW i \in Id
  PROVE  /\ OnRecord(i) => OnRecord(i)'
         /\ \A tn \in Tenant, b \in Body : WorkDone(i, tn, b) => WorkDone(i, tn, b)'
  <1>1. OnRecord(i) => OnRecord(i)'
    BY DEF Grows, OnRecord
  <1>2. ASSUME NEW tn \in Tenant, NEW b \in Body, WorkDone(i, tn, b) PROVE WorkDone(i, tn, b)'
    <2>1. CASE b.kind = "grade"
      <3>1. <<tn, b.artifact>> \in Entry
        BY <2>1, BodyLemma DEF Entry
      <3>2. QED BY <1>2, <2>1, <3>1 DEF WorkDone, Grows
    <2>2. CASE b.kind # "grade"
      BY <1>2, <2>2 DEF WorkDone, Grows
    <2>3. QED BY <2>1, <2>2
  <1>3. QED BY <1>1, <1>2

LEMMA FollowsLemma ==
  ASSUME NEW r \in Row, NEW s \in Row, Moved(r, s) \/ (\E o \in Owner : Lends(r, s, o)),
         r.state # "none"
  PROVE  s.state # "none" /\ (s.state \in Stored => r.state \in Stored /\ SameJob(r, s))
  BY DEF Moved, Rests, Created, Deleted, Left, Lends, SameJob, Row, Stored, Pending, Settled

LEMMA WorkerStepInv == ASSUME WorkerInv, WorkerStep PROVE WorkerInv'
  <1>1. /\ jobs \in [Id -> Row] /\ jobs' \in [Id -> Row] /\ Grows
        /\ \A o \in Owner : worker[o].claim.id \in Id
    BY DEF WorkerInv, WorkerStep, WorkerTypeOK, Activity
  <1>2. Counted'
    BY <1>1, StepCounted DEF WorkerInv, WorkerStep
  <1>3. ASSUME NEW i \in Id PROVE SoundRow(i)'
    <2>1. CASE Kept(jobs[i], jobs'[i])
      <3> SUFFICES ASSUME jobs'[i].state \in Stored PROVE SoundRow(i)'
        BY DEF SoundRow
      <3>1. jobs[i].state \in Stored /\ SameJob(jobs[i], jobs'[i]) /\ SoundRow(i)
        BY <2>1 DEF Kept, WorkerInv
      <3>2. PICK tn \in Tenant, b \in Body : tn = jobs[i].tenant /\ b = jobs[i].body
        BY <3>1 DEF SoundRow
      <3>3. jobs'[i].tenant = tn /\ jobs'[i].body = b /\ jobs'[i].key = jobs[i].key
        BY <3>1, <3>2 DEF SameJob
      <3>4. b.kind = "webhook" => OnRecord(b.about)'
        BY <1>1, <3>1, <3>2, BodyLemma, GrowsLemma DEF SoundRow
      <3>5. jobs'[i].key # None => jobs'[i].key \in announced'
        BY <1>1, <3>1, <3>3 DEF SoundRow, Grows
      <3>6. jobs'[i].state = "done" => WorkDone(i, tn, b)'
        BY <1>1, <2>1, <3>1, <3>2, GrowsLemma DEF SoundRow, Kept
      <3>7. QED BY <3>3, <3>4, <3>5, <3>6 DEF SoundRow
    <2>2. QED BY <2>1 DEF WorkerStep
  <1>4. ASSUME NEW o \in Owner PROVE SoundWorker(o)'
    <2>1. CASE worker'[o] = worker[o] /\ worker[o].at # "idle"
      <3>1. PICK w : w = worker[o]
        OBVIOUS
      <3>2. PICK i \in Id : i = w.claim.id
        BY <1>1, <3>1
      <3>3. SoundWorker(o) /\ jobs[i].state # "none"
        BY <2>1, <3>1, <3>2 DEF WorkerInv, SoundWorker
      <3>4. /\ jobs'[i].state # "none"
            /\ jobs'[i].state \in Stored => jobs[i].state \in Stored /\ SameJob(jobs[i], jobs'[i])
        <4>1. Moved(jobs[i], jobs'[i]) \/ \E p \in Owner : Lends(jobs[i], jobs'[i], p)
          BY DEF WorkerStep
        <4>2. QED BY <1>1, <3>3, <4>1, FollowsLemma
      <3>5. PICK tn \in Tenant, b \in Body : tn = w.tenant /\ b = w.body
        BY <2>1, <3>1, <3>3 DEF SoundWorker
      <3>6. jobs'[i].state \in Stored => jobs'[i].tenant = tn /\ jobs'[i].body = b
        BY <2>1, <3>1, <3>2, <3>3, <3>4, <3>5 DEF SoundWorker, SameJob
      <3>7. b.kind = "webhook" => OnRecord(b.about)'
        BY <1>1, <2>1, <3>1, <3>3, <3>5, BodyLemma, GrowsLemma DEF SoundWorker
      <3>8. w.at = "decided" => decision'[<<tn, b.artifact>>] = i
        <4>1. SUFFICES ASSUME w.at = "decided" PROVE decision'[<<tn, b.artifact>>] = i
          OBVIOUS
        <4>2. b.kind = "grade" /\ decision[<<tn, b.artifact>>] = i
          BY <2>1, <3>1, <3>2, <3>3, <3>5, <4>1 DEF SoundWorker
        <4>3. <<tn, b.artifact>> \in Entry
          BY <4>2, BodyLemma DEF Entry
        <4>4. QED BY <1>1, <4>2, <4>3 DEF Grows
      <3>9. w.at = "finish" => WorkDone(i, tn, b)'
        BY <1>1, <2>1, <3>1, <3>2, <3>3, <3>5, GrowsLemma DEF SoundWorker
      <3>10. QED
        BY <2>1, <3>1, <3>2, <3>3, <3>4, <3>5, <3>6, <3>7, <3>8, <3>9 DEF SoundWorker
    <2>2. CASE worker'[o] = worker[o] /\ worker[o].at = "idle"
      BY <2>2 DEF SoundWorker
    <2>3. QED BY <2>1, <2>2 DEF WorkerStep
  <1>5. Announced'
    BY <1>1, GrowsLemma DEF Announced, WorkerStep, WorkerInv
  <1>6. Informed'
    <2>1. delivered \subseteq Id
      BY DEF WorkerInv, WorkerTypeOK
    <2>2. QED BY <1>1, <2>1, GrowsLemma DEF Informed, WorkerStep, WorkerInv
  <1>7. QED BY <1>2, <1>3, <1>4, <1>5, <1>6 DEF WorkerInv, WorkerStep

\* A worker that moves on in its job.
LEMMA GotoLemma ==
  ASSUME WorkerTypeOK, NEW o \in Owner, NEW a \in {"decided", "finish", "failing"},
         NEW e \in {"none", "permanent", "transient", "duplicate"},
         \/ worker' = [worker EXCEPT ![o].at = a]
         \/ worker' = [worker EXCEPT ![o].at = a, ![o].error = e]
  PROVE  /\ worker' \in [Owner -> Activity]
         /\ worker'[o].at = a /\ worker'[o].claim = worker[o].claim
         /\ worker'[o].body = worker[o].body /\ worker'[o].tenant = worker[o].tenant
         /\ \A p \in Owner \ {o} : worker'[p] = worker[p]
  <1>1. worker[o] \in Activity /\ worker \in [Owner -> Activity]
    BY DEF WorkerTypeOK
  <1> DEFINE w == worker[o]
             v == [w EXCEPT !.at = a]
             u == [w EXCEPT !.at = a, !.error = e]
  <1>2. /\ v \in Activity /\ v.at = a /\ v.claim = w.claim /\ v.body = w.body /\ v.tenant = w.tenant
        /\ u \in Activity /\ u.at = a /\ u.claim = w.claim /\ u.body = w.body /\ u.tenant = w.tenant
    BY <1>1 DEF Activity
  <1>3. worker' = [worker EXCEPT ![o] = v] \/ worker' = [worker EXCEPT ![o] = u]
    OBVIOUS
  <1> HIDE DEF v, u
  <1>4. QED BY <1>1, <1>2, <1>3

LEMMA IdleLemma ==
  ASSUME WorkerTypeOK, NEW o \in Owner, worker' = [worker EXCEPT ![o] = Idle]
  PROVE  /\ worker' \in [Owner -> Activity] /\ SoundWorker(o)'
         /\ \A p \in Owner \ {o} : worker'[p] = worker[p]
  <1>1. Idle \in Activity /\ Idle.at = "idle"
    BY QueueAssumption, WorkerAssumption DEF Idle, Activity, Claim, Id
  <1>2. worker' \in [Owner -> Activity] /\ worker'[o] = Idle
        /\ \A p \in Owner \ {o} : worker'[p] = worker[p]
    BY <1>1 DEF WorkerTypeOK
  <1>3. SoundWorker(o)'
    BY <1>1, <1>2 DEF SoundWorker
  <1>4. QED BY <1>2, <1>3

LEMMA HeldTyped ==
  ASSUME WorkerInv, NEW o \in Owner, At(o) # "idle"
  PROVE  /\ Held(o).id \in Id /\ Held(o).attempts \in Nat \ {0}
         /\ Held(o).attempts \in 1..MAX_ATTEMPTS_CAP
         /\ worker[o].tenant \in Tenant /\ worker[o].body \in Body
         /\ jobs \in [Id -> Row] /\ Counted /\ WorkerTypeOK
  <1>1. worker[o] \in Activity /\ jobs \in [Id -> Row] /\ Counted /\ WorkerTypeOK
    BY DEF WorkerInv, WorkerTypeOK
  <1>2. worker[o].claim.id \in Id /\ worker[o].claim.attempts \in 0..MAX_ATTEMPTS_CAP
    BY <1>1 DEF Activity
  <1>3. worker[o].claim.attempts > 0 /\ worker[o].tenant \in Tenant /\ worker[o].body \in Body
    BY DEF WorkerInv, SoundWorker, At
  <1>4. QED BY <1>1, <1>2, <1>3, QueueAssumption DEF Held

\* A step that leaves the log, the announcements and the receivers alone and
\* neither creates nor finishes a job.
LEMMA TableStep ==
  ASSUME WorkerInv, NEW T \in [Id -> Row], jobs' = T,
         \A i \in Id : Moved(jobs[i], T[i]) \/ \E p \in Owner : Lends(jobs[i], T[i], p),
         \A i \in Id : Kept(jobs[i], T[i]) \/ SoundRow(i)',
         worker' \in [Owner -> Activity],
         \A o \in Owner : worker'[o] = worker[o] \/ SoundWorker(o)',
         UNCHANGED <<decision, archived, announced, delivered>>
  PROVE  WorkerStep
  <1>1. WorkerTypeOK'
    BY DEF WorkerInv, WorkerTypeOK
  <1>2. Grows
    BY DEF Grows
  <1>3. QED BY <1>1, <1>2 DEF WorkerStep

LEMMA SameTable ==
  ASSUME WorkerInv
  PROVE  jobs \in [Id -> Row] /\ \A i \in Id : Moved(jobs[i], jobs[i]) /\ Kept(jobs[i], jobs[i])
  BY DEF WorkerInv, WorkerTypeOK, Moved, Rests, Kept, SameJob

LEMMA SubmitStep ==
  ASSUME WorkerInv, NEW tn \in Tenant, NEW b \in GradeBody, Submit(tn, b)
  PROVE  WorkerStep
  <1>1. PICK i \in Id : Fresh(jobs, i) /\ EnqueueRequest(jobs, jobs', i, tn, b, None, GradeTries, 0)
    BY DEF Submit
  <1>2. PICK D \in SUBSET Id :
          /\ IF Cardinality(RowsOf(jobs, tn)) >= RowCap THEN MayDrop(jobs, tn, D) ELSE D = {}
          /\ jobs' = [Without(jobs, D) EXCEPT ![i] = NewRow(tn, b, None, GradeTries, 0, FALSE)]
    BY <1>1 DEF EnqueueRequest
  <1>3. \A j \in D : jobs[j].state \in Settled
    BY <1>2 DEF MayDrop, Droppable
  <1>4. GradeTries \in Int /\ 0 \in Nat /\ b \in Body /\ b.kind = "grade"
    BY WorkerAssumption DEF GradeBody
  <1>5. jobs[i].state = "none" /\ jobs \in [Id -> Row]
    BY <1>1 DEF Fresh, WorkerInv, WorkerTypeOK
  <1> DEFINE r == NewRow(tn, b, None, GradeTries, 0, FALSE)
  <1>6. r \in Row /\ Created(jobs[i], r)
    BY <1>4, <1>5, NewRowLemma DEF Created
  <1>7. r.state = "queued" /\ r.tenant = tn /\ r.body = b /\ r.key = None
    BY DEF NewRow
  <1> DEFINE W == Without(jobs, D)
  <1>8. /\ W \in [Id -> Row] /\ \A j \in Id : Moved(jobs[j], W[j]) /\ Kept(jobs[j], W[j])
        /\ jobs' = [W EXCEPT ![i] = r]
    BY <1>2, <1>3, <1>5, WithoutLemma
  <1> HIDE DEF r, W
  <1>9. /\ jobs' \in [Id -> Row] /\ jobs'[i] = r
        /\ \A j \in Id : Moved(jobs[j], jobs'[j])
        /\ \A j \in Id \ {i} : Kept(jobs[j], jobs'[j])
    BY <1>5, <1>6, <1>8, InsertLemma
  <1>10. SoundRow(i)'
    BY <1>4, <1>7, <1>9 DEF SoundRow
  <1>11. /\ worker' = worker /\ worker \in [Owner -> Activity]
         /\ UNCHANGED <<decision, archived, announced, delivered>>
    BY DEF Submit, log, WorkerInv, WorkerTypeOK
  <1>12. QED BY <1>9, <1>10, <1>11, TableStep

LEMMA TakeStep == ASSUME WorkerInv, NEW o \in Owner, Take(o) PROVE WorkerStep
  <1> DEFINE T == Reap(jobs)
  <1>1. PICK i \in Id :
          /\ First(T, i)
          /\ jobs' = Lent(T, i, o)
          /\ worker' = [worker EXCEPT ![o] =
               [at |-> T[i].body.kind, claim |-> Claim(i, o, T[i].attempts + 1),
                body |-> T[i].body, tenant |-> T[i].tenant, error |-> "none"]]
    BY DEF Take
  <1>2. jobs \in [Id -> Row] /\ Counted /\ worker \in [Owner -> Activity] /\ SoundRow(i)
    BY DEF WorkerInv, WorkerTypeOK
  <1>3. /\ jobs' \in [Id -> Row] /\ Lends(jobs[i], jobs'[i], o)
        /\ SameJob(jobs[i], T[i]) /\ T[i].attempts = jobs[i].attempts
        /\ \A j \in Id \ {i} : Moved(jobs[j], jobs'[j])
        /\ \A j \in Id : Kept(jobs[j], jobs'[j])
    BY <1>1, <1>2, LentLemma
  <1> HIDE DEF T
  <1>4. /\ jobs[i].state \in Stored /\ jobs'[i].state = "running"
        /\ jobs'[i].tenant = T[i].tenant /\ jobs'[i].body = T[i].body
    BY <1>3 DEF Lends, SameJob, Stored
  <1>5. PICK tn \in Tenant, b \in Body, n \in 1..MAX_ATTEMPTS_CAP :
          tn = T[i].tenant /\ b = T[i].body /\ n = T[i].attempts + 1
    <2>1. T[i].tenant \in Tenant /\ T[i].body \in Body
      BY <1>2, <1>3, <1>4 DEF SoundRow, SameJob
    <2>2. /\ jobs[i].attempts \in Nat /\ jobs[i].max_attempts \in 1..MAX_ATTEMPTS_CAP
          /\ jobs[i].attempts < jobs[i].max_attempts
      BY <1>2, <1>3, <1>4 DEF Row, Counted, Lends
    <2>3. T[i].attempts + 1 \in 1..MAX_ATTEMPTS_CAP
      BY <1>3, <2>2, QueueAssumption
    <2>4. QED BY <2>1, <2>3
  <1>6. b.kind = "webhook" => OnRecord(b.about)
    BY <1>2, <1>3, <1>4, <1>5 DEF SoundRow, SameJob
  <1> DEFINE w == [at |-> b.kind, claim |-> Claim(i, o, n), body |-> b, tenant |-> tn,
                   error |-> "none"]
  <1>7. /\ w \in Activity /\ w.at = b.kind /\ w.claim.id = i /\ w.claim.attempts = n
        /\ w.body = b /\ w.tenant = tn
    BY QueueAssumption, BodyLemma DEF Activity, Claim
  <1>8. worker' = [worker EXCEPT ![o] = w]
    BY <1>1, <1>5
  <1> HIDE DEF w
  <1>9. /\ worker' \in [Owner -> Activity] /\ worker'[o] = w
        /\ \A p \in Owner \ {o} : worker'[p] = worker[p]
    BY <1>2, <1>7, <1>8
  <1>10. UNCHANGED <<decision, archived, announced, delivered>>
    BY DEF Take, log
  <1>11. SoundWorker(o)'
    <2>1. b.kind = "webhook" => OnRecord(b.about)'
      BY <1>6, <1>10 DEF OnRecord
    <2>2. b.kind \in {"grade", "webhook"} /\ n > 0
      BY BodyLemma, QueueAssumption
    <2>3. QED BY <1>4, <1>5, <1>7, <1>9, <2>1, <2>2 DEF SoundWorker
  <1>12. QED BY <1>3, <1>9, <1>10, <1>11, TableStep

LEMMA BeatStep == ASSUME WorkerInv, NEW o \in Owner, Beat(o) PROVE WorkerStep
  <1>1. At(o) # "idle" /\ _fenced(jobs, Held(o)) /\ jobs' = Beaten(jobs, Held(o))
    BY DEF Beat, InHandler
  <1>2. /\ Held(o).id \in Id /\ Held(o).attempts \in Nat \ {0}
        /\ jobs \in [Id -> Row] /\ Counted /\ WorkerTypeOK
    BY <1>1, HeldTyped
  <1>3. jobs' \in [Id -> Row] /\ \A j \in Id : Moved(jobs[j], jobs'[j]) /\ Kept(jobs[j], jobs'[j])
    BY <1>1, <1>2, HeldLemma
  <1>4. /\ worker' = worker /\ worker \in [Owner -> Activity]
        /\ UNCHANGED <<decision, archived, announced, delivered>>
    BY <1>2 DEF Beat, log, WorkerTypeOK
  <1>5. QED BY <1>3, <1>4, TableStep

\* The handler or complete() raises.
LEMMA RaiseStep ==
  ASSUME WorkerInv, NEW o \in Owner, NEW e \in {"permanent", "transient", "duplicate"},
         At(o) # "idle", Raise(o, e),
         UNCHANGED <<jobs, decision, archived, announced, delivered>>
  PROVE  WorkerStep
  <1>1. WorkerTypeOK /\ SoundWorker(o)
    BY DEF WorkerInv
  <1>2. /\ worker' \in [Owner -> Activity]
        /\ worker'[o].at = "failing" /\ worker'[o].claim = worker[o].claim
        /\ worker'[o].body = worker[o].body /\ worker'[o].tenant = worker[o].tenant
        /\ \A p \in Owner \ {o} : worker'[p] = worker[p]
    BY <1>1, GotoLemma DEF Raise
  <1>3. SoundWorker(o)'
    BY <1>1, <1>2 DEF SoundWorker, At, OnRecord
  <1>4. QED BY <1>2, <1>3, SameTable, TableStep

LEMMA DecideStep == ASSUME WorkerInv, NEW o \in Owner, Decide(o) PROVE WorkerStep
  <1> DEFINE e == <<worker[o].tenant, worker[o].body.artifact>>
             i == Held(o).id
  <1>1. At(o) = "grade" /\ UNCHANGED <<jobs, archived, announced, delivered>>
    BY DEF Decide
  <1>2. /\ i \in Id /\ worker[o].tenant \in Tenant /\ worker[o].body \in Body
        /\ WorkerTypeOK /\ SoundWorker(o)
    BY <1>1, HeldTyped DEF WorkerInv
  <1>3. worker[o].body.kind = "grade" /\ e \in Entry
    <2>1. worker[o].body.kind = "grade"
      BY <1>1, <1>2 DEF SoundWorker, At
    <2>2. QED BY <1>2, <2>1, BodyLemma DEF Entry
  <1>4. CASE Raise(o, "duplicate") /\ UNCHANGED decision
    BY <1>1, <1>4, RaiseStep
  <1>5. CASE /\ Goto(o, "decided")
             /\ \/ ~Decided(e) /\ decision' = [decision EXCEPT ![e] = i]
                \/ decision[e] = i /\ UNCHANGED decision
    <2>1. /\ decision \in [Entry -> Id \union {None, Http}] /\ decision' \in [Entry -> Id \union {None, Http}]
          /\ decision'[e] = i
          /\ \A f \in Entry : decision[f] \in Id => decision'[f] = decision[f]
      BY <1>2, <1>3, <1>5, WorkerAssumption DEF WorkerTypeOK, Decided
    <2>2. Grows
      BY <1>1, <2>1 DEF Grows
    <2>3. /\ worker' \in [Owner -> Activity]
          /\ worker'[o].at = "decided" /\ worker'[o].claim = worker[o].claim
          /\ worker'[o].body = worker[o].body /\ worker'[o].tenant = worker[o].tenant
          /\ \A p \in Owner \ {o} : worker'[p] = worker[p]
      BY <1>2, <1>5, GotoLemma DEF Goto
    <2>4. SoundWorker(o)'
      BY <1>1, <1>2, <1>3, <2>1, <2>3 DEF SoundWorker, At, Held
    <2>5. WorkerTypeOK'
      BY <1>1, <1>2, <2>1, <2>3 DEF WorkerTypeOK
    <2> HIDE DEF e, i
    <2>6. QED BY <1>1, <2>2, <2>3, <2>4, <2>5, SameTable DEF WorkerStep
  <1>6. QED BY <1>4, <1>5 DEF Decide

LEMMA NotifyStep == ASSUME WorkerInv, NEW o \in Owner, Notify(o) PROVE WorkerStep
  <1>1. At(o) = "decided" /\ Goto(o, "finish") /\ UNCHANGED <<decision, archived, delivered>>
    BY DEF Notify, log
  <1>2. PICK h \in Id, n \in 1..MAX_ATTEMPTS_CAP, tn \in Tenant, b \in Body :
          h = Held(o).id /\ n = Held(o).attempts /\ tn = worker[o].tenant /\ b = worker[o].body
    BY <1>1, HeldTyped
  <1>3. WorkerTypeOK /\ SoundWorker(o) /\ jobs \in [Id -> Row]
    BY DEF WorkerInv, WorkerTypeOK
  <1>4. b.kind = "grade" /\ decision[<<tn, b.artifact>>] = h
    BY <1>1, <1>2, <1>3 DEF SoundWorker, At, Held
  <1>5. OnRecord(h) /\ OnRecord(h)'
    <2>1. <<tn, b.artifact>> \in Entry
      BY <1>4, BodyLemma DEF Entry
    <2>2. QED BY <1>1, <1>4, <2>1 DEF OnRecord
  <1> DEFINE k == NotifyKey(h, n)
  <1>6. k \in Key /\ k # None
    BY QueueAssumption, WorkerAssumption
  <1>7. /\ worker' \in [Owner -> Activity]
        /\ worker'[o].at = "finish" /\ worker'[o].claim = worker[o].claim
        /\ worker'[o].body = worker[o].body /\ worker'[o].tenant = worker[o].tenant
        /\ \A p \in Owner \ {o} : worker'[p] = worker[p]
    BY <1>1, <1>3, GotoLemma DEF Goto
  <1> HIDE DEF k
  \* What is left to show of the two ways to go on.
  <1>8. ASSUME jobs' \in [Id -> Row], announced' \subseteq announced \union {k},
               announced \subseteq announced', b.notify => k \in announced',
               \A j \in Id : Moved(jobs[j], jobs'[j]),
               \A j \in Id : Kept(jobs[j], jobs'[j]) \/ SoundRow(j)'
        PROVE  WorkerStep
    <2>1. Grows
      BY <1>1, <1>8 DEF Grows
    <2>2. WorkerTypeOK'
      BY <1>1, <1>3, <1>6, <1>7, <1>8 DEF WorkerTypeOK
    <2>3. Announced'
      <3> SUFFICES ASSUME NEW j \in Id, NEW m \in 1..MAX_ATTEMPTS_CAP, NotifyKey(j, m) \in announced'
                   PROVE  OnRecord(j)'
        BY DEF Announced
      <3>1. CASE NotifyKey(j, m) \in announced
        BY <2>1, <3>1, GrowsLemma DEF WorkerInv, Announced
      <3>2. CASE NotifyKey(j, m) = NotifyKey(h, n)
        BY <1>5, <3>2 DEF NotifyKey
      <3>3. QED BY <1>8, <3>1, <3>2 DEF k
    <2>4. SoundWorker(o)'
      <3>1. WorkDone(h, tn, b)'
        BY <1>1, <1>4, <1>8 DEF WorkDone, k
      <3>2. Moved(jobs[h], jobs'[h])
        BY <1>8
      <3>3. /\ jobs[h].state # "none"
            /\ jobs[h].state \in Stored => jobs[h].tenant = tn /\ jobs[h].body = b
        BY <1>1, <1>2, <1>3 DEF SoundWorker, At, Held
      <3>4. jobs[h] \in Row /\ jobs'[h] \in Row
        BY <1>3, <1>8
      <3>5. /\ jobs'[h].state # "none"
            /\ jobs'[h].state \in Stored => jobs'[h].tenant = tn /\ jobs'[h].body = b
        BY <3>2, <3>3, <3>4, FollowsLemma DEF SameJob
      <3>6. /\ worker'[o].claim.id = h /\ worker'[o].claim.attempts = n
            /\ worker'[o].tenant = tn /\ worker'[o].body = b /\ n > 0
        BY <1>2, <1>7, QueueAssumption DEF Held
      <3>7. QED BY <1>4, <1>7, <3>1, <3>5, <3>6 DEF SoundWorker
    <2>5. QED BY <1>1, <1>7, <1>8, <2>1, <2>2, <2>3, <2>4 DEF WorkerStep
  <1>9. CASE b.notify /\ ~HasKey(jobs, tn, k)
    <2>1. PICK i \in Id : /\ Fresh(jobs, i)
                          /\ jobs' = EnqueueInternal(jobs, i, tn,
                               [kind |-> "webhook", about |-> h], k, WebhookTries)
      BY <1>2, <1>9 DEF Notify, k
    <2>2. announced' = announced \union {k}
      BY <1>2, <1>9 DEF Notify, k
    <2> DEFINE x == [kind |-> "webhook", about |-> h]
               r == NewRow(tn, x, k, WebhookTries, 0, TRUE)
    <2>3. x \in Body /\ x.kind = "webhook" /\ x.about = h
      BY WorkerAssumption DEF WebhookBody
    <2>4. WebhookTries \in Int /\ 0 \in Nat /\ jobs[i].state = "none"
      BY <2>1, WorkerAssumption DEF Fresh
    <2>5. r \in Row /\ Created(jobs[i], r)
      <3> HIDE DEF x
      <3>1. QED BY <1>6, <2>3, <2>4, NewRowLemma DEF Created
    <2>6. r.state = "queued" /\ r.tenant = tn /\ r.body = x /\ r.key = k
      BY DEF NewRow
    <2>7. jobs' = [jobs EXCEPT ![i] = r]
      BY <2>1 DEF EnqueueInternal
    <2> HIDE DEF r, x
    <2>8. /\ jobs' \in [Id -> Row] /\ jobs'[i] = r
          /\ \A j \in Id : Moved(jobs[j], jobs'[j])
          /\ \A j \in Id \ {i} : Kept(jobs[j], jobs'[j])
      BY <1>3, <2>5, <2>7, SameTable, InsertLemma
    <2>9. SoundRow(i)'
      BY <1>5, <2>2, <2>3, <2>6, <2>8 DEF SoundRow
    <2>10. QED BY <1>8, <2>2, <2>8, <2>9
  <1>10. CASE ~(b.notify /\ ~HasKey(jobs, tn, k))
    <2>1. UNCHANGED <<jobs, announced>>
      BY <1>2, <1>10 DEF Notify, k
    <2>2. HasKey(jobs, tn, k) => k \in announced
      BY <1>6 DEF HasKey, RowsOf, WorkerInv, SoundRow
    <2>3. QED BY <1>8, <1>10, <2>1, <2>2, SameTable
  <1>11. QED BY <1>9, <1>10

LEMMA DeliverStep == ASSUME WorkerInv, NEW o \in Owner, Deliver(o) PROVE WorkerStep
  <1>1. /\ At(o) = "webhook" /\ Goto(o, "finish") /\ UNCHANGED <<jobs, decision, archived, announced>>
        /\ delivered' = delivered \union {worker[o].body.about}
    BY DEF Deliver, log
  <1>2. WorkerTypeOK /\ SoundWorker(o) /\ worker[o].body \in Body
    BY <1>1, HeldTyped DEF WorkerInv
  <1>3. PICK b \in Body : b = worker[o].body
    BY <1>2
  <1>4. b.kind = "webhook" /\ b.about \in Id /\ OnRecord(b.about)
    BY <1>1, <1>2, <1>3, BodyLemma DEF SoundWorker, At
  <1>5. Grows
    BY <1>1 DEF Grows
  <1>6. /\ worker' \in [Owner -> Activity]
        /\ worker'[o].at = "finish" /\ worker'[o].claim = worker[o].claim
        /\ worker'[o].body = worker[o].body /\ worker'[o].tenant = worker[o].tenant
        /\ \A p \in Owner \ {o} : worker'[p] = worker[p]
    BY <1>1, <1>2, GotoLemma DEF Goto
  <1>7. WorkerTypeOK'
    BY <1>1, <1>2, <1>3, <1>4, <1>6 DEF WorkerTypeOK
  <1>8. \A j \in delivered' : OnRecord(j)
    BY <1>1, <1>3, <1>4 DEF WorkerInv, Informed
  <1>9. Informed'
    BY <1>1, <1>8 DEF Informed, OnRecord
  <1>10. SoundWorker(o)'
    <2>1. \A tn \in Tenant, i \in Id : WorkDone(i, tn, b)'
      BY <1>1, <1>3, <1>4 DEF WorkDone
    <2>2. worker[o].tenant \in Tenant /\ worker[o].claim.id \in Id
      BY <1>1, HeldTyped DEF Held
    <2>3. PICK tn \in Tenant, i \in Id : tn = worker[o].tenant /\ i = worker[o].claim.id
      BY <2>2
    <2>4. OnRecord(b.about)'
      BY <1>1, <1>4 DEF OnRecord
    <2>5. QED BY <1>1, <1>2, <1>3, <1>4, <1>6, <2>1, <2>3, <2>4 DEF SoundWorker, At
  <1>11. QED BY <1>1, <1>5, <1>6, <1>7, <1>9, <1>10, SameTable DEF WorkerStep

\* complete() or _fail(), if the fence lets them.
LEMMA FinishStep == ASSUME WorkerInv, NEW o \in Owner, Finish(o) \/ _fail(o) PROVE WorkerStep
  <1>1. /\ At(o) # "idle" /\ worker' = [worker EXCEPT ![o] = Idle]
        /\ UNCHANGED <<decision, archived, announced, delivered>>
    BY DEF Finish, _fail, log
  <1>2. /\ Held(o).id \in Id /\ Held(o).attempts \in Nat \ {0}
        /\ jobs \in [Id -> Row] /\ Counted /\ WorkerTypeOK
    BY <1>1, HeldTyped
  <1>3. /\ worker' \in [Owner -> Activity] /\ SoundWorker(o)'
        /\ \A p \in Owner \ {o} : worker'[p] = worker[p]
    BY <1>1, <1>2, IdleLemma
  <1>4. CASE jobs' = jobs
    BY <1>1, <1>3, <1>4, SameTable, TableStep
  <1>5. CASE _fail(o) /\ jobs' # jobs
    <2> DEFINE p == worker[o].error # "transient"
    <2>1. _fenced(jobs, Held(o)) /\ jobs' = Failed(jobs, Held(o), p) /\ p \in BOOLEAN
      BY <1>5 DEF _fail
    <2> HIDE DEF p
    <2>2. jobs' \in [Id -> Row] /\ \A j \in Id : Moved(jobs[j], jobs'[j]) /\ Kept(jobs[j], jobs'[j])
      BY <1>2, <2>1, HeldLemma
    <2>3. QED BY <1>1, <1>3, <2>2, TableStep
  <1>6. CASE Finish(o) /\ jobs' # jobs
    <2>1. _fenced(jobs, Held(o)) /\ jobs' = Completed(jobs, Held(o)) /\ At(o) = "finish"
      BY <1>6 DEF Finish
    <2>2. PICK i \in Id : i = Held(o).id
      BY <1>2
    <2>3. /\ jobs' \in [Id -> Row]
          /\ \A j \in Id : Moved(jobs[j], jobs'[j])
          /\ \A j \in Id \ {i} : Kept(jobs[j], jobs'[j])
          /\ SameJob(jobs[i], jobs'[i])
      BY <1>2, <2>1, <2>2, HeldLemma
    <2>4. jobs[i].state \in Stored /\ SoundRow(i) /\ SoundWorker(o)
      BY <2>1, <2>2 DEF _fenced, WorkerInv, Stored, Pending
    <2>5. PICK tn \in Tenant, b \in Body : tn = jobs[i].tenant /\ b = jobs[i].body
      BY <2>4 DEF SoundRow
    <2>6. WorkDone(i, tn, b)
      BY <2>1, <2>2, <2>4, <2>5 DEF SoundWorker, At, Held
    <2>7. SoundRow(i)'
      <3>1. WorkDone(i, tn, b)' /\ (b.kind = "webhook" => OnRecord(b.about)')
        BY <1>1, <2>4, <2>5, <2>6 DEF WorkDone, OnRecord, SoundRow
      <3>2. jobs'[i].tenant = tn /\ jobs'[i].body = b /\ jobs'[i].key = jobs[i].key
        BY <2>3, <2>5 DEF SameJob
      <3>3. QED BY <1>1, <2>4, <3>1, <3>2 DEF SoundRow
    <2>8. QED BY <1>1, <1>3, <2>3, <2>7, TableStep
  <1>7. QED BY <1>4, <1>5, <1>6

\* The other steps of a worker: a claim that finds nothing, and its death.
LEMMA RestStep ==
  ASSUME WorkerInv, NEW o \in Owner, TakeNothing(o) \/ Crash(o) PROVE WorkerStep
  <1>1. UNCHANGED <<decision, archived, announced, delivered>>
    BY DEF TakeNothing, Crash, log
  <1>2. WorkerTypeOK /\ jobs \in [Id -> Row] /\ worker \in [Owner -> Activity]
    BY DEF WorkerInv, WorkerTypeOK
  <1>3. CASE TakeNothing(o)
    <2>1. /\ jobs' \in [Id -> Row] /\ \A j \in Id : Moved(jobs[j], jobs'[j]) /\ Kept(jobs[j], jobs'[j])
          /\ worker' = worker
      BY <1>2, <1>3, ReapLemma DEF TakeNothing
    <2>2. QED BY <1>1, <1>2, <2>1, TableStep
  <1>4. CASE Crash(o)
    <2>1. /\ worker' \in [Owner -> Activity] /\ SoundWorker(o)' /\ jobs' = jobs
          /\ \A p \in Owner \ {o} : worker'[p] = worker[p]
      BY <1>2, <1>4, IdleLemma DEF Crash
    <2>2. QED BY <1>1, <2>1, SameTable, TableStep
  <1>5. QED BY <1>3, <1>4

\* A decision over HTTP and the archive.
LEMMA LogStep ==
  ASSUME WorkerInv, NEW e \in Entry, Record(e) \/ Archive(e) PROVE WorkerStep
  <1>1. UNCHANGED <<jobs, worker, announced, delivered>> /\ WorkerTypeOK
    BY DEF Record, Archive, WorkerInv
  <1>2. /\ decision' \in [Entry -> Id \union {None, Http}] /\ archived' \subseteq Entry
        /\ \A f \in Entry : decision[f] \in Id => decision'[f] = decision[f]
    BY <1>1, WorkerAssumption DEF Record, Archive, Decided, WorkerTypeOK
  <1>3. WorkerTypeOK' /\ Grows
    BY <1>1, <1>2 DEF WorkerTypeOK, Grows
  <1>4. QED BY <1>1, <1>3, SameTable DEF WorkerStep

LEMMA WorkerNextStep == WorkerInv /\ [WorkerNext]_workerVars => WorkerStep
  <1> SUFFICES ASSUME WorkerInv, [WorkerNext]_workerVars PROVE WorkerStep
    OBVIOUS
  <1>1. jobs \in [Id -> Row] /\ worker \in [Owner -> Activity]
    BY DEF WorkerInv, WorkerTypeOK
  <1>2. ASSUME NEW o \in Owner, Work(o) \/ Beat(o) \/ HandlerFails(o) \/ FinishFails(o) \/ Crash(o)
        PROVE  WorkerStep
    <2>1. CASE HandlerFails(o)
      <3>1. PICK e \in {"permanent", "transient"} : Raise(o, e)
        BY <2>1 DEF HandlerFails
      <3>2. At(o) # "idle" /\ UNCHANGED <<jobs, decision, archived, announced, delivered>>
        BY <2>1 DEF HandlerFails, InHandler, log
      <3>3. QED BY <3>1, <3>2, RaiseStep
    <2>2. CASE FinishFails(o)
      <3>1. /\ At(o) # "idle" /\ Raise(o, "transient")
            /\ UNCHANGED <<jobs, decision, archived, announced, delivered>>
        BY <2>2 DEF FinishFails, log
      <3>2. QED BY <3>1, RaiseStep
    <2>3. QED
      BY <1>2, <2>1, <2>2, TakeStep, BeatStep, DecideStep, NotifyStep, DeliverStep, FinishStep,
         RestStep DEF Work
  <1>3. CASE Purge
    <2>1. /\ jobs' \in [Id -> Row] /\ \A j \in Id : Moved(jobs[j], jobs'[j]) /\ Kept(jobs[j], jobs'[j])
      BY <1>1, <1>3, WithoutLemma DEF Purge, Purged
    <2>2. worker' = worker /\ UNCHANGED <<decision, archived, announced, delivered>>
      BY <1>3 DEF Purge, log
    <2>3. QED BY <1>1, <2>1, <2>2, TableStep
  <1>4. CASE WorkerTick
    <2>1. \A i \in Id : Older(jobs[i]) \in Row /\ Rests(jobs[i], Older(jobs[i]))
      BY <1>1, OlderLemma
    <2>2. jobs' \in [Id -> Row] /\ \A j \in Id : Rests(jobs[j], jobs'[j])
      BY <1>4, <2>1 DEF WorkerTick, Later
    <2>3. \A j \in Id : Moved(jobs[j], jobs'[j]) /\ Kept(jobs[j], jobs'[j])
      BY <2>2 DEF Moved, Rests, Kept
    <2>4. worker' = worker /\ UNCHANGED <<decision, archived, announced, delivered>>
      BY <1>4 DEF WorkerTick, log
    <2>5. QED BY <1>1, <2>2, <2>3, <2>4, TableStep
  <1>5. CASE UNCHANGED workerVars
    <2>1. worker' = worker /\ UNCHANGED <<jobs, decision, archived, announced, delivered>>
      BY <1>5 DEF workerVars
    <2>2. QED BY <1>1, <2>1, SameTable, TableStep
  <1>6. QED BY <1>2, <1>3, <1>4, <1>5, SubmitStep, LogStep DEF WorkerNext

LEMMA WorkerInitInv == WorkerInit => WorkerInv
  <1> SUFFICES ASSUME WorkerInit PROVE WorkerInv
    OBVIOUS
  <1>1. NoRow("none") \in Row /\ NoRow("none").state = "none" /\ NoRow("none").attempts = 0
    BY NoRowIsRow DEF NoRow
  <1>2. jobs \in [Id -> Row] /\ Counted /\ \A i \in Id : SoundRow(i)
    BY <1>1 DEF WorkerInit, Counted, SoundRow, Stored, Pending, Settled
  <1>3. Idle \in Activity /\ Idle.at = "idle"
    BY QueueAssumption, WorkerAssumption DEF Idle, Activity, Claim, Id
  <1>4. worker \in [Owner -> Activity] /\ \A o \in Owner : SoundWorker(o)
    BY <1>3 DEF WorkerInit, SoundWorker
  <1>5. QED
    BY <1>2, <1>4 DEF WorkerInit, WorkerInv, WorkerTypeOK, Announced, Informed

THEOREM WorkerInvariance == WorkerSpec => []WorkerInv
  BY WorkerInitInv, WorkerNextStep, WorkerStepInv, PTL DEF WorkerSpec

\* No receiver is told of, and no event queued about, a decision that is not
\* on record, whatever dies, stalls or is overtaken on the way.
THEOREM NewsIsTrue == WorkerSpec => []ToldIsDecided
  <1>1. WorkerInv => ToldIsDecided
    BY DEF WorkerInv, ToldIsDecided, Announced, Informed, OnRecord
  <1>2. QED BY <1>1, WorkerInvariance, PTL

\* A job that is "done" has done its work: its own decision is on record and
\* announced if a sink was named, or its event was delivered.
THEOREM DoneMeansDone == WorkerSpec => []DoneIsEarned
  <1>1. WorkerInv => DoneIsEarned
    BY DEF WorkerInv, DoneIsEarned, SoundRow, WorkDone, Stored, Settled
  <1>2. QED BY <1>1, WorkerInvariance, PTL
=============================================================================
