----------------------------- MODULE SideEffects -----------------------------
(***************************************************************************)
(* The fleet's side effects on git: pushes to a fenced remote, a change    *)
(* over several repositories, the worktrees of a task's attempts.  Three   *)
(* components that share nothing.                                          *)
(***************************************************************************)
EXTENDS LeaseStore, Sequences, FiniteSets

-----------------------------------------------------------------------------
(* fleet/fence_sink.py: a git remote whose pre-receive hook lets a push in *)
(* only under the current fencing token of the resource.  The store may    *)
(* hand out the next token while a push is under way.  The hook runs after *)
(* the remote told the pusher where the branch stands and before git moves *)
(* it; git moves it only from there (the compare-and-swap of a ref update  *)
(* is git's own).                                                          *)

CONSTANTS Managers,
          TopToken, MaxPushes    \* bounds: takeovers; landed pushes

VARIABLES lease,    \* the store's row of the resource
          mine,     \* Managers -> the lease it believes it has
          push,     \* Managers -> [at, from]: the push under way
          branch    \* the landed pushes, by the token each came with

fenceVars == <<lease, mine, push, branch>>

NoPush == [at |-> "none", from |-> 0]

FenceInit ==
  /\ lease = NoRow
  /\ mine = [m \in Managers |-> Lease("r", m, 0)]
  /\ push = [m \in Managers |-> NoPush]
  /\ branch = <<>>

\* Bug: an older token is still good.
PushIfIssued(token) == lease.max_token > 0 /\ token <= lease.max_token

\* Unknown resources have no token; a token above the current was never issued.
validate_push(token) == lease.max_token > 0 /\ token = lease.max_token

\* Whether a lease of another owner has run out is up to the clocks.
TakeLease(m) ==
  /\ lease.max_token < TopToken
  /\ \E now \in {0, 2} :
       /\ ~SqlBlocked(lease, m, now)
       /\ lease' = [SqlAcquire(lease, m, now, 1) EXCEPT !.expires_at = 1]
       /\ mine' = [mine EXCEPT ![m] = Lease("r", m, SqlGrant(lease, m, now))]
  /\ UNCHANGED <<push, branch>>

Connect(m) ==
  /\ push[m].at = "none" /\ mine[m].token > 0
  /\ push' = [push EXCEPT ![m] = [at |-> "hook", from |-> Len(branch)]]
  /\ UNCHANGED <<lease, mine, branch>>

\* pre-receive, for the push option of the lease the push started with.
Hook(m) ==
  /\ push[m].at = "hook"
  /\ push' = [push EXCEPT ![m] = IF validate_push(mine[m].token) THEN [@ EXCEPT !.at = "land"] ELSE NoPush]
  /\ UNCHANGED <<lease, mine, branch>>

Land(m) ==
  /\ push[m].at = "land" /\ Len(branch) < MaxPushes
  /\ branch' = IF push[m].from = Len(branch) THEN Append(branch, mine[m].token) ELSE branch
  /\ push' = [push EXCEPT ![m] = NoPush]
  /\ UNCHANGED <<lease, mine>>

FenceNext ==
  \E m \in Managers :
    \/ push[m].at = "none" /\ TakeLease(m)
    \/ Connect(m) \/ Hook(m) \/ Land(m)

-----------------------------------------------------------------------------
\* Once a successor's push has landed nothing of an older token lands after it,
\* although a takeover may fall between the hook's check and the ref update.
NoStaleLanding ==
  \A i, j \in 1..Len(branch) : i < j => branch[i] <= branch[j]

-----------------------------------------------------------------------------
(* fleet/saga.py: the steps of a change over several repositories run in   *)
(* order; after the first failure those that returned are compensated,     *)
(* newest first, and the rest skipped.  A compensation may fail: it is     *)
(* reported and does not stop the others.  A step here commits to its      *)
(* repository and its compensation is git_revert_head, which reverts what  *)
(* is HEAD when it runs; somebody else may commit in between.              *)

CONSTANTS Steps,      \* sequence of step names
          RepoOf,     \* index of a step -> repository
          Strangers   \* bound: commits of others

VARIABLES repo,       \* repository -> its contents after each commit (sets of changes)
          saga,       \* the run: [at, i, done, comp, outcomes]
          strange     \* how many commits others made

sagaVars == <<repo, saga, strange>>

Indices == 1..Len(Steps)
Repos == {RepoOf[i] : i \in Indices}
Newest(s) == s[Len(s)]

SagaInit ==
  /\ repo = [r \in Repos |-> <<{}>>]
  /\ saga = [at |-> "forward", i |-> 1, done |-> <<>>, comp |-> <<>>, fail |-> 0]
  /\ strange = 0

Commit(r, c) == [repo EXCEPT ![r] = Append(@, Newest(@) \cup {c})]

\* Bug: the step that failed is taken for the last one that returned.
ButTheLast(done) == IF done = <<>> THEN done ELSE SubSeq(done, 1, Len(done) - 1)

\* Every step that returned is compensated.
Unwound(done) == done

\* A forward is atomic: it returns with its commit, or raises without.
Forward ==
  LET i == saga.i IN
  /\ saga.at = "forward"
  /\ \/ /\ repo' = Commit(RepoOf[i], i)
        /\ saga' = [saga EXCEPT !.i = i + 1, !.done = Append(@, i),
                                !.at = IF i = Len(Steps) THEN "end" ELSE @]
     \/ /\ saga' = [saga EXCEPT !.fail = i, !.done = Unwound(@),
                                !.at = IF Unwound(saga.done) = <<>> THEN "end" ELSE "unwind"]
        /\ UNCHANGED repo
  /\ UNCHANGED strange

\* What is left to compensate once the newest step was.
Rest(done) == SubSeq(done, 1, Len(done) - 1)

git_revert_head(r) ==
  LET s == repo[r] IN [repo EXCEPT ![r] = Append(s, IF Len(s) = 1 THEN {} ELSE s[Len(s) - 1])]

\* comp is a dict keyed by the step's name: of two steps of one name the later
\* result is the one that counts for both.
Note(comp, name, how) == [n \in DOMAIN comp \cup {name} |-> IF n = name THEN how ELSE comp[n]]

Compensate ==
  LET i == Newest(saga.done)
      after(how) == [saga EXCEPT !.done = Rest(@), !.comp = Note(@, Steps[i], how),
                                 !.at = IF Rest(saga.done) = <<>> THEN "end" ELSE @]
  IN  /\ saga.at = "unwind"
      /\ \/ repo' = git_revert_head(RepoOf[i]) /\ saga' = after("compensated")
         \/ saga' = after("failed") /\ UNCHANGED repo
      /\ UNCHANGED strange

Stranger ==
  /\ strange < Strangers /\ saga.at # "end"
  /\ \E r \in Repos : repo' = Commit(r, 0 - strange - 1)
  /\ strange' = strange + 1
  /\ UNCHANGED saga

SagaNext == Forward \/ Compensate \/ Stranger

ReportedFailed(i) == Steps[i] \in DOMAIN saga.comp /\ saga.comp[Steps[i]] = "failed"

-----------------------------------------------------------------------------
\* "The whole change is all-or-nothing" (run_saga): when it ends either every
\* step's change is there, or none but those whose compensation is reported as
\* failed, as long as nobody else commits to the repositories meanwhile.
AllOrNothing ==
  saga.at = "end" /\ strange = 0 =>
    \A i \in Indices : i \in Newest(repo[RepoOf[i]]) <=>
      \/ saga.fail = 0
      \/ i < saga.fail /\ ReportedFailed(i)

-----------------------------------------------------------------------------
(* fleet/worktree.py and fleet/worker.py: every attempt at a task works in *)
(* a git worktree of its own, on the branch verel/<task>, under a lock     *)
(* file made with O_EXCL.  Attempts are processes: they may die between    *)
(* any two steps, and the scheduler may start the next one before the last *)
(* is gone.  An attempt that passes commits on the branch; its release     *)
(* removes the worktree, the branch and the lock.                          *)

CONSTANTS Attempts    \* attempts at one task

ASSUME AttemptsAssumption == "none" \notin Attempts

VARIABLES lock,       \* the attempt the lock file names, or "none"
          checkout,   \* the attempt whose files lie in the worktree, or "none"
          branch_,    \* whether the branch exists
          attempt     \* Attempts -> where the attempt is

treeVars == <<lock, checkout, branch_, attempt>>

TreeInit ==
  /\ lock = "none" /\ checkout = "none" /\ branch_ = FALSE
  /\ attempt = [a \in Attempts |-> "new"]

At(a, here, there) == attempt[a] = here /\ attempt' = [attempt EXCEPT ![a] = there]

\* O_CREAT|O_EXCL: the file must not be there.
Free(a) == lock = "none"

\* create: the lease ...
acquire_lease(a) ==
  /\ IF Free(a) THEN At(a, "new", "locked") /\ lock' = a
     ELSE At(a, "new", "lease_held") /\ UNCHANGED lock
  /\ UNCHANGED <<checkout, branch_>>

\* ... then a leftover worktree goes, its branch with it; without the worktree
\* a leftover branch makes git refuse, and the lock is given back.
Checkout(a) ==
  /\ IF checkout # "none" \/ ~branch_
     THEN At(a, "locked", "working") /\ checkout' = a /\ branch_' = TRUE /\ UNCHANGED lock
     ELSE At(a, "locked", "git_error") /\ lock' = "none" /\ UNCHANGED <<checkout, branch_>>

\* The loop runs in the worktree; on a pass the fix is committed on the branch.
Work(a) ==
  /\ \/ At(a, "working", "passed")
     \/ At(a, "working", "failed")
  /\ UNCHANGED <<lock, checkout, branch_>>

\* finally: remove() = _force_remove, prune, release_lease; three steps on disk.
RemoveTree(a) ==
  /\ \/ At(a, "passed", "pruning")
     \/ At(a, "failed", "pruning")
  /\ checkout' = "none"
  /\ UNCHANGED <<lock, branch_>>
RemoveBranch(a) == At(a, "pruning", "unlocking") /\ branch_' = FALSE /\ UNCHANGED <<lock, checkout>>
release_lease(a) == At(a, "unlocking", "done") /\ lock' = "none" /\ UNCHANGED <<checkout, branch_>>

Alive == {"locked", "working", "passed", "failed", "pruning", "unlocking"}
CrashAttempt(a) ==
  /\ attempt[a] \in Alive
  /\ attempt' = [attempt EXCEPT ![a] = "dead"]
  /\ UNCHANGED <<lock, checkout, branch_>>

\* An operator deletes the lock of an attempt that is dead.
Unlock ==
  /\ lock # "none" /\ attempt[lock] = "dead"
  /\ lock' = "none"
  /\ UNCHANGED <<checkout, branch_, attempt>>

TreeNext ==
  \/ \E a \in Attempts :
       \/ acquire_lease(a) \/ Checkout(a) \/ Work(a)
       \/ RemoveTree(a) \/ RemoveBranch(a) \/ release_lease(a) \/ CrashAttempt(a)
  \/ Unlock

-----------------------------------------------------------------------------
\* "Parallel workers can't stomp each other": the files in the worktree are
\* those of the attempt that works on them, whatever died before it.
WorksAlone ==
  \A a \in Attempts : attempt[a] \in {"working", "passed", "failed"} => checkout = a /\ branch_

\* Whoever writes is the one whose turn it is, at the remote and in the worktree.
OneWriter == NoStaleLanding /\ WorksAlone
=============================================================================
