--------------------------- MODULE DeliveryProofs ---------------------------
(***************************************************************************)
(* The properties of the delivery path's side effects, for any constants:  *)
(* one section per component, each with its inductive invariant.           *)
(***************************************************************************)
EXTENDS Graders, SideEffects, PlanActuator, TelecomActuator, Operator, IacGrader,
        SequenceTheorems, TLAPS

-----------------------------------------------------------------------------
(* Mutation runs.  A mutant is on disk only while the suite runs on it or the *)
(* file is still open, and by then at most Budget has passed: the runner's  *)
(* kill comes later.                                                        *)

MutationType ==
  mutation \in [at : {"start", "red", "file", "suite", "reported", "killed"}, i : Nat, k : Nat,
                now : Nat, dirty : BOOLEAN, total : Nat, survivors : Nat]

MutationInv ==
  /\ MutationType
  /\ mutation.dirty =>
       /\ mutation.at \in {"suite", "file"} /\ mutation.i <= Len(Targets)
       /\ mutation.at = "file" => mutation.now <= Budget
  /\ mutation.at = "suite" => mutation.dirty /\ mutation.now + SuiteMax <= Budget

\* Whatever the targets, the budget and the time of each suite run, as long as
\* the budget ends before the runner's timeout: no run is killed, and none ends,
\* with a mutant on disk.
THEOREM RestoredInTime == MutationInit /\ [][MutationNext]_mutationVars => []NeverLeftMutated
<1>1. /\ Len(Targets) \in Nat /\ SuiteMax \in Nat /\ Budget \in Nat /\ Outer \in Nat
      /\ Budget < Outer
  BY MutationAssumption
<1>2. MutationInit => MutationInv
  BY DEF MutationInit, MutationInv, MutationType
<1>3. MutationInv /\ [MutationNext]_mutationVars => MutationInv'
  <2> SUFFICES ASSUME MutationInv, [MutationNext]_mutationVars PROVE MutationInv'
    OBVIOUS
  <2> DEFINE m == mutation
             Becomes(at, i, k, now, dirty, total, survivors) ==
               mutation' = [at |-> at, i |-> i, k |-> k, now |-> now, dirty |-> dirty,
                            total |-> total, survivors |-> survivors]
  <2> USE <1>1 DEF MutationInv, MutationType
  <2>1. CASE Baseline
    <3>1. PICK d \in Durations, at \in {"red", "file"} : Becomes(at, m.i, m.k, m.now + d, m.dirty, m.total, m.survivors)
      BY <2>1, ZenonT(60) DEF Baseline, Spend, Durations
    <3>2. m.at = "start"
      BY <2>1 DEF Baseline
    <3> QED
      BY <3>1, <3>2 DEF Durations
  <2>2. CASE WriteMutant
    <3>1. Becomes("suite", m.i, m.k + 1, m.now, TRUE, m.total + 1, m.survivors)
      BY <2>2 DEF WriteMutant
    <3>2. m.i <= Len(Targets) /\ m.now + SuiteMax <= Budget
      BY <2>2 DEF WriteMutant, Fits
    <3> QED
      BY <3>1, <3>2
  <2>3. CASE RunSuite
    <3>1. PICK d \in Durations, n \in {0, 1} : Becomes("file", m.i, m.k, m.now + d, m.dirty, m.total, m.survivors + n)
      BY <2>3, ZenonT(60) DEF RunSuite, Spend, Durations
    <3>2. m.at = "suite"
      BY <2>3 DEF RunSuite
    <3> QED
      BY <3>1, <3>2, SMTT(60) DEF Durations
  <2>4. CASE Restore
    <3> DEFINE n == IF Targets[m.i].parses /\ ~Fits(m) THEN Len(Targets) + 1 ELSE m.i + 1
    <3>1. n \in Nat
      OBVIOUS
    <3>2. mutation' = [mutation EXCEPT !.dirty = FALSE, !.k = 0, !.i = n] /\ m.at = "file"
      BY <2>4 DEF Restore
    <3> HIDE DEF n
    <3>3. Becomes("file", n, 0, m.now, FALSE, m.total, m.survivors)
      BY <3>2
    <3> QED
      BY <3>1, <3>3
  <2>5. CASE Report_
    BY <2>5 DEF Report_
  <2>6. CASE KillAtOuter
    BY <2>6 DEF KillAtOuter
  <2>7. CASE Generate
    BY <2>7 DEF Generate, Spend
  <2>8. CASE UNCHANGED mutationVars
    BY <2>8 DEF mutationVars
  <2> QED
    BY <2>1, <2>2, <2>3, <2>4, <2>5, <2>6, <2>7, <2>8 DEF MutationNext
<1>4. MutationInv => NeverLeftMutated
  BY DEF MutationInv, NeverLeftMutated
<1> QED
  BY <1>2, <1>3, <1>4, PTL

-----------------------------------------------------------------------------
(* SideEffects: the worktrees.  Whoever is alive holds the lock, so nobody  *)
(* else is between the lock and its removal.                                *)

TreeInv ==
  /\ attempt \in [Attempts -> Alive \cup {"new", "lease_held", "git_error", "done", "dead"}]
  /\ \A a \in Attempts : attempt[a] \in Alive => lock = a
  /\ WorksAlone

\* One attempt holds the lock, and the files are those of the one that works.
LEMMA WorktreeInvariant == TreeInit /\ [][TreeNext]_treeVars => []TreeInv
<1> USE AttemptsAssumption
<1>1. TreeInit => TreeInv
  BY DEF TreeInit, TreeInv, WorksAlone, Alive
<1>2. TreeInv /\ [TreeNext]_treeVars => TreeInv'
  <2> SUFFICES ASSUME TreeInv, [TreeNext]_treeVars PROVE TreeInv'
    OBVIOUS
  <2> USE DEF TreeInv, WorksAlone, Alive, At
  <2>1. ASSUME NEW a \in Attempts, acquire_lease(a) PROVE TreeInv'
    BY <2>1 DEF acquire_lease, Free
  <2>2. ASSUME NEW a \in Attempts, Checkout(a) PROVE TreeInv'
    BY <2>2 DEF Checkout
  <2>3. ASSUME NEW a \in Attempts, Work(a) PROVE TreeInv'
    BY <2>3 DEF Work
  <2>4. ASSUME NEW a \in Attempts, RemoveTree(a) PROVE TreeInv'
    BY <2>4 DEF RemoveTree
  <2>5. ASSUME NEW a \in Attempts, RemoveBranch(a) PROVE TreeInv'
    BY <2>5 DEF RemoveBranch
  <2>6. ASSUME NEW a \in Attempts, release_lease(a) PROVE TreeInv'
    BY <2>6 DEF release_lease
  <2>7. ASSUME NEW a \in Attempts, CrashAttempt(a) PROVE TreeInv'
    BY <2>7 DEF CrashAttempt
  <2>8. CASE Unlock
    BY <2>8 DEF Unlock
  <2>9. CASE UNCHANGED treeVars
    BY <2>9 DEF treeVars
  <2> QED
    BY <2>1, <2>2, <2>3, <2>4, <2>5, <2>6, <2>7, <2>8, <2>9 DEF TreeNext
<1> QED
  BY <1>1, <1>2, PTL

-----------------------------------------------------------------------------
(* SideEffects: the fenced remote.  A push the hook let in, and that finds  *)
(* the branch where it left it, carries a token that none on the branch is  *)
(* above; a token of the branch was issued.                                *)

RowType == lease \in [owner : Managers \cup {NoOwner}, token : Int, expires_at : Int, max_token : Int, outcome : {NoOutcome}]
FenceType ==
  /\ RowType
  /\ mine \in [Managers -> [key : {"r"}, owner : Managers, token : Int]]
  /\ push \in [Managers -> [at : {"none", "hook", "land"}, from : Nat]]
  /\ branch \in Seq(Int)

FenceInv ==
  /\ FenceType
  /\ NoStaleLanding
  /\ \A i \in 1..Len(branch) : branch[i] <= lease.max_token
  /\ \A m \in Managers :
       /\ push[m].from <= Len(branch)
       /\ push[m].at = "land" /\ push[m].from = Len(branch) =>
            /\ mine[m].token <= lease.max_token
            /\ \A i \in 1..Len(branch) : branch[i] <= mine[m].token

\* An acquire never lowers the fence line, and keeps the row a row.
LEMMA AcquireRaises ==
  ASSUME RowType, NEW m \in Managers, NEW now \in Int
  PROVE  LET r == [SqlAcquire(lease, m, now, 1) EXCEPT !.expires_at = 1] IN
         /\ r \in [owner : Managers \cup {NoOwner}, token : Int, expires_at : Int, max_token : Int, outcome : {NoOutcome}]
         /\ r.max_token >= lease.max_token
         /\ SqlGrant(lease, m, now) \in Int
<1> DEFINE t == SqlGrant(lease, m, now)
           top == IF t > lease.max_token THEN t ELSE lease.max_token
<1>1. t \in Int
  BY DEF RowType, SqlGrant
<1>2. [SqlAcquire(lease, m, now, 1) EXCEPT !.expires_at = 1] =
      [owner |-> m, token |-> t, expires_at |-> 1, max_token |-> top, outcome |-> lease.outcome]
  BY DEF SqlAcquire
<1> HIDE DEF t
<1>3. top \in Int /\ top >= lease.max_token
  BY <1>1 DEF RowType
<1> HIDE DEF top
<1> QED
  BY <1>1, <1>2, <1>3 DEF RowType, t

\* No token on the branch is above the fence line, none above a later one.
LEMMA FenceInvariant == FenceInit /\ [][FenceNext]_fenceVars => []FenceInv
<1>1. FenceInit => FenceInv
  BY DEF FenceInit, FenceInv, FenceType, RowType, NoRow, Lease, NoPush, NoStaleLanding
<1>2. FenceInv /\ [FenceNext]_fenceVars => FenceInv'
  <2> SUFFICES ASSUME FenceInv, [FenceNext]_fenceVars PROVE FenceInv'
    OBVIOUS
  <2>1. ASSUME NEW m \in Managers, push[m].at = "none", TakeLease(m) PROVE FenceInv'
    <3>1. PICK now \in {0, 2} :
            /\ lease' = [SqlAcquire(lease, m, now, 1) EXCEPT !.expires_at = 1]
            /\ mine' = [mine EXCEPT ![m] = Lease("r", m, SqlGrant(lease, m, now))]
            /\ UNCHANGED <<push, branch>>
      BY <2>1 DEF TakeLease
    <3>2. RowType' /\ lease'.max_token >= lease.max_token /\ SqlGrant(lease, m, now) \in Int
      BY <3>1, AcquireRaises DEF FenceInv, FenceType, RowType
    <3>3. FenceType'
      BY <3>1, <3>2 DEF FenceInv, FenceType, Lease
    <3>4. \A i \in 1..Len(branch) : branch[i] \in Int
      BY DEF FenceInv, FenceType
    <3>5. \A i \in 1..Len(branch) : branch[i] <= lease'.max_token
      BY <3>2, <3>4, SMTT(60) DEF FenceInv, FenceType, RowType
    <3>6. ASSUME NEW n \in Managers, push[n].at = "land", push[n].from = Len(branch)
          PROVE  /\ mine'[n].token <= lease'.max_token
                 /\ \A i \in 1..Len(branch) : branch[i] <= mine'[n].token
      <4>1. n # m
        BY <2>1, <3>6
      <4>2. mine'[n] = mine[n] /\ mine[n].token \in Int
        BY <3>1, <4>1 DEF FenceInv, FenceType
      <4>3. mine[n].token <= lease.max_token /\ \A i \in 1..Len(branch) : branch[i] <= mine[n].token
        BY <3>6 DEF FenceInv
      <4> QED
        BY <3>2, <4>2, <4>3 DEF FenceInv, FenceType, RowType
    <3>7. UNCHANGED <<push, branch>>
      BY <3>1
    <3> QED
      BY <3>3, <3>5, <3>6, <3>7 DEF FenceInv, NoStaleLanding
  <2>2. ASSUME NEW m \in Managers, Connect(m) PROVE FenceInv'
    BY <2>2 DEF Connect, FenceInv, FenceType, RowType, NoStaleLanding
  <2>3. ASSUME NEW m \in Managers, Hook(m) PROVE FenceInv'
    BY <2>3 DEF Hook, validate_push, NoPush, FenceInv, FenceType, RowType, NoStaleLanding
  <2>4. ASSUME NEW m \in Managers, Land(m) PROVE FenceInv'
    <3>1. push' = [push EXCEPT ![m] = NoPush] /\ UNCHANGED <<lease, mine>> /\ push[m].at = "land"
      BY <2>4 DEF Land
    <3>2. CASE push[m].from = Len(branch)
      <4>1. branch' = Append(branch, mine[m].token)
        BY <2>4, <3>2 DEF Land
      <4>2. mine[m].token \in Int /\ branch \in Seq(Int)
        BY DEF FenceInv, FenceType
      <4>3. /\ branch' \in Seq(Int) /\ Len(branch') = Len(branch) + 1
            /\ \A i \in 1..Len(branch) : branch'[i] = branch[i]
            /\ branch'[Len(branch) + 1] = mine[m].token
        BY <4>1, <4>2
      <4>4. \A i \in 1..Len(branch) : branch[i] <= mine[m].token
        BY <3>1, <3>2 DEF FenceInv
      <4>5. NoStaleLanding'
        <5> SUFFICES ASSUME NEW i \in 1..Len(branch'), NEW j \in 1..Len(branch'), i < j
                     PROVE  branch'[i] <= branch'[j]
          BY DEF NoStaleLanding
        <5>0. Len(branch) \in Nat /\ Len(branch') = Len(branch) + 1
          BY <4>2, <4>3
        <5>1. i \in 1..Len(branch) /\ branch'[i] = branch[i]
          <6>1. i \in 1..Len(branch)
            BY <5>0
          <6> QED
            BY <4>3, <6>1
        <5>2. CASE j = Len(branch) + 1
          BY <4>3, <4>4, <5>1, <5>2
        <5>3. CASE j # Len(branch) + 1
          <6>1. j \in 1..Len(branch)
            BY <5>0, <5>3
          <6>2. branch'[j] = branch[j]
            BY <4>3, <6>1
          <6> QED
            BY <5>1, <6>1, <6>2 DEF FenceInv, NoStaleLanding
        <5> QED
          BY <5>2, <5>3
      <4>6. FenceType'
        BY <3>1, <4>3 DEF FenceInv, FenceType, RowType, NoPush
      <4>7. \A n \in Managers : n # m => push'[n] = push[n] /\ push[n].from <= Len(branch)
        BY <3>1 DEF FenceInv, FenceType
      <4>8. \A n \in Managers : push'[n].from < Len(branch')
        BY <3>1, <4>2, <4>3, <4>7 DEF FenceInv, FenceType, NoPush
      <4>9. \A i \in 1..Len(branch') : branch'[i] <= lease'.max_token
        BY <3>1, <3>2, <4>3 DEF FenceInv
      <4> QED
        BY <4>3, <4>5, <4>6, <4>8, <4>9 DEF FenceInv, FenceType
    <3>3. CASE push[m].from # Len(branch)
      <4>1. UNCHANGED branch
        BY <2>4, <3>3 DEF Land
      <4> QED
        BY <3>1, <4>1 DEF NoPush, FenceInv, FenceType, RowType, NoStaleLanding
    <3> QED
      BY <3>2, <3>3
  <2>5. CASE UNCHANGED fenceVars
    BY <2>5 DEF fenceVars, FenceInv, FenceType, RowType, NoStaleLanding
  <2> QED
    BY <2>1, <2>2, <2>3, <2>4, <2>5 DEF FenceNext
<1> QED
  BY <1>1, <1>2, PTL

\* For any number of managers, takeovers and pushes no older token lands after a
\* newer one; for any number of attempts, wherever they die, the files in the
\* worktree are those of the attempt that works on them.
THEOREM OneWriterAlways ==
  FenceInit /\ [][FenceNext]_fenceVars /\ TreeInit /\ [][TreeNext]_treeVars => []OneWriter
<1>1. FenceInv /\ TreeInv => OneWriter
  BY DEF FenceInv, TreeInv, OneWriter
<1> QED
  BY <1>1, FenceInvariant, WorktreeInvariant, PTL

-----------------------------------------------------------------------------
(* SideEffects: the saga.  While nobody else commits, a repository's        *)
(* commits say what became of its one step, and done is always the steps    *)
(* before the first that is not to be compensated any more.                 *)

\* git_revert_head reverts whatever is HEAD and comp is keyed by name: both are
\* about the step they are called for when every step has a name and a
\* repository of its own.
OneStepEach ==
  /\ DOMAIN Steps = Indices /\ Len(Steps) \in Nat \ {0}
  /\ \A i, j \in Indices : i # j => RepoOf[i] # RepoOf[j] /\ Steps[i] # Steps[j]

Untouched(j) == repo[RepoOf[j]] = <<{}>>
Committed(j) == repo[RepoOf[j]] = <<{}, {j}>>
Reverted(j) == repo[RepoOf[j]] = <<{}, {j}, {}>>
FirstSteps(d) == [k \in 1..d |-> k]
Settled(j) ==
  \/ Reverted(j) /\ ~ReportedFailed(j)
  \/ Committed(j) /\ ReportedFailed(j)

GoingForward ==
  /\ saga.i \in Indices /\ saga.fail = 0 /\ saga.done = FirstSteps(saga.i - 1)
  /\ \A j \in Indices : IF j < saga.i THEN Committed(j) ELSE Untouched(j)
Unwinding(d) ==
  /\ d \in Nat /\ saga.fail \in Indices /\ d < saga.fail /\ saga.done = FirstSteps(d)
  /\ \A j \in Indices : IF j <= d THEN Committed(j) ELSE IF j < saga.fail THEN Settled(j) ELSE Untouched(j)
SagaShape ==
  /\ DOMAIN saga = {"at", "i", "done", "comp", "fail"}
  /\ saga.at \in {"forward", "unwind", "end"}
  /\ DOMAIN repo = Repos
SagaInv ==
  /\ strange \in Nat
  /\ strange = 0 =>
       /\ SagaShape
       /\ saga.at = "forward" => GoingForward
       /\ saga.at = "unwind" => Unwinding(Len(saga.done)) /\ saga.done # <<>>
       /\ saga.at = "end" =>
            \/ saga.fail = 0 /\ \A j \in Indices : Committed(j)
            \/ Unwinding(0)

LEMMA PrefixFacts == ASSUME NEW d \in Nat
                     PROVE  /\ Len(FirstSteps(d)) = d /\ (FirstSteps(d) = <<>> <=> d = 0)
                            /\ Append(FirstSteps(d), d + 1) = FirstSteps(d + 1)
                            /\ d > 0 => /\ Newest(FirstSteps(d)) = d
                                        /\ Rest(FirstSteps(d)) = FirstSteps(d - 1)
<1>1. FirstSteps(d) \in Seq(Nat) /\ Len(FirstSteps(d)) = d
  BY DEF FirstSteps
<1>2. FirstSteps(d) = <<>> <=> d = 0
  BY <1>1 DEF FirstSteps
<1>3. Append(FirstSteps(d), d + 1) = FirstSteps(d + 1)
  BY <1>1 DEF FirstSteps
<1>4. ASSUME d > 0 PROVE Newest(FirstSteps(d)) = d /\ Rest(FirstSteps(d)) = FirstSteps(d - 1)
  <2>1. Newest(FirstSteps(d)) = d
    BY <1>1, <1>4 DEF FirstSteps, Newest
  <2>2. Rest(FirstSteps(d)) = FirstSteps(d - 1)
    BY <1>1, <1>4 DEF FirstSteps, Rest
  <2> QED
    BY <2>1, <2>2
<1> QED
  BY <1>1, <1>2, <1>3, <1>4

LEMMA PairFacts == ASSUME NEW e, NEW c PROVE Append(<<e>>, c) = <<e, c>> /\ Append(<<e, c>>, e) = <<e, c, e>>
<1> DEFINE S == {e, c}
<1>1. <<e>> \in Seq(S) /\ <<e, c>> \in Seq(S) /\ <<e, c, e>> \in Seq(S) /\ e \in S /\ c \in S
  OBVIOUS
<1> HIDE DEF S
<1>2. /\ Append(<<e>>, c) \in Seq(S) /\ Len(Append(<<e>>, c)) = 2
      /\ Append(<<e>>, c)[1] = e /\ Append(<<e>>, c)[2] = c
  BY <1>1
<1>3. /\ Append(<<e, c>>, e) \in Seq(S) /\ Len(Append(<<e, c>>, e)) = 3 /\ Append(<<e, c>>, e)[1] = e
      /\ Append(<<e, c>>, e)[2] = c /\ Append(<<e, c>>, e)[3] = e
  BY <1>1
<1>4. Append(<<e>>, c) = <<e, c>>
  <2> DEFINE s == Append(<<e>>, c)
             t == <<e, c>>
  <2>1. s \in Seq(S) /\ t \in Seq(S) /\ Len(s) = Len(t) /\ \A k \in 1..Len(s) : s[k] = t[k]
    BY <1>1, <1>2
  <2> HIDE DEF s, t
  <2>2. s = t
    BY <2>1, SeqEqual
  <2> QED
    BY <2>2 DEF s, t
<1>5. Append(<<e, c>>, e) = <<e, c, e>>
  <2> DEFINE s == Append(<<e, c>>, e)
             t == <<e, c, e>>
  <2>1. s \in Seq(S) /\ t \in Seq(S) /\ Len(s) = Len(t) /\ \A k \in 1..Len(s) : s[k] = t[k]
    BY <1>1, <1>3
  <2> HIDE DEF s, t
  <2>2. s = t
    BY <2>1, SeqEqual
  <2> QED
    BY <2>2 DEF s, t
<1> QED
  BY <1>4, <1>5

\* A commit on top of nothing, and a revert of a commit on top of nothing.
LEMMA CommitFacts ==
  ASSUME NEW i \in Indices, OneStepEach, SagaShape, Untouched(i), repo' = Commit(RepoOf[i], i)
  PROVE  /\ Committed(i)' /\ DOMAIN repo' = DOMAIN repo
         /\ \A j \in Indices \ {i} : repo'[RepoOf[j]] = repo[RepoOf[j]]
<1>1. RepoOf[i] \in DOMAIN repo
  BY DEF SagaShape, Repos
<1>2. repo'[RepoOf[i]] = Append(<<{}>>, Newest(<<{}>>) \cup {i})
  BY <1>1 DEF Commit, Untouched
<1>3. Append(<<{}>>, Newest(<<{}>>) \cup {i}) = <<{}, {i}>>
  <2>1. Newest(<<{}>>) \cup {i} = {i}
    BY DEF Newest
  <2> DEFINE c == {i}
             e == {}
  <2> HIDE DEF c, e
  <2>2. Append(<<e>>, c) = <<e, c>>
    BY PairFacts
  <2> QED
    BY <2>1, <2>2 DEF c, e
<1>4. \A j \in Indices \ {i} : repo'[RepoOf[j]] = repo[RepoOf[j]]
  BY <1>1 DEF Commit, OneStepEach, SagaShape, Repos
<1> QED
  BY <1>1, <1>2, <1>3, <1>4 DEF Committed, Commit

LEMMA RevertFacts ==
  ASSUME NEW i \in Indices, OneStepEach, SagaShape, Committed(i), repo' = git_revert_head(RepoOf[i])
  PROVE  /\ repo'[RepoOf[i]] = <<{}, {i}, {}>> /\ DOMAIN repo' = DOMAIN repo
         /\ \A j \in Indices \ {i} : repo'[RepoOf[j]] = repo[RepoOf[j]]
<1>1. RepoOf[i] \in DOMAIN repo
  BY DEF SagaShape, Repos
<1> DEFINE s == repo[RepoOf[i]]
<1>2. repo' = [repo EXCEPT ![RepoOf[i]] = Append(s, IF Len(s) = 1 THEN {} ELSE s[Len(s) - 1])]
  BY DEF git_revert_head
<1>3. repo'[RepoOf[i]] = Append(s, IF Len(s) = 1 THEN {} ELSE s[Len(s) - 1]) /\ DOMAIN repo' = DOMAIN repo
  BY <1>1, <1>2
<1>4. Append(s, IF Len(s) = 1 THEN {} ELSE s[Len(s) - 1]) = <<{}, {i}, {}>>
  <2> DEFINE c == {i}
             e == {}
  <2>1. s = <<e, c>>
    BY DEF Committed
  <2> HIDE DEF c, e, s
  <2>2. Len(s) = 2 /\ s[1] = e
    BY <2>1
  <2>3. Append(s, e) = <<e, c, e>>
    BY <2>1, PairFacts
  <2>4. (IF Len(s) = 1 THEN e ELSE s[Len(s) - 1]) = e
    BY <2>2
  <2>5. Append(s, IF Len(s) = 1 THEN e ELSE s[Len(s) - 1]) = <<e, c, e>>
    BY <2>3, <2>4
  <2> QED
    BY <2>5 DEF c, e
<1>5. \A j \in Indices \ {i} : repo'[RepoOf[j]] = repo[RepoOf[j]]
  BY <1>1, <1>2 DEF OneStepEach, SagaShape, Repos
<1> QED
  BY <1>3, <1>4, <1>5

LEMMA ForwardStep == ASSUME OneStepEach, SagaInv, Forward PROVE SagaInv'
<1>1. strange' = strange /\ strange \in Nat
  BY DEF Forward, SagaInv
<1> SUFFICES ASSUME strange = 0 PROVE SagaInv'
  BY <1>1 DEF SagaInv
<1>2. saga.at = "forward" /\ SagaShape /\ GoingForward
  BY DEF SagaInv, Forward
<1>a. PICK i : i = saga.i
  OBVIOUS
<1>3. i \in Indices /\ i - 1 \in Nat /\ Untouched(i) /\ Len(Steps) \in Nat /\ Indices = 1..Len(Steps)
  BY <1>2, <1>a DEF GoingForward, Indices, OneStepEach
<1>4. CASE /\ repo' = Commit(RepoOf[i], i)
           /\ saga' = [saga EXCEPT !.i = i + 1, !.done = Append(@, i),
                                   !.at = IF i = Len(Steps) THEN "end" ELSE @]
  <2>1. /\ DOMAIN saga' = DOMAIN saga /\ saga'.i = i + 1 /\ saga'.done = Append(saga.done, i)
        /\ saga'.fail = 0 /\ saga'.comp = saga.comp
        /\ saga'.at = IF i = Len(Steps) THEN "end" ELSE "forward"
    BY <1>2, <1>4, <1>a DEF SagaShape, GoingForward
  <2>2. saga'.done = FirstSteps(i)
    <3>1. Append(FirstSteps(i - 1), (i - 1) + 1) = FirstSteps((i - 1) + 1) /\ (i - 1) + 1 = i
      <4> DEFINE k == i - 1
      <4>1. k \in Nat /\ k + 1 = i
        BY <1>3
      <4> HIDE DEF k
      <4>2. Append(FirstSteps(k), k + 1) = FirstSteps(k + 1)
        BY <4>1, PrefixFacts
      <4> QED
        BY <4>1, <4>2 DEF k
    <3> QED
      BY <1>2, <1>a, <2>1, <3>1 DEF GoingForward
  <2>3. /\ Committed(i)' /\ DOMAIN repo' = DOMAIN repo
        /\ \A j \in Indices \ {i} : repo'[RepoOf[j]] = repo[RepoOf[j]]
    BY <1>2, <1>3, <1>4, CommitFacts
  <2>4. \A j \in Indices : IF j < i + 1 THEN Committed(j)' ELSE Untouched(j)'
    <3> SUFFICES ASSUME NEW j \in Indices PROVE IF j < i + 1 THEN Committed(j)' ELSE Untouched(j)'
      OBVIOUS
    <3>1. CASE j = i
      BY <3>1, <2>3, <1>3
    <3>2. CASE j # i
      <4>1. IF j < i THEN Committed(j) ELSE Untouched(j)
        BY <1>2, <1>a DEF GoingForward
      <4>2. (Committed(j)' <=> Committed(j)) /\ (Untouched(j)' <=> Untouched(j))
        BY <3>2, <2>3 DEF Committed, Untouched
      <4>3. j < i <=> j < i + 1
        BY <3>2, <1>3
      <4> QED
        BY <4>1, <4>2, <4>3
    <3> QED
      BY <3>1, <3>2
  <2>5. SagaShape'
    BY <1>2, <2>1, <2>3 DEF SagaShape, Repos, Indices
  <2>6. CASE i = Len(Steps)
    <3>1. saga'.at = "end" /\ \A j \in Indices : Committed(j)'
      BY <2>6, <2>1, <2>4, <1>3
    <3> QED
      BY <3>1, <1>1, <2>1, <2>5 DEF SagaInv, Indices
  <2>7. CASE i # Len(Steps)
    <3>1. saga'.at = "forward" /\ i + 1 \in Indices /\ (i + 1) - 1 = i
      BY <2>7, <2>1, <1>3
    <3>2. GoingForward'
      BY <3>1, <2>1, <2>2, <2>4 DEF GoingForward, Indices
    <3> QED
      BY <3>1, <3>2, <1>1, <2>5 DEF SagaInv
  <2> QED
    BY <2>6, <2>7
<1>5. CASE /\ saga' = [saga EXCEPT !.fail = i, !.done = Unwound(@),
                                   !.at = IF Unwound(saga.done) = <<>> THEN "end" ELSE "unwind"]
           /\ repo' = repo
  <2>1. /\ DOMAIN saga' = DOMAIN saga /\ saga'.fail = i /\ saga'.done = saga.done
        /\ saga'.at = IF saga.done = <<>> THEN "end" ELSE "unwind"
    BY <1>2, <1>5 DEF SagaShape, Unwound
  <2>2. SagaShape'
    BY <1>2, <1>5, <2>1 DEF SagaShape, Repos, Indices
  <2>3. Len(saga.done) = i - 1 /\ (saga.done = <<>> <=> i - 1 = 0)
    BY <1>2, <1>3, <1>a, PrefixFacts DEF GoingForward
  <2>4. Unwinding(i - 1)'
    <3>1. \A j \in Indices : IF j <= i - 1 THEN Committed(j)' ELSE IF j < i THEN Settled(j)' ELSE Untouched(j)'
      <4> SUFFICES ASSUME NEW j \in Indices
                   PROVE  IF j <= i - 1 THEN Committed(j)' ELSE IF j < i THEN Settled(j)' ELSE Untouched(j)'
        OBVIOUS
      <4>1. IF j < i THEN Committed(j) ELSE Untouched(j)
        BY <1>2, <1>a DEF GoingForward
      <4>2. (Committed(j)' <=> Committed(j)) /\ (Untouched(j)' <=> Untouched(j))
        BY <1>5 DEF Committed, Untouched
      <4>3. j < i <=> j <= i - 1
        BY <1>3
      <4> QED
        BY <4>1, <4>2, <4>3
    <3> QED
      BY <3>1, <1>2, <1>3, <1>a, <2>1 DEF Unwinding, GoingForward, Indices
  <2> QED
    BY <1>1, <2>1, <2>2, <2>3, <2>4 DEF SagaInv
<1> QED
  BY <1>4, <1>5, <1>a DEF Forward

LEMMA CompensateStep == ASSUME OneStepEach, SagaInv, Compensate PROVE SagaInv'
<1>1. strange' = strange /\ strange \in Nat
  BY DEF Compensate, SagaInv
<1> SUFFICES ASSUME strange = 0 PROVE SagaInv'
  BY <1>1 DEF SagaInv
<1>a. PICK d : d = Len(saga.done)
  OBVIOUS
<1>2. saga.at = "unwind" /\ SagaShape /\ Unwinding(d) /\ saga.done # <<>>
  BY <1>a DEF SagaInv, Compensate
<1>b. d \in Nat /\ saga.done = FirstSteps(d) /\ d # 0
  BY <1>2, PrefixFacts DEF Unwinding
<1>c. Newest(saga.done) = d /\ Rest(saga.done) = FirstSteps(d - 1)
  <2>1. d > 0
    BY <1>b
  <2> HIDE DEF FirstSteps
  <2> QED
    BY <2>1, <1>b, PrefixFacts
<1>3. /\ d \in Nat /\ d > 0 /\ saga.fail \in Indices /\ d < saga.fail /\ Len(Steps) \in Nat /\ Indices = 1..Len(Steps)
      /\ Newest(saga.done) = d /\ Rest(saga.done) = FirstSteps(d - 1) /\ d - 1 \in Nat
  BY <1>2, <1>b, <1>c DEF Unwinding, Indices, OneStepEach
<1>4. d \in Indices /\ Committed(d)
  BY <1>2, <1>3 DEF Unwinding
<1>5. PICK how \in {"compensated", "failed"} :
        /\ saga' = [saga EXCEPT !.done = Rest(@), !.comp = Note(@, Steps[d], how),
                                !.at = IF Rest(saga.done) = <<>> THEN "end" ELSE @]
        /\ IF how = "compensated" THEN repo' = git_revert_head(RepoOf[d]) ELSE repo' = repo
  <2>1. CASE /\ repo' = git_revert_head(RepoOf[d])
             /\ saga' = [saga EXCEPT !.done = Rest(@), !.comp = Note(@, Steps[d], "compensated"),
                                     !.at = IF Rest(saga.done) = <<>> THEN "end" ELSE @]
    BY <2>1
  <2>2. CASE /\ repo' = repo
             /\ saga' = [saga EXCEPT !.done = Rest(@), !.comp = Note(@, Steps[d], "failed"),
                                     !.at = IF Rest(saga.done) = <<>> THEN "end" ELSE @]
    BY <2>2
  <2> QED
    BY <1>3, <2>1, <2>2 DEF Compensate
<1>6. /\ DOMAIN saga' = DOMAIN saga /\ saga'.done = FirstSteps(d - 1) /\ saga'.fail = saga.fail
      /\ saga'.comp = Note(saga.comp, Steps[d], how)
      /\ saga'.at = IF FirstSteps(d - 1) = <<>> THEN "end" ELSE "unwind"
  BY <1>2, <1>3, <1>5 DEF SagaShape
<1>7. /\ ReportedFailed(d)' <=> how = "failed"
      /\ \A j \in Indices \ {d} : ReportedFailed(j)' <=> ReportedFailed(j)
  <2>1. /\ Steps[d] \in DOMAIN saga'.comp /\ saga'.comp[Steps[d]] = how
    BY <1>6 DEF Note
  <2>2. \A j \in Indices \ {d} : /\ Steps[j] \in DOMAIN saga'.comp <=> Steps[j] \in DOMAIN saga.comp
                                 /\ Steps[j] \in DOMAIN saga.comp => saga'.comp[Steps[j]] = saga.comp[Steps[j]]
    BY <1>4, <1>6 DEF Note, OneStepEach
  <2> QED
    BY <2>1, <2>2 DEF ReportedFailed
<1>8. /\ DOMAIN repo' = DOMAIN repo
      /\ IF how = "compensated" THEN repo'[RepoOf[d]] = <<{}, {d}, {}>> ELSE repo'[RepoOf[d]] = repo[RepoOf[d]]
      /\ \A j \in Indices \ {d} : repo'[RepoOf[j]] = repo[RepoOf[j]]
  BY <1>2, <1>4, <1>5, RevertFacts
<1>9. Settled(d)'
  BY <1>4, <1>5, <1>7, <1>8 DEF Settled, Reverted, Committed
<1>10. \A j \in Indices : IF j <= d - 1 THEN Committed(j)' ELSE IF j < saga.fail THEN Settled(j)' ELSE Untouched(j)'
  <2> SUFFICES ASSUME NEW j \in Indices
               PROVE  IF j <= d - 1 THEN Committed(j)' ELSE IF j < saga.fail THEN Settled(j)' ELSE Untouched(j)'
    OBVIOUS
  <2>1. CASE j = d
    BY <2>1, <1>3, <1>9
  <2>2. CASE j # d
    <3>1. IF j <= d THEN Committed(j) ELSE IF j < saga.fail THEN Settled(j) ELSE Untouched(j)
      BY <1>2 DEF Unwinding
    <3>2. (Committed(j)' <=> Committed(j)) /\ (Untouched(j)' <=> Untouched(j)) /\ (Settled(j)' <=> Settled(j))
      BY <2>2, <1>7, <1>8 DEF Committed, Untouched, Settled, Reverted
    <3>3. j <= d <=> j <= d - 1
      BY <2>2, <1>3
    <3> QED
      BY <3>1, <3>2, <3>3
  <2> QED
    BY <2>1, <2>2
<1>11. Unwinding(d - 1)'
  BY <1>3, <1>6, <1>10 DEF Unwinding, Indices
<1>12. SagaShape'
  BY <1>2, <1>6, <1>8 DEF SagaShape, Repos, Indices
<1>13. Len(saga'.done) = d - 1 /\ (saga'.done = <<>> <=> d - 1 = 0)
  BY <1>3, <1>6, PrefixFacts
<1> QED
  BY <1>1, <1>6, <1>11, <1>12, <1>13 DEF SagaInv

LEMMA SagaFollows == ASSUME OneStepEach, SagaInv PROVE AllOrNothing
<1> SUFFICES ASSUME saga.at = "end", strange = 0, NEW i \in Indices
             PROVE  i \in Newest(repo[RepoOf[i]]) <=> \/ saga.fail = 0
                                                      \/ i < saga.fail /\ ReportedFailed(i)
  BY DEF AllOrNothing
<1>0. i \in Nat /\ Len(Steps) \in Nat
  BY DEF Indices, OneStepEach
<1>1. /\ Untouched(i) => i \notin Newest(repo[RepoOf[i]])
      /\ Committed(i) => i \in Newest(repo[RepoOf[i]])
      /\ Reverted(i) => i \notin Newest(repo[RepoOf[i]])
  <2> DEFINE c == {i}
             e == {}
  <2>1. i \in c /\ i \notin e
    OBVIOUS
  <2> HIDE DEF c, e
  <2>2. Newest(<<e>>) = e /\ Newest(<<e, c>>) = c /\ Newest(<<e, c, e>>) = e
    BY DEF Newest
  <2> QED
    BY <2>1, <2>2 DEF Untouched, Committed, Reverted, c, e
<1>2. CASE saga.fail = 0 /\ \A j \in Indices : Committed(j)
  BY <1>1, <1>2
<1>3. CASE Unwinding(0)
  <2>1. saga.fail \in Indices /\ saga.fail # 0 /\ ~(i <= 0)
    BY <1>3, <1>0 DEF Unwinding, Indices
  <2>2. IF i < saga.fail THEN Settled(i) ELSE Untouched(i)
    BY <1>3, <2>1 DEF Unwinding
  <2> QED
    BY <1>1, <2>1, <2>2 DEF Settled
<1> QED
  BY <1>2, <1>3 DEF SagaInv

\* "The whole change is all-or-nothing" (run_saga): for any number of steps, each
\* in a repository of its own and under a name of its own, whichever fails and
\* whatever compensations fail, nobody else committing.
THEOREM SagasAreAtomic == OneStepEach /\ SagaInit /\ [][SagaNext]_sagaVars => []AllOrNothing
<1> SUFFICES ASSUME OneStepEach PROVE SagaInit /\ [][SagaNext]_sagaVars => []AllOrNothing
  OBVIOUS
<1>1. SagaInit => SagaInv
  <2> SUFFICES ASSUME SagaInit PROVE SagaInv
    OBVIOUS
  <2>1. SagaShape /\ saga.at = "forward" /\ strange = 0
    BY DEF SagaInit, SagaShape
  <2>2. saga.i = 1 /\ saga.fail = 0 /\ saga.done = FirstSteps(1 - 1)
    BY PrefixFacts DEF SagaInit
  <2>3. \A j \in Indices : Untouched(j) /\ ~(j < 1)
    BY DEF SagaInit, Untouched, Repos, Indices, OneStepEach
  <2>4. GoingForward
    BY <2>2, <2>3 DEF GoingForward, Indices, OneStepEach
  <2> QED
    BY <2>1, <2>4 DEF SagaInv
<1>2. SagaInv /\ [SagaNext]_sagaVars => SagaInv'
  <2> SUFFICES ASSUME SagaInv, [SagaNext]_sagaVars PROVE SagaInv'
    OBVIOUS
  <2>1. CASE Stranger
    BY <2>1 DEF Stranger, SagaInv
  <2>2. CASE UNCHANGED sagaVars
    BY <2>2 DEF sagaVars, SagaInv, SagaShape, GoingForward, Unwinding, Settled, Committed, Reverted, Untouched,
                ReportedFailed, Repos, Indices
  <2> QED
    BY <2>1, <2>2, ForwardStep, CompensateStep DEF SagaNext
<1> QED
  BY <1>1, <1>2, SagaFollows, PTL

-----------------------------------------------------------------------------
(* PlanActuator.  Plan files have ever new ids, so the bytes `show` read    *)
(* are those of the file if its id is still the one digested before; what   *)
(* is bound was classified by them, and the gateway decided on that class.  *)

PlanType ==
  /\ plans \in Nat
  /\ file \in [id : Nat, does : Does \cup {"nothing"}]
  /\ order \in [at : {"idle", "digest", "show", "digest_again", "ready", "act", "apply"},
                before : Nat, shown : Does \cup {"nothing", "unreadable"}, bound : Nat,
                class : {"irreversible", "consequential"},
                verdict : {"pass", "warn", "fail"}, ok : BOOLEAN]

\* No file is newer than the last one, nor one that was digested.
Written ==
  /\ file.id <= plans /\ order.before <= plans /\ order.bound <= plans
  /\ file # NoPlan => file.id # 0

\* While the plan is read the class is the worst one; what is bound has the class
\* of what it does, or the worst one.
Classified ==
  /\ order.at \in {"digest", "show", "digest_again"} => order.class = "irreversible" /\ order.bound = 0
  /\ order.at \in {"show", "digest_again"} => order.before # 0
  /\ order.at = "digest_again" /\ order.before = file.id => order.shown \in {file.does, "unreadable"}
  /\ order.bound # 0 /\ order.bound = file.id =>
       order.class = "irreversible" \/ order.class = escalate(file.does)

Decided == order.ok \/ (order.class # "irreversible" /\ order.verdict = "pass")

PlanInv ==
  /\ PlanType /\ Written /\ Classified
  /\ order.at \in {"act", "apply"} => Decided
  /\ order.at = "apply" => order.bound # 0
  /\ AppliedAsDecided

\* A plan's class is one of two.
LEMMA EscalateClass == ASSUME NEW does PROVE escalate(does) \in {"irreversible", "consequential"}
  BY DEF escalate

\* Whoever plans into the file, and whenever: what is applied from the file act()
\* checked was decided on by what it does.
THEOREM AppliesWhatWasDecided == PlanInit /\ [][PlanNext]_planVars => []AppliedAsDecided
<1> DEFINE Becomes(at, before, shown, bound, class, verdict, ok) ==
             order' = [at |-> at, before |-> before, shown |-> shown, bound |-> bound,
                       class |-> class, verdict |-> verdict, ok |-> ok]
           Reset(at) == Becomes(at, 0, "nothing", 0, "irreversible", "fail", FALSE)
           o == order
<1>1. PlanInit => PlanInv
  BY DEF PlanInit, PlanInv, PlanType, Written, Classified, AppliedAsDecided, NoPlan, NoOrder
<1>2. PlanInv /\ [PlanNext]_planVars => PlanInv'
  <2> SUFFICES ASSUME PlanInv, [PlanNext]_planVars PROVE PlanInv'
    OBVIOUS
  <2> USE DEF PlanInv, PlanType, Written, Classified, Decided
  <2>1. ASSUME NewFile, UNCHANGED applied, UNCHANGED order \/ Reset("digest") PROVE PlanInv'
    <3>1. PICK d \in Does : file' = [id |-> plans + 1, does |-> d] /\ plans' = plans + 1
      BY <2>1 DEF NewFile
    <3>2. PlanType' /\ Written'
      <4>1. file'.id = plans + 1 /\ file'.does = d /\ file' \in [id : Nat, does : Does \cup {"nothing"}] /\ plans' \in Nat
        BY <3>1
      <4>2. CASE UNCHANGED order
        BY <3>1, <4>1, <4>2
      <4>3. CASE Reset("digest")
        BY <3>1, <4>1, <4>3
      <4> QED
        BY <2>1, <4>2, <4>3
    <3>3. Classified'
      BY <2>1, <3>1
    <3>4. AppliedAsDecided'
      BY <2>1 DEF AppliedAsDecided
    <3> QED
      BY <2>1, <3>2, <3>3, <3>4
  <2>2. ASSUME NEW at \in {"idle", "ready"}, Reset(at), UNCHANGED <<file, plans, applied>> PROVE PlanInv'
    BY <2>2 DEF AppliedAsDecided, NoPlan
  <2>3. CASE Plan
    <3>1. CASE NewFile /\ order' = [NoOrder EXCEPT !.at = "digest"]
      BY <2>1, <2>3, <3>1 DEF Plan, NoOrder
    <3>2. CASE order' = [NoOrder EXCEPT !.at = "ready"] /\ UNCHANGED <<file, plans>>
      BY <2>2, <2>3, <3>2 DEF Plan, NoOrder
    <3> QED
      BY <2>3, <3>1, <3>2 DEF Plan
  <2>4. CASE DigestBefore
    <3>1. CASE file = NoPlan
      BY <2>2, <2>4, <3>1 DEF DigestBefore, NoOrder
    <3>2. CASE file # NoPlan
      <4>1. Becomes("show", file.id, o.shown, o.bound, o.class, o.verdict, o.ok)
        BY <2>4, <3>2 DEF DigestBefore
      <4> QED
        BY <2>4, <3>2, <4>1 DEF DigestBefore, AppliedAsDecided
    <3> QED
      BY <3>1, <3>2
  <2>5. CASE Show
    <3>1. PICK s \in {file.does, "unreadable"} : Becomes("digest_again", o.before, s, o.bound, o.class, o.verdict, o.ok)
      BY <2>5 DEF Show
    <3> QED
      BY <2>5, <3>1 DEF Show, AppliedAsDecided
  <2>6. CASE DigestAfter
    <3>1. CASE ~Binds(order.before)
      BY <2>2, <2>6, <3>1 DEF DigestAfter, NoOrder
    <3>2. CASE Binds(order.before)
      <4>1. PICK c \in {"irreversible", escalate(o.shown)}, v \in {"pass", "warn", "fail"} :
              /\ Becomes("ready", o.before, o.shown, file.id, c, v, o.ok)
              /\ c = "irreversible" \/ o.shown # "unreadable"
        BY <2>6, <3>2, ZenonT(60) DEF DigestAfter
      <4>2. c = "irreversible" \/ c = escalate(file.does)
        BY <2>6, <3>2, <4>1 DEF Binds, DigestAfter
      <4> QED
        BY <2>6, <4>1, <4>2, EscalateClass DEF DigestAfter, AppliedAsDecided
    <3> QED
      BY <3>1, <3>2
  <2>7. CASE DecideApply
    <3>1. PICK human, dry \in BOOLEAN, deny \in {{}, {"terraform apply"}} :
            order' = IF handle(Policy(deny, dry), Apply, order.verdict, human) = "forward"
                     THEN [order EXCEPT !.at = "act", !.ok = human] ELSE NoOrder
      BY <2>7 DEF DecideApply
    <3>2. CASE handle(Policy(deny, dry), Apply, order.verdict, human) = "forward"
      <4>1. Becomes("act", o.before, o.shown, o.bound, o.class, o.verdict, human)
        BY <3>1, <3>2
      \* The gateway forwards what is not decided only if it is not irreversible.
      <4>2. human \/ (o.class # "irreversible" /\ o.verdict = "pass")
        <5>1. order.class \in {"irreversible", "consequential"}
          OBVIOUS
        <5> QED
          BY <3>2, <5>1 DEF handle, classify, Policy, Apply, escalation_override
      <4>3. Decided'
        <5>1. order'.ok = human /\ order'.class = o.class /\ order'.verdict = o.verdict
          BY <4>1
        <5> QED
          BY <4>2, <5>1, Zenon
      <4> QED
        BY <2>7, <4>1, <4>3 DEF DecideApply, AppliedAsDecided
    <3>3. CASE handle(Policy(deny, dry), Apply, order.verdict, human) # "forward"
      BY <2>2, <2>7, <3>1, <3>3 DEF DecideApply, NoOrder
    <3> QED
      BY <3>2, <3>3
  <2>8. CASE Act
    <3>1. CASE file # NoPlan /\ order.bound # 0 /\ file.id = order.bound
      <4>1. Becomes("apply", o.before, o.shown, o.bound, o.class, o.verdict, o.ok)
        BY <2>8, <3>1 DEF Act
      <4> QED
        BY <2>8, <3>1, <4>1 DEF Act, AppliedAsDecided
    <3>2. CASE ~(file # NoPlan /\ order.bound # 0 /\ file.id = order.bound)
      BY <2>2, <2>8, <3>2 DEF Act, NoOrder
    <3> QED
      BY <3>1, <3>2
  <2>9. CASE TerraformApply
    <3>1. AppliedAsDecided'
      <4>1. CASE UNCHANGED applied
        BY <4>1 DEF AppliedAsDecided
      <4>2. CASE applied' = {[plan |-> file, order |-> order, late |-> file.id # order.bound]}
        <5> DEFINE a == [plan |-> file, order |-> order, late |-> file.id # order.bound]
        <5>1. a.plan = file /\ a.order = order /\ (a.late <=> file.id # order.bound)
          OBVIOUS
        <5>2. Decided /\ order.bound # 0
          BY <2>9 DEF TerraformApply
        <5>3. file.id = order.bound => order.class = "irreversible" \/ order.class = escalate(file.does)
          BY <5>2
        <5> HIDE DEF a
        <5>4. ~a.late => a.order.ok \/ (escalate(a.plan.does) # "irreversible" /\ a.order.verdict = "pass")
          BY <5>1, <5>2, <5>3, Zenon DEF Decided
        <5> QED
          BY <4>2, <5>4 DEF AppliedAsDecided, a
      <4> QED
        BY <2>9, <4>1, <4>2 DEF TerraformApply
    <3> QED
      BY <2>9, <3>1 DEF TerraformApply, NoOrder
  <2>10. CASE Others
    <3>1. CASE NewFile
      BY <2>1, <2>10, <3>1 DEF Others
    <3>2. CASE file' = NoPlan /\ UNCHANGED plans
      BY <2>10, <3>2 DEF Others, NoPlan, AppliedAsDecided
    <3> QED
      BY <2>10, <3>1, <3>2 DEF Others
  <2>11. CASE UNCHANGED planVars
    BY <2>11 DEF planVars, AppliedAsDecided
  <2> QED
    BY <2>3, <2>4, <2>5, <2>6, <2>7, <2>8, <2>9, <2>10, <2>11 DEF PlanNext
<1>3. PlanInv => AppliedAsDecided
  BY DEF PlanInv
<1> QED
  BY <1>1, <1>2, <1>3, PTL

-----------------------------------------------------------------------------
(* TelecomActuator.  While the commit is pending the device runs the        *)
(* candidate; after it reverted it runs what it had.  So the verification   *)
(* saw the candidate, or what the device had, which then is as desired.     *)

Device == [running : Configs, saved : Configs, candidate : Configs, pending : BOOLEAN, locked : BOOLEAN]
PlanOf == [digest : {e.id : e \in Edits}, desired : {{}} \cup {{d} : d \in Configs}, current : Configs,
           class : {"irreversible", "consequential"}, verdict : {"pass", "fail"}]
Results == {"none", "refused", "no_lock", "rolled_back", "ok", "died"}
Change == [at : {"idle", "planned", "edit", "commit", "verify", "confirm", "over"}, plan : {"none"} \cup PlanOf,
           edit : Edits \cup {"none"}, approved : BOOLEAN, result : Results]
TelecomType ==
  /\ device \in Device /\ change \in Change
  /\ change.at \notin {"idle", "over"} => change.edit \in Edits /\ change.plan \in PlanOf

Sent == {"verify", "confirm"}
Doing == {"edit", "commit"} \cup Sent

\* The running configuration is the saved one or, until it is confirmed, the
\* candidate.
Tracked ==
  /\ ~device.pending => device.running = device.saved
  /\ change.at \in Sent /\ device.pending => device.running = device.candidate
  /\ change.at \in {"idle", "planned", "edit", "commit"} => ~device.pending

\* What act() checked of the plan, and what the verification saw.
Checked ==
  /\ change.at \in Doing =>
       /\ change.plan.desired # {}
       /\ change.plan.class = "irreversible" => change.approved
  /\ change.at = "confirm" =>
       \A d \in change.plan.desired :
         \/ device.candidate \notin Fails /\ _matches_desired(device.candidate, d)
         \/ _matches_desired(device.saved, d)

TelecomInv == TelecomType /\ Tracked /\ Checked /\ KeptIsVerified

\* What is left to do after a failed call moves neither the running nor the
\* saved configuration.
LEMMA CleanupKeeps ==
  ASSUME NEW d \in Device, NEW e \in Cleanup(d)
  PROVE  /\ e \in Device
         /\ e.running = d.running /\ e.saved = d.saved /\ e.pending = d.pending
<1>1. PICK c \in {d.running, d.candidate}, l \in {FALSE, d.locked} : e = [d EXCEPT !.candidate = c, !.locked = l]
  BY DEF Cleanup, Device
<1>2. e = [running |-> d.running, saved |-> d.saved, candidate |-> c, pending |-> d.pending, locked |-> l]
  BY <1>1 DEF Device
<1>3. c \in Configs /\ l \in BOOLEAN
  BY <1>1 DEF Device
<1> QED
  BY <1>2, <1>3 DEF Device

\* A device told to run, or to keep, a configuration.
LEMMA Updated ==
  ASSUME NEW v \in Device, NEW c \in Configs, NEW b \in BOOLEAN
  PROVE  /\ [v EXCEPT !.running = c, !.pending = b]
              = [running |-> c, saved |-> v.saved, candidate |-> v.candidate, pending |-> b, locked |-> v.locked]
         /\ [v EXCEPT !.running = c, !.saved = c, !.pending = b]
              = [running |-> c, saved |-> c, candidate |-> v.candidate, pending |-> b, locked |-> v.locked]
<1>1. PICK x \in Device : x = [v EXCEPT !.running = c]
  BY DEF Device
<1>2. x = [running |-> c, saved |-> v.saved, candidate |-> v.candidate, pending |-> v.pending, locked |-> v.locked]
  BY <1>1 DEF Device
<1>3. PICK y \in Device : y = [x EXCEPT !.saved = c]
  BY DEF Device
<1>4. y = [running |-> c, saved |-> c, candidate |-> v.candidate, pending |-> v.pending, locked |-> v.locked]
  BY <1>2, <1>3 DEF Device
<1>5. [x EXCEPT !.pending = b]
        = [running |-> c, saved |-> v.saved, candidate |-> v.candidate, pending |-> b, locked |-> v.locked]
  BY <1>2 DEF Device
<1>6. [y EXCEPT !.pending = b]
        = [running |-> c, saved |-> c, candidate |-> v.candidate, pending |-> b, locked |-> v.locked]
  BY <1>4 DEF Device
<1> QED
  BY <1>1, <1>3, <1>5, <1>6, Zenon

\* A step that only ends the change, on a device that still runs and saves what
\* it did or reverts, keeps the invariant.
LEMMA EndsChange ==
  ASSUME TelecomInv, NEW r \in Results, Over(r), device' \in Device, UNCHANGED kept,
         ~device'.pending => device'.running = device'.saved
  PROVE  TelecomInv'
<1>1. change' = [at |-> "over", plan |-> change.plan, edit |-> change.edit, approved |-> change.approved, result |-> r]
  BY DEF Over, TelecomInv, TelecomType, Change
<1>2. TelecomType'
  BY <1>1 DEF TelecomInv, TelecomType, Change
<1> QED
  BY <1>1, <1>2 DEF TelecomInv, Tracked, Checked, Sent, Doing, KeptIsVerified

\* For any configurations, graders and criticality, whatever the session loses and
\* whenever the device reverts.
THEOREM KeepsWhatWasVerified == TelecomInit /\ [][TelecomNext]_telecomVars => []KeptIsVerified
<1> DEFINE Moves(at, edit, approved) ==
             change' = [at |-> at, plan |-> change.plan, edit |-> edit, approved |-> approved, result |-> change.result]
           d == device
           Sets(running, saved, candidate, pending, locked) ==
             device' = [running |-> running, saved |-> saved, candidate |-> candidate, pending |-> pending, locked |-> locked]
<1>1. TelecomInit => TelecomInv
  BY DEF TelecomInit, NoChange, Results, TelecomInv, TelecomType, Device, Change, Tracked, Checked, Sent, Doing, KeptIsVerified
<1>2. TelecomInv /\ [TelecomNext]_telecomVars => TelecomInv'
  <2> SUFFICES ASSUME TelecomInv, [TelecomNext]_telecomVars PROVE TelecomInv'
    OBVIOUS
  <2> USE TelecomAssumption
  <2> USE DEF TelecomInv, Results
  <2>1. CASE Plan_
    <3>1. PICK current \in Configs, graded \in Configs, desired \in Configs, e \in Edits, readable \in BOOLEAN :
            change' = [at |-> "planned", approved |-> FALSE, result |-> "none", edit |-> e,
                       plan |-> [digest |-> e.id, desired |-> IF readable THEN {desired} ELSE {},
                                 current |-> current,
                                 class |-> IF readable THEN _change_class(current, desired) ELSE "irreversible",
                                 verdict |-> IF graded \in Fails THEN "fail" ELSE "pass"]]
      BY <2>1 DEF Plan_
    <3>2. change'.plan \in PlanOf
      BY <3>1 DEF PlanOf, _change_class
    <3>3. change' \in Change /\ change'.at = "planned" /\ change'.edit \in Edits
      BY <3>1, <3>2 DEF Change
    <3> QED
      BY <2>1, <3>2, <3>3 DEF Plan_, TelecomType, Tracked, Checked, Sent, Doing, KeptIsVerified
  <2>2. CASE SwapEdit
    <3>1. PICK e \in Edits : Moves("planned", e, change.approved)
      BY <2>2 DEF SwapEdit, TelecomType, Change
    <3> QED
      BY <2>2, <3>1 DEF SwapEdit, TelecomType, Change, Tracked, Checked, Sent, Doing, KeptIsVerified
  <2>3. CASE Begin_
    <3>1. ASSUME NEW approved \in BOOLEAN, Admits(change.plan, change.edit, approved),
                 change' = [change EXCEPT !.at = "edit", !.approved = approved],
                 device' = [device EXCEPT !.locked = TRUE]
          PROVE  TelecomInv'
      <4>1. Moves("edit", change.edit, approved) /\ Sets(d.running, d.saved, d.candidate, d.pending, TRUE)
        BY <3>1 DEF TelecomType, Change, Device
      <4>2. change.plan.desired # {} /\ (change.plan.class = "irreversible" => approved)
        BY <3>1 DEF Admits
      <4>3. TelecomType'
        BY <2>3, <3>1, <4>1 DEF Begin_, TelecomType, Change, Device
      <4> QED
        BY <2>3, <4>1, <4>2, <4>3 DEF Begin_, Tracked, Checked, Sent, Doing, KeptIsVerified
    <3>2. ASSUME NEW r \in {"refused", "no_lock"}, Over(r), UNCHANGED device PROVE TelecomInv'
      BY <2>3, <3>2, EndsChange DEF Begin_, TelecomType, Tracked
    <3> QED
      BY <2>3, <3>1, <3>2 DEF Begin_
  <2>4. CASE EditConfig
    <3> DEFINE after == [device EXCEPT !.candidate = change.edit.to]
    <3>1. after \in Device /\ after.running = d.running /\ after.saved = d.saved /\ after.pending = d.pending
      BY <2>4 DEF EditConfig, Call, TelecomType, Device
    <3>2. CASE Step("commit") /\ device' = after
      <4>1. Moves("commit", change.edit, change.approved)
        BY <3>2 DEF Step, TelecomType, Change
      <4> QED
        BY <2>4, <3>1, <3>2, <4>1 DEF EditConfig, Call, TelecomType, Change, Tracked, Checked, Sent, Doing, KeptIsVerified
    <3>3. CASE Over("rolled_back") /\ device' \in Cleanup(device) \cup Cleanup(after)
      <4>1. device' \in Device /\ device'.running = d.running /\ device'.saved = d.saved /\ device'.pending = d.pending
        BY <3>1, <3>3, CleanupKeeps DEF TelecomType
      <4> QED
        BY <2>4, <3>3, <4>1, EndsChange DEF EditConfig, Tracked
    <3> QED
      BY <2>4, <3>2, <3>3 DEF EditConfig, Call
  <2>5. CASE ConfirmedCommit
    <3> DEFINE after == [device EXCEPT !.running = device.candidate, !.pending = TRUE]
    <3>0. device \in Device
      BY DEF TelecomType
    <3>1. after = [running |-> d.candidate, saved |-> d.saved, candidate |-> d.candidate, pending |-> TRUE, locked |-> d.locked]
      BY <3>0, Updated DEF Device
    <3>2. after \in Device /\ after.pending
      BY <3>1 DEF TelecomType, Device
    <3>3. CASE Step("verify") /\ device' = after
      <4>1. Moves("verify", change.edit, change.approved)
        BY <3>3 DEF Step, TelecomType, Change
      <4> QED
        BY <2>5, <3>1, <3>2, <3>3, <4>1 DEF ConfirmedCommit, Call, TelecomType, Change, Tracked, Checked, Sent, Doing, KeptIsVerified
    <3>4. CASE Over("rolled_back") /\ device' \in Cleanup(device) \cup Cleanup(after)
      <4>1. device' \in Device /\ (~device'.pending => device'.running = device'.saved)
        BY <3>2, <3>4, CleanupKeeps DEF TelecomType, Tracked
      <4> QED
        BY <2>5, <3>4, <4>1, EndsChange DEF ConfirmedCommit
    <3> QED
      BY <2>5, <3>3, <3>4 DEF ConfirmedCommit, Call
  <2>6. CASE Verify
    <3> DEFINE desired == CHOOSE x \in change.plan.desired : TRUE
    <3>1. CASE _verify_running(device.running, desired) /\ Step("confirm") /\ UNCHANGED device
      <4>1. Moves("confirm", change.edit, change.approved)
        BY <3>1 DEF Step, TelecomType, Change
      <4>2. \A x \in change.plan.desired : x = desired
        BY <2>6 DEF Verify, TelecomType, PlanOf
      <4>3. \A x \in change.plan.desired :
              \/ device.candidate \notin Fails /\ _matches_desired(device.candidate, x)
              \/ _matches_desired(device.saved, x)
        BY <2>6, <3>1, <4>2 DEF Verify, _verify_running, Tracked, Sent, TelecomType, Device
      <4>4. TelecomType' /\ Tracked'
        BY <2>6, <3>1, <4>1 DEF Verify, TelecomType, Change, Tracked, Sent
      <4> QED
        BY <2>6, <3>1, <4>1, <4>3, <4>4 DEF Verify, Checked, Sent, Doing, KeptIsVerified
    <3>2. CASE Over("rolled_back") /\ device' \in Cleanup(device)
      BY <2>6, <3>2, CleanupKeeps, EndsChange DEF Verify, TelecomType, Tracked
    <3> QED
      BY <2>6, <3>1, <3>2 DEF Verify
  <2>7. CASE Confirm
    <3> DEFINE to == IF device.pending THEN device.running ELSE device.candidate
               after == [device EXCEPT !.running = to, !.saved = to, !.pending = FALSE]
    <3>1. to = d.candidate
      BY <2>7 DEF Confirm, Tracked, Sent
    <3> HIDE DEF to
    <3>0. device \in Device
      BY DEF TelecomType
    <3>2. after = [running |-> to, saved |-> to, candidate |-> d.candidate, pending |-> FALSE, locked |-> d.locked]
      BY <3>0, <3>1, Updated DEF Device
    <3>3. CASE /\ Over("ok") \/ Over("rolled_back")
               /\ device' \in {after, [after EXCEPT !.locked = FALSE]}
               /\ kept' = {[to |-> to, had |-> d.saved, plan |-> change.plan, approved |-> change.approved]}
      <4>1. PICK l \in BOOLEAN : device' = [running |-> to, saved |-> to, candidate |-> d.candidate, pending |-> FALSE, locked |-> l]
        BY <3>2, <3>3 DEF TelecomType, Device
      <4>2. device' \in Device /\ ~device'.pending /\ device'.running = device'.saved
        BY <3>1, <4>1 DEF TelecomType, Device
      <4>3. change' \in Change /\ change'.at = "over"
        <5>1. PICK r \in {"ok", "rolled_back"} :
                change' = [at |-> "over", plan |-> change.plan, edit |-> change.edit, approved |-> change.approved, result |-> r]
          BY <3>3 DEF Over, TelecomType, Change
        <5> QED
          BY <5>1 DEF TelecomType, Change
      <4>4. KeptIsVerified'
        BY <2>7, <3>1, <3>3 DEF Confirm, Checked, Doing, Sent, KeptIsVerified
      <4> QED
        BY <4>2, <4>3, <4>4 DEF TelecomType, Tracked, Checked, Sent, Doing
    <3>4. CASE Over("rolled_back") /\ UNCHANGED <<device, kept>>
      BY <3>4, EndsChange DEF TelecomType, Tracked
    <3> QED
      BY <2>7, <3>3, <3>4 DEF Confirm, to
  <2>8. CASE Revert_
    <3>1. Sets(d.saved, d.saved, d.candidate, FALSE, d.locked)
      BY <2>8 DEF Revert_, TelecomType, Device
    <3>2. TelecomType' /\ Tracked'
      BY <2>8, <3>1 DEF Revert_, TelecomType, Device, Tracked, Sent
    <3>3. Checked' /\ KeptIsVerified'
      BY <2>8, <3>1 DEF Revert_, Checked, Sent, Doing, KeptIsVerified
    <3> QED
      BY <3>2, <3>3
  <2>9. CASE Die
    <3>1. device' \in Device /\ (~device'.pending => device'.running = device'.saved)
      BY <2>9 DEF Die, TelecomType, Tracked
    <3> QED
      BY <2>9, <3>1, EndsChange DEF Die
  <2>10. CASE Again
    <3>1. Sets(d.running, d.saved, d.running, d.pending, FALSE) /\ ~d.pending
      BY <2>10 DEF Again, TelecomType, Device
    <3>2. change' = NoChange /\ kept' = {}
      BY <2>10 DEF Again
    <3> QED
      BY <3>1, <3>2 DEF NoChange, TelecomType, Device, Change, Tracked, Checked, Sent, Doing, KeptIsVerified
  <2>11. CASE UNCHANGED telecomVars
    BY <2>11 DEF telecomVars, TelecomType, Tracked, Checked, Sent, Doing, KeptIsVerified
  <2> QED
    BY <2>1, <2>2, <2>3, <2>4, <2>5, <2>6, <2>7, <2>8, <2>9, <2>10, <2>11 DEF TelecomNext
<1>3. TelecomInv => KeptIsVerified
  BY DEF TelecomInv
<1> QED
  BY <1>1, <1>2, <1>3, PTL

-----------------------------------------------------------------------------
(* Operator.  A Job whose uid some status carries, or is about to, is one   *)
(* the operator made; the uid of a Job of somebody else is never written.   *)

Finished == {"succeeded", "failed"}
GateRunType == [uid : Nat, phase : {"none", "Running", "Error", "Passed", "Failed"},
                verdict : {"none", "pass", "fail"}, jobUID : 0..MaxJobs]
JobType == [uid : 0..MaxJobs, owner : Nat, result : {"running"} \cup Finished]
CreateType == [at : {"none", "start", "job", "conflict", "running", "error", "done"}, prior : 0..MaxJobs, jobUID : 0..MaxJobs]
MirrorType == [at : {"idle", "read", "write"}, result : {"running"} \cup Finished]
OperatorType ==
  /\ run \in GateRunType /\ job \in JobType
  /\ create \in [1..MaxRuns -> CreateType] /\ mirror \in [1..MaxJobs -> MirrorType]
  /\ counts \in [runs : Nat, jobs : Nat, deaths : Nat]

Recorded(j) ==
  /\ j # 0
  /\ \/ run.jobUID = j
     \/ \E u \in 1..MaxRuns : create[u].jobUID = j \/ create[u].prior = j
EndedSo(result) == \E e \in ended : e.result = result

\* Names are given out in order.
InOrder ==
  /\ run.uid \in {0, counts.runs}
  /\ run.uid = 0 => run = NoRun
  /\ \A u \in 1..MaxRuns : create[u].at # "none" => u <= counts.runs
  /\ job.owner # 0 => job.owner <= counts.runs
  /\ \A e \in ended : e.run \in 1..counts.runs
  /\ job.uid <= counts.jobs
  /\ \A j \in 1..MaxJobs : mirror[j].at # "idle" => j <= counts.jobs
  /\ \A j \in 1..MaxJobs : Recorded(j) => j <= counts.jobs

OwnJobs ==
  /\ Recorded(job.uid) => job.owner # 0
  /\ job.owner # 0 /\ job.result # "running" => EndedSo(job.result)

Mirrored ==
  /\ \A j \in 1..MaxJobs :
       /\ mirror[j].at # "idle" => mirror[j].result \in Finished
       /\ mirror[j].at # "idle" /\ Recorded(j) => EndedSo(mirror[j].result)
       /\ mirror[j].at = "write" => EndedSo(mirror[j].result)
  /\ run.verdict # "none" => EndedSo(IF run.verdict = "pass" THEN "succeeded" ELSE "failed")

OperatorInv == OperatorType /\ InOrder /\ OwnJobs /\ Mirrored

\* Names are given out in order, so the first GateRun has no Jobs but its own.
LEMMA OperatorInvImplies == OperatorInv => VerdictWasRun
<1> SUFFICES ASSUME OperatorInv, run.verdict # "none" PROVE VerdictWasRun
  BY DEF VerdictWasRun
<1>1. PICK e \in ended : e.result = IF run.verdict = "pass" THEN "succeeded" ELSE "failed"
  BY DEF OperatorInv, Mirrored, EndedSo
<1>2. run # NoRun
  BY DEF NoRun
<1>3. run.uid # 0
  BY <1>2 DEF OperatorInv, InOrder
<1>4. e.run \in 1..counts.runs /\ run.uid = counts.runs
  BY <1>3 DEF OperatorInv, InOrder
<1>5. counts.runs \in Nat
  BY DEF OperatorInv, OperatorType
<1>6. e.run = run.uid \/ run.uid > 1
  BY <1>4, <1>5
<1> QED
  BY <1>1, <1>6 DEF VerdictWasRun

\* A handler of the create event takes a step.
LEMMA HandlerMoves ==
  ASSUME OperatorType, NEW u \in 1..MaxRuns, NEW h \in CreateType, create' = [create EXCEPT ![u] = h]
  PROVE  /\ create' \in [1..MaxRuns -> CreateType]
         /\ create'[u] = h
         /\ \A v \in 1..MaxRuns \ {u} : create'[v] = create[v]
  BY DEF OperatorType

\* A step that moves only GateRuns and create handlers, writes down no new uid and
\* no verdict, keeps the invariant.
LEMMA NothingNew ==
  ASSUME OperatorInv, OperatorType', UNCHANGED <<job, ended, mirror>>,
         counts'.jobs = counts.jobs, counts'.runs >= counts.runs,
         run'.uid \in {0, counts'.runs}, run'.uid = 0 => run' = NoRun,
         \A u \in 1..MaxRuns : create'[u].at # "none" => u <= counts'.runs,
         \A j \in 1..MaxJobs : Recorded(j)' => Recorded(j),
         run'.verdict \in {"none", run.verdict}
  PROVE  OperatorInv'
<1>1. counts.runs \in Nat /\ counts'.runs \in Nat /\ job.owner \in Nat /\ job.uid \in 0..MaxJobs
  BY DEF OperatorInv, OperatorType, JobType
<1>2. InOrder'
  BY <1>1, OperatorAssumption DEF OperatorInv, InOrder
<1>3. OwnJobs'
  BY <1>1 DEF OperatorInv, OwnJobs, Recorded, EndedSo
<1>4. Mirrored'
  BY DEF OperatorInv, Mirrored, EndedSo
<1> QED
  BY <1>2, <1>3, <1>4 DEF OperatorInv

\* A create handler that takes a step and keeps no uid but one that is written down.
LEMMA OldUids ==
  ASSUME OperatorInv, NEW u \in 1..MaxRuns, NEW h \in CreateType, create[u].at # "none",
         create' = [create EXCEPT ![u] = h], UNCHANGED <<run, job, mirror, ended, counts>>,
         h.jobUID \in {0, create[u].jobUID}, h.prior \in {0, run.jobUID, create[u].prior}
  PROVE  OperatorInv'
<1>1. OperatorType /\ InOrder
  BY DEF OperatorInv
<1>2. /\ create' \in [1..MaxRuns -> CreateType]
      /\ create'[u] = h
      /\ \A v \in 1..MaxRuns \ {u} : create'[v] = create[v]
  BY <1>1, HandlerMoves
<1>3. OperatorType'
  BY <1>1, <1>2 DEF OperatorType
<1>4. ASSUME NEW j \in 1..MaxJobs, Recorded(j)' PROVE Recorded(j)
  <2>1. CASE run'.jobUID = j
    BY <2>1 DEF Recorded
  <2>2. CASE \E v \in 1..MaxRuns : create'[v].jobUID = j \/ create'[v].prior = j
    <3>1. PICK v \in 1..MaxRuns : create'[v].jobUID = j \/ create'[v].prior = j
      BY <2>2
    <3>2. CASE v = u
      BY <1>2, <3>1, <3>2 DEF Recorded
    <3>3. CASE v # u
      BY <1>2, <3>1, <3>3 DEF Recorded
    <3> QED
      BY <3>2, <3>3
  <2> QED
    BY <1>4, <2>1, <2>2 DEF Recorded
<1>5. \A v \in 1..MaxRuns : create'[v].at # "none" => v <= counts'.runs
  BY <1>1, <1>2 DEF InOrder
<1> QED
  BY <1>1, <1>3, <1>4, <1>5, NothingNew DEF InOrder, OperatorType

\* Whoever takes the name of a Job or of a GateRun, wherever the operator dies,
\* for any number of GateRuns and Jobs.
THEOREM VerdictsWereRun == OperatorInit /\ [][OperatorNext]_operatorVars => []VerdictWasRun
<1> USE OperatorAssumption
<1>1. OperatorInit => OperatorInv
  <2> SUFFICES ASSUME OperatorInit PROVE OperatorInv
    OBVIOUS
  <2>1. OperatorType
    BY DEF OperatorInit, OperatorType, NoRun, NoneOf, NoHandler, Quiet,
           GateRunType, JobType, CreateType, MirrorType, Finished
  <2>2. \A j \in 1..MaxJobs : ~Recorded(j)
    BY DEF OperatorInit, Recorded, NoRun, NoHandler
  <2>3. InOrder
    BY <2>2 DEF OperatorInit, InOrder, NoRun, NoneOf, NoHandler, Quiet
  <2>4. OwnJobs /\ Mirrored
    BY <2>2 DEF OperatorInit, OwnJobs, Mirrored, Recorded, NoRun, NoneOf, Quiet
  <2> QED
    BY <2>1, <2>3, <2>4 DEF OperatorInv
<1>2. OperatorInv /\ [OperatorNext]_operatorVars => OperatorInv'
  <2> SUFFICES ASSUME OperatorInv, [OperatorNext]_operatorVars PROVE OperatorInv'
    OBVIOUS
  <2>a. OperatorType /\ InOrder /\ OwnJobs /\ Mirrored
    BY DEF OperatorInv
  <2>1. CASE CreateRun
    <3> DEFINE u == counts.runs + 1
               h == [create[u] EXCEPT !.at = "start"]
    <3>1. u \in 1..MaxRuns
      BY <2>1, <2>a DEF CreateRun, OperatorType
    <3>2. h \in CreateType /\ h.at = "start" /\ h.jobUID = create[u].jobUID /\ h.prior = create[u].prior
      BY <2>a, <3>1 DEF OperatorType, CreateType
    <3>3. create' = [create EXCEPT ![u] = h]
      BY <2>1, <2>a, <3>1 DEF CreateRun, OperatorType
    <3>4. run' = [uid |-> u, phase |-> "none", verdict |-> "none", jobUID |-> 0]
      BY <2>1 DEF CreateRun, NoRun
    <3>5. counts' = [runs |-> u, jobs |-> counts.jobs, deaths |-> counts.deaths]
      BY <2>1, <2>a DEF CreateRun, OperatorType
    <3> HIDE DEF h
    <3>6. OperatorType'
      <4>1. run' \in GateRunType
        BY <3>1, <3>4 DEF GateRunType
      <4>2. counts' \in [runs : Nat, jobs : Nat, deaths : Nat]
        BY <2>a, <3>1, <3>5 DEF OperatorType
      <4> QED
        BY <2>1, <2>a, <3>1, <3>2, <3>3, <4>1, <4>2, HandlerMoves DEF CreateRun, OperatorType
    <3>7. \A j \in 1..MaxJobs : Recorded(j)' => Recorded(j)
      BY <2>a, <3>1, <3>2, <3>3, <3>4, HandlerMoves DEF Recorded
    <3>8. \A v \in 1..MaxRuns : create'[v].at # "none" => v <= counts'.runs
      BY <2>a, <3>1, <3>2, <3>3, <3>5, HandlerMoves DEF InOrder, OperatorType
    <3> QED
      BY <2>1, <2>a, <3>1, <3>4, <3>5, <3>6, <3>7, <3>8, NothingNew DEF CreateRun, OperatorType
  <2>2. CASE DeleteRun
    <3>1. run' = NoRun /\ OperatorType'
      BY <2>2, <2>a DEF DeleteRun, OperatorType, NoRun, GateRunType
    <3>2. \A j \in 1..MaxJobs : Recorded(j)' => Recorded(j)
      BY <2>2 DEF DeleteRun, Recorded, NoRun
    <3>3. run'.uid = 0 /\ run'.verdict = "none"
      BY <3>1 DEF NoRun
    <3> QED
      BY <2>2, <2>a, <3>1, <3>2, <3>3, NothingNew DEF DeleteRun, InOrder, OperatorType
  <2>3. CASE Collect
    <3>1. /\ job' \in {job, NoneOf}
          /\ UNCHANGED <<run, create, mirror, ended, counts>>
      BY <2>3 DEF Collect
    <3>2. OperatorType'
      BY <2>a, <3>1 DEF OperatorType, NoneOf, JobType
    <3>3. InOrder'
      BY <2>a, <3>1 DEF InOrder, Recorded, NoneOf, OperatorType
    <3>4. OwnJobs'
      BY <2>a, <3>1 DEF OwnJobs, Recorded, EndedSo, NoneOf
    <3>5. Mirrored'
      BY <2>a, <3>1 DEF Mirrored, Recorded, EndedSo
    <3> QED
      BY <3>2, <3>3, <3>4, <3>5 DEF OperatorInv
  <2>4. CASE OthersJob
    <3> DEFINE n == counts.jobs + 1
    <3>1. /\ job' = [uid |-> n, owner |-> 0, result |-> "running"]
          /\ counts' = [runs |-> counts.runs, jobs |-> n, deaths |-> counts.deaths]
          /\ n \in 1..MaxJobs
          /\ UNCHANGED <<run, create, mirror, ended>>
      BY <2>4, <2>a DEF OthersJob, NewJob, OperatorType
    <3>2. OperatorType'
      <4>1. job' \in JobType
        BY <3>1 DEF JobType
      <4>2. counts' \in [runs : Nat, jobs : Nat, deaths : Nat]
        BY <2>a, <3>1 DEF OperatorType
      <4> QED
        BY <2>a, <3>1, <4>1, <4>2 DEF OperatorType
    <3>3. \A j \in 1..MaxJobs : Recorded(j)' <=> Recorded(j)
      BY <3>1 DEF Recorded
    <3>4. InOrder'
      BY <2>a, <3>1, <3>3 DEF InOrder, OperatorType
    <3>5. OwnJobs'
      BY <2>a, <3>1 DEF InOrder, OwnJobs, Recorded, OperatorType
    <3>6. Mirrored'
      BY <2>a, <3>1 DEF Mirrored, Recorded, EndedSo
    <3> QED
      BY <3>2, <3>4, <3>5, <3>6 DEF OperatorInv
  <2>5. CASE JobEnds
    <3>1. PICK r \in Finished :
            /\ job' = [job EXCEPT !.result = r]
            /\ ended' = IF job.owner = 0 THEN ended ELSE ended \cup {[run |-> job.owner, result |-> r]}
            /\ UNCHANGED <<run, create, mirror, counts>>
      BY <2>5 DEF JobEnds, Finished
    <3>2. job' \in JobType /\ job'.uid = job.uid /\ job'.owner = job.owner /\ job'.result = r
      BY <2>a, <3>1 DEF OperatorType, JobType
    <3>3. OperatorType'
      BY <2>a, <3>1, <3>2 DEF OperatorType
    <3>4. ended \subseteq ended' /\ (job.owner # 0 => EndedSo(r)')
      <4> DEFINE e == [run |-> job.owner, result |-> r]
      <4>1. e.result = r
        OBVIOUS
      <4>2. ended \subseteq ended' /\ (job.owner # 0 => e \in ended')
        BY <3>1
      <4> HIDE DEF e
      <4> QED
        BY <4>1, <4>2 DEF EndedSo
    <3>5. \A e \in ended' : e.run \in 1..counts.runs
      <4>1. job.owner \in Nat
        BY <2>a DEF OperatorType, JobType
      <4> QED
        BY <2>a, <3>1, <4>1 DEF InOrder, OperatorType
    <3>6. InOrder'
      BY <2>a, <3>1, <3>2, <3>5 DEF InOrder, Recorded
    <3>7. OwnJobs'
      BY <2>a, <3>1, <3>2, <3>4 DEF OwnJobs, Recorded, EndedSo
    <3>8. Mirrored'
      BY <2>a, <3>1, <3>4 DEF Mirrored, Recorded, EndedSo
    <3> QED
      BY <3>3, <3>6, <3>7, <3>8 DEF OperatorInv
  <2>6. CASE OperatorDies
    <3>1. /\ create' = [v \in 1..MaxRuns |->
                          IF create[v].at \in {"none", "done"} THEN create[v]
                          ELSE [NoHandler EXCEPT !.at = IF v = run.uid THEN "start" ELSE "done"]]
          /\ mirror' = [j \in 1..MaxJobs |-> Quiet]
          /\ UNCHANGED <<run, job, ended>>
      BY <2>6 DEF OperatorDies
    <3>2. counts' \in [runs : Nat, jobs : Nat, deaths : Nat] /\ counts'.runs = counts.runs /\ counts'.jobs = counts.jobs
      BY <2>6, <2>a DEF OperatorDies, OperatorType
    <3>3. ASSUME NEW v \in 1..MaxRuns
          PROVE  /\ create'[v] \in CreateType
                 /\ create'[v].at # "none" => create[v].at # "none"
                 /\ \/ create'[v] = create[v]
                    \/ create'[v].jobUID = 0 /\ create'[v].prior = 0
      BY <2>a, <3>1, SMTT(60) DEF OperatorType, CreateType, NoHandler
    <3>4. OperatorType'
      BY <2>a, <3>1, <3>2, <3>3 DEF OperatorType, MirrorType, Quiet
    <3>5. \A j \in 1..MaxJobs : Recorded(j)' => Recorded(j)
      <4> SUFFICES ASSUME NEW j \in 1..MaxJobs, Recorded(j)' PROVE Recorded(j)
        OBVIOUS
      <4>1. CASE run'.jobUID = j
        BY <3>1, <4>1 DEF Recorded
      <4>2. CASE \E v \in 1..MaxRuns : create'[v].jobUID = j \/ create'[v].prior = j
        <5>1. PICK v \in 1..MaxRuns : create'[v].jobUID = j \/ create'[v].prior = j
          BY <4>2
        <5>2. create'[v] = create[v]
          BY <3>3, <5>1
        <5> QED
          BY <5>1, <5>2 DEF Recorded
      <4> QED
        BY <4>1, <4>2 DEF Recorded
    <3>6. InOrder'
      BY <2>a, <3>1, <3>2, <3>3, <3>5 DEF InOrder, Quiet
    <3>7. OwnJobs'
      BY <2>a, <3>1, <3>3, ZenonT(60) DEF OwnJobs, Recorded, EndedSo
    <3>8. Mirrored'
      BY <2>a, <3>1 DEF Mirrored, EndedSo, Quiet
    <3> QED
      BY <3>4, <3>6, <3>7, <3>8 DEF OperatorInv
  <2>7. ASSUME NEW u \in 1..MaxRuns, create_policy(u) PROVE OperatorInv'
    <3> DEFINE prior == IF run.uid = u THEN run.jobUID ELSE 0
               h == [at |-> "job", jobUID |-> 0, prior |-> prior]
    <3>1. create[u].at = "start" /\ create' = [create EXCEPT ![u] = h] /\ UNCHANGED <<run, job, mirror, ended, counts>>
      BY <2>7 DEF create_policy, To
    <3>2. prior \in 0..MaxJobs /\ prior \in {0, run.jobUID}
      BY <2>a DEF OperatorType, GateRunType
    <3> HIDE DEF prior
    <3>3. h \in CreateType
      BY <3>2 DEF CreateType
    <3>4. h.jobUID = 0 /\ h.prior \in {0, run.jobUID}
      BY <3>2
    <3> HIDE DEF h
    <3> QED
      BY <2>a, <3>1, <3>3, <3>4, OldUids
  <2>8. ASSUME NEW u \in 1..MaxRuns, create_job(u), job # NoneOf PROVE OperatorInv'
    <3> DEFINE h == [create[u] EXCEPT !.at = "conflict"]
    <3>1. create[u].at = "job" /\ create' = [create EXCEPT ![u] = h] /\ UNCHANGED <<run, job, mirror, ended, counts>>
      BY <2>8 DEF create_job, To
    <3>2. h \in CreateType /\ h.jobUID = create[u].jobUID /\ h.prior = create[u].prior
      BY <2>a DEF OperatorType, CreateType
    <3> HIDE DEF h
    <3> QED
      BY <2>a, <3>1, <3>2, OldUids
  <2>9. ASSUME NEW u \in 1..MaxRuns, Adopt_(u) PROVE OperatorInv'
    <3> DEFINE own == create[u].prior # 0 /\ job.uid = create[u].prior
               h == [create[u] EXCEPT !.at = IF job = NoneOf THEN "start" ELSE IF own THEN "running" ELSE "error"]
    <3>1. create[u].at = "conflict" /\ create' = [create EXCEPT ![u] = h] /\ UNCHANGED <<run, job, mirror, ended, counts>>
      BY <2>9 DEF Adopt_, To
    <3>2. h \in CreateType /\ h.jobUID = create[u].jobUID /\ h.prior = create[u].prior
      BY <2>a DEF OperatorType, CreateType
    <3> HIDE DEF h
    <3> QED
      BY <2>a, <3>1, <3>2, OldUids
  <2>10. ASSUME NEW u \in 1..MaxRuns, create_job(u), job = NoneOf PROVE OperatorInv'
    <3> DEFINE n == counts.jobs + 1
               h == [create[u] EXCEPT !.at = "running", !.jobUID = n]
    <3>1. /\ job' = [uid |-> n, owner |-> u, result |-> "running"]
          /\ counts' = [runs |-> counts.runs, jobs |-> n, deaths |-> counts.deaths]
          /\ n \in 1..MaxJobs
          /\ create[u].at = "job"
          /\ create' = [create EXCEPT ![u] = h]
          /\ UNCHANGED <<run, mirror, ended>>
      BY <2>10, <2>a DEF create_job, NewJob, To, OperatorType
    <3>2. h = [at |-> "running", prior |-> create[u].prior, jobUID |-> n]
      <4>1. create[u] \in CreateType
        BY <2>a DEF OperatorType
      <4>2. PICK x \in CreateType : x = [create[u] EXCEPT !.at = "running"]
        BY <4>1 DEF CreateType
      <4>3. x = [at |-> "running", prior |-> create[u].prior, jobUID |-> create[u].jobUID]
        BY <4>1, <4>2 DEF CreateType
      <4>4. [x EXCEPT !.jobUID = n] = [at |-> "running", prior |-> create[u].prior, jobUID |-> n]
        BY <4>3 DEF CreateType
      <4> QED
        BY <4>2, <4>4, Zenon
    <3>3. h \in CreateType /\ h.jobUID = n /\ h.prior = create[u].prior
      BY <2>a, <3>1, <3>2 DEF OperatorType, CreateType
    <3> HIDE DEF h
    <3>4. /\ create' \in [1..MaxRuns -> CreateType]
          /\ create'[u] = h
          /\ \A v \in 1..MaxRuns \ {u} : create'[v] = create[v]
      BY <2>a, <3>1, <3>3, HandlerMoves
    <3>5. OperatorType'
      <4>1. job' \in JobType
        BY <3>1 DEF JobType
      <4>2. counts' \in [runs : Nat, jobs : Nat, deaths : Nat]
        BY <2>a, <3>1 DEF OperatorType
      <4> QED
        BY <2>a, <3>1, <3>4, <4>1, <4>2 DEF OperatorType
    <3>6. ASSUME NEW j \in 1..MaxJobs, Recorded(j)' PROVE Recorded(j) \/ j = n
      <4>1. CASE run'.jobUID = j
        BY <3>1, <4>1 DEF Recorded
      <4>2. CASE \E v \in 1..MaxRuns : create'[v].jobUID = j \/ create'[v].prior = j
        <5>1. PICK v \in 1..MaxRuns : create'[v].jobUID = j \/ create'[v].prior = j
          BY <4>2
        <5> QED
          BY <3>3, <3>4, <5>1 DEF Recorded
      <4> QED
        BY <3>6, <4>1, <4>2 DEF Recorded
    <3>7. u <= counts.runs
      BY <2>a, <3>1 DEF InOrder
    <3>8. InOrder'
      BY <2>a, <3>1, <3>4, <3>6, <3>7, SMTT(60) DEF InOrder, OperatorType
    <3>9. OwnJobs'
      BY <3>1 DEF OwnJobs
    <3>10. Mirrored'
      BY <2>a, <3>1, <3>6 DEF Mirrored, InOrder, EndedSo, OperatorType
    <3> QED
      BY <3>5, <3>8, <3>9, <3>10 DEF OperatorInv
  <2>11. ASSUME NEW u \in 1..MaxRuns, WriteStatus(u) PROVE OperatorInv'
    <3> DEFINE h == [create[u] EXCEPT !.at = "done"]
               phase == IF create[u].at = "running" THEN "Running" ELSE "Error"
               jobUID == IF create[u].jobUID # 0 THEN create[u].jobUID ELSE run.jobUID
    <3>1. /\ create[u].at \in {"running", "error"} /\ create' = [create EXCEPT ![u] = h]
          /\ UNCHANGED <<job, mirror, ended, counts>>
      BY <2>11 DEF WriteStatus
    <3>2. h \in CreateType /\ h.jobUID = create[u].jobUID /\ h.prior = create[u].prior /\ h.at # "none"
      BY <2>a DEF OperatorType, CreateType
    <3> HIDE DEF h
    <3>3. /\ create' \in [1..MaxRuns -> CreateType]
          /\ create'[u] = h
          /\ \A v \in 1..MaxRuns \ {u} : create'[v] = create[v]
      BY <2>a, <3>1, <3>2, HandlerMoves
    <3>4. \/ run' = run
          \/ run' = [uid |-> run.uid, phase |-> phase, verdict |-> run.verdict, jobUID |-> jobUID]
             /\ run # NoRun
      BY <2>11, <2>a DEF WriteStatus, OperatorType, GateRunType
    <3>5. /\ phase \in {"Running", "Error"} /\ jobUID \in 0..MaxJobs
          /\ jobUID \in {run.jobUID, create[u].jobUID}
      BY <2>a DEF OperatorType, GateRunType, CreateType
    <3> HIDE DEF phase, jobUID
    <3>6. run' \in GateRunType /\ run'.uid = run.uid /\ run'.verdict = run.verdict
          /\ run'.jobUID \in {run.jobUID, create[u].jobUID} /\ (run.uid = 0 => run' = NoRun)
      BY <2>a, <3>4, <3>5 DEF OperatorType, GateRunType, InOrder
    <3>7. OperatorType'
      BY <2>a, <3>1, <3>3, <3>6 DEF OperatorType
    <3>8. ASSUME NEW j \in 1..MaxJobs, Recorded(j)' PROVE Recorded(j)
      <4>1. CASE run'.jobUID = j
        BY <3>6, <4>1 DEF Recorded
      <4>2. CASE \E v \in 1..MaxRuns : create'[v].jobUID = j \/ create'[v].prior = j
        <5>1. PICK v \in 1..MaxRuns : create'[v].jobUID = j \/ create'[v].prior = j
          BY <4>2
        <5> QED
          BY <3>2, <3>3, <5>1 DEF Recorded
      <4> QED
        BY <3>8, <4>1, <4>2 DEF Recorded
    <3>9. \A v \in 1..MaxRuns : create'[v].at # "none" => v <= counts'.runs
      BY <2>a, <3>1, <3>3 DEF InOrder
    <3> QED
      BY <2>a, <3>1, <3>6, <3>7, <3>8, <3>9, NothingNew DEF InOrder, OperatorType
  <2>12. ASSUME NEW j \in 1..MaxJobs, JobEvent(j) PROVE OperatorInv'
    <3> DEFINE m == [at |-> "read", result |-> job.result]
    <3>1. /\ job.uid = j /\ job.result # "running" /\ mirror' = [mirror EXCEPT ![j] = m]
          /\ UNCHANGED <<run, job, create, ended, counts>>
      BY <2>12 DEF JobEvent
    <3>2. m \in MirrorType /\ m.at = "read" /\ m.result \in Finished /\ m.result = job.result
      BY <2>a, <3>1 DEF OperatorType, JobType, MirrorType
    <3> HIDE DEF m
    <3>3. mirror' \in [1..MaxJobs -> MirrorType] /\ mirror'[j] = m /\ \A i \in 1..MaxJobs \ {j} : mirror'[i] = mirror[i]
      BY <2>a, <3>1, <3>2 DEF OperatorType
    <3>4. OperatorType'
      BY <2>a, <3>1, <3>3 DEF OperatorType
    <3>5. InOrder'
      BY <2>a, <3>1, <3>3 DEF InOrder, Recorded
    <3>6. OwnJobs'
      BY <2>a, <3>1 DEF OwnJobs, Recorded, EndedSo
    <3>7. Recorded(j) => EndedSo(m.result)
      BY <2>a, <3>1, <3>2 DEF OwnJobs
    <3>8. Mirrored'
      BY <2>a, <3>1, <3>2, <3>3, <3>7 DEF Mirrored, Recorded, EndedSo
    <3> QED
      BY <3>4, <3>5, <3>6, <3>8 DEF OperatorInv
  <2>13. ASSUME NEW j \in 1..MaxJobs, ReadRun(j) PROVE OperatorInv'
    <3> DEFINE at == IF run # NoRun /\ _job_authenticated(j, run.jobUID) THEN "write" ELSE "idle"
               m == [mirror[j] EXCEPT !.at = at]
    <3>1. /\ mirror[j].at = "read" /\ mirror' = [mirror EXCEPT ![j] = m]
          /\ UNCHANGED <<run, job, create, ended, counts>>
      BY <2>13 DEF ReadRun
    <3>2. at \in {"idle", "write"} /\ (at = "write" => run.jobUID = j)
      BY DEF _job_authenticated
    <3> HIDE DEF at
    <3>3. m \in MirrorType /\ m.at = at /\ m.result = mirror[j].result
      BY <2>a, <3>2 DEF OperatorType, MirrorType
    <3> HIDE DEF m
    <3>4. mirror' \in [1..MaxJobs -> MirrorType] /\ mirror'[j] = m /\ \A i \in 1..MaxJobs \ {j} : mirror'[i] = mirror[i]
      BY <2>a, <3>1, <3>3 DEF OperatorType
    <3>5. OperatorType'
      BY <2>a, <3>1, <3>4 DEF OperatorType
    <3>6. InOrder'
      BY <2>a, <3>1, <3>4 DEF InOrder, Recorded
    <3>7. OwnJobs'
      BY <2>a, <3>1 DEF OwnJobs, Recorded, EndedSo
    <3>8. at = "write" => Recorded(j)
      BY <3>2 DEF Recorded
    <3>9. Mirrored'
      BY <2>a, <3>1, <3>3, <3>4, <3>8 DEF Mirrored, Recorded, EndedSo
    <3> QED
      BY <3>5, <3>6, <3>7, <3>9 DEF OperatorInv
  <2>14. ASSUME NEW j \in 1..MaxJobs, MirrorVerdict(j) PROVE OperatorInv'
    <3> DEFINE passed == mirror[j].result = "succeeded"
               phase == IF passed THEN "Passed" ELSE "Failed"
               verdict == IF passed THEN "pass" ELSE "fail"
    <3>1. /\ mirror[j].at = "write" /\ mirror' = [mirror EXCEPT ![j] = Quiet]
          /\ UNCHANGED <<job, create, ended, counts>>
      BY <2>14 DEF MirrorVerdict
    <3>2. mirror' \in [1..MaxJobs -> MirrorType] /\ \A i \in 1..MaxJobs : mirror'[i] \in {Quiet, mirror[i]}
      BY <2>a, <3>1 DEF OperatorType, MirrorType, Quiet
    <3>3. \/ run' = run
          \/ run' = [uid |-> run.uid, phase |-> phase, verdict |-> verdict, jobUID |-> run.jobUID]
             /\ run # NoRun
      BY <2>14, <2>a DEF MirrorVerdict, OperatorType, GateRunType
    <3>4. /\ phase \in {"Passed", "Failed"} /\ verdict \in {"pass", "fail"}
          /\ EndedSo(IF verdict = "pass" THEN "succeeded" ELSE "failed")
      BY <2>a, <3>1 DEF Mirrored, Finished
    <3> HIDE DEF phase, verdict
    <3>5. run' \in GateRunType /\ run'.uid = run.uid /\ run'.jobUID = run.jobUID /\ run'.verdict \in {run.verdict, verdict}
          /\ (run.uid = 0 => run' = NoRun)
      BY <2>a, <3>3, <3>4 DEF OperatorType, GateRunType, InOrder
    <3>6. OperatorType'
      BY <2>a, <3>1, <3>2, <3>5 DEF OperatorType
    <3>7. InOrder'
      BY <2>a, <3>1, <3>2, <3>5 DEF InOrder, Recorded, Quiet
    <3>8. OwnJobs'
      BY <2>a, <3>1, <3>5 DEF OwnJobs, Recorded, EndedSo
    <3>9. Mirrored'
      BY <2>a, <3>1, <3>2, <3>4, <3>5 DEF Mirrored, Recorded, EndedSo, Quiet
    <3> QED
      BY <3>6, <3>7, <3>8, <3>9 DEF OperatorInv
  <2>15. CASE UNCHANGED operatorVars
    BY <2>a, <2>15 DEF operatorVars, OperatorInv, OperatorType, InOrder, OwnJobs, Mirrored, Recorded, EndedSo
  <2> QED
    BY <2>1, <2>2, <2>3, <2>4, <2>5, <2>6, <2>7, <2>8, <2>9, <2>10, <2>11, <2>12, <2>13, <2>14, <2>15 DEF OperatorNext
<1>3. OperatorInv => VerdictWasRun
  BY OperatorInvImplies
<1> QED
  BY <1>1, <1>2, <1>3, PTL


-----------------------------------------------------------------------------
(* Both RBAC sensors.  A sensed object was read, and both sensors are pure  *)
(* functions of it; the rest is that the two say the same of each rule and  *)
(* each end of a binding.                                                   *)

RbacInv ==
  /\ DOMAIN rbac = {"at", "o", "depth", "tf", "native"}
  /\ rbac.at \in {"read", "sensed"} => rbac.o \in Roles \cup Bindings /\ rbac.depth \in ListDepths
  /\ rbac.at = "sensed" =>
       /\ rbac.tf = _k8s_rbac(rbac.o)
       /\ rbac.native = extract_rbac_risks({[obj |-> rbac.o, depth |-> rbac.depth]})

LEMMA RbacStep == RbacInv /\ [RbacNext]_rbacVars => RbacInv'
<1> SUFFICES ASSUME RbacInv, [RbacNext]_rbacVars PROVE RbacInv'
  OBVIOUS
<1>1. CASE ReadObject
  <2>1. PICK o \in Roles \cup Bindings, d \in ListDepths :
          rbac' = [rbac EXCEPT !.at = "read", !.o = o, !.depth = d]
    BY <1>1 DEF ReadObject
  <2> HIDE DEF ListDepth
  <2>2. DOMAIN rbac' = DOMAIN rbac /\ rbac'.at = "read" /\ rbac'.o = o /\ rbac'.depth = d
    BY <2>1 DEF RbacInv
  <2> QED
    BY <2>2 DEF RbacInv
<1>2. CASE Sense
  <2> DEFINE tf == _k8s_rbac(rbac.o)
             native == extract_rbac_risks({[obj |-> rbac.o, depth |-> rbac.depth]})
  <2>1. rbac.at = "read" /\ rbac' = [rbac EXCEPT !.at = "sensed", !.tf = tf, !.native = native]
    BY <1>2 DEF Sense
  <2> HIDE DEF tf, native
  <2>2. /\ DOMAIN rbac' = DOMAIN rbac /\ rbac'.at = "sensed" /\ rbac'.o = rbac.o /\ rbac'.depth = rbac.depth
        /\ rbac'.tf = tf /\ rbac'.native = native
    BY <2>1 DEF RbacInv
  <2>3. tf = _k8s_rbac(rbac'.o) /\ native = extract_rbac_risks({[obj |-> rbac'.o, depth |-> rbac'.depth]})
    BY <2>2 DEF tf, native
  <2> QED
    BY <2>1, <2>2, <2>3 DEF RbacInv
<1>3. CASE UNCHANGED rbacVars
  BY <1>3 DEF RbacInv, rbacVars
<1> QED
  BY <1>1, <1>2, <1>3 DEF RbacNext

LEMMA SameRule == ASSUME NEW rule, NEW elevated PROVE TfRule(rule, elevated) = NativeRule(rule, elevated)
<1> DEFINE V == rule.verbs
           R == rule.res
           A == V \cap {"create", "*"} # {} /\ R \cap _RBAC_DANGEROUS_RESOURCES # {}
           B == V \cap _RBAC_PRIVESC_VERBS # {}
           C == _rbac_resource_privesc(V, R) # {}
           reads == (IF "secrets" \in R THEN _RBAC_SECRET_VERBS ELSE {})
                    \cup (IF "*" \in R THEN {"get", "list", "watch"} ELSE {})
<1>1. SecretReach(rule) <=> V \cap reads # {}
  BY DEF SecretReach, _RBAC_SECRET_VERBS
<1>2. \A sev : Hit(A \/ B \/ C, "PRIVILEGE_ESCALATION", sev)
        = Hit(A, "PRIVILEGE_ESCALATION", sev) \cup Hit(B, "PRIVILEGE_ESCALATION", sev) \cup Hit(C, "PRIVILEGE_ESCALATION", sev)
  BY DEF Hit
<1> DEFINE W == "*" \in V /\ ("*" \in R \/ "*" \in rule.nonres)
           D == "*" \in R /\ V \cap _RBAC_WRITE_VERBS # {}
<1>3. NativeRule(rule, elevated)
      = Hit(W, "WILDCARD_RBAC", "error") \cup Hit(A \/ B \/ C, "PRIVILEGE_ESCALATION", "critical")
        \cup Hit(D, "PRIVILEGE_ESCALATION", IF elevated THEN "critical" ELSE "error")
        \cup Hit(V \cap reads # {}, "SECRETS_ACCESS", IF elevated THEN "error" ELSE "warning")
  BY DEF NativeRule
<1>4. TfRule(rule, elevated)
      = Hit(W, "WILDCARD_RBAC", "error") \cup Hit(A, "PRIVILEGE_ESCALATION", "critical")
        \cup Hit(B, "PRIVILEGE_ESCALATION", "critical") \cup Hit(C, "PRIVILEGE_ESCALATION", "critical")
        \cup Hit(D, "PRIVILEGE_ESCALATION", IF elevated THEN "critical" ELSE "error")
        \cup Hit(SecretReach(rule), "SECRETS_ACCESS", IF elevated THEN "error" ELSE "warning")
  BY DEF TfRule
<1>5. Hit(SecretReach(rule), "SECRETS_ACCESS", IF elevated THEN "error" ELSE "warning")
      = Hit(V \cap reads # {}, "SECRETS_ACCESS", IF elevated THEN "error" ELSE "warning")
  BY <1>1 DEF Hit
<1> HIDE DEF A, B, C, D, W, reads
<1> QED
  BY <1>2, <1>3, <1>4, <1>5

LEMMA Unwrapped ==
  ASSUME NEW o, NEW d, d <= ListDepth
  PROVE  extract_rbac_risks({[obj |-> o, depth |-> d]}) =
           IF o.kind \in {"Role", "ClusterRole"} THEN _role_risks(o)
           ELSE IF o.kind \in {"RoleBinding", "ClusterRoleBinding"} THEN _binding_risks(o) ELSE {}
<1>2. _unwrap_lists({[obj |-> o, depth |-> d]}) = {o}
  <2> DEFINE m == [obj |-> o, depth |-> d]
  <2>1. m.obj = o /\ m.depth = d
    OBVIOUS
  <2> HIDE DEF m
  <2>2. {x \in {m} : x.depth <= ListDepth} = {m}
    BY <2>1
  <2>3. _unwrap_lists({m}) = {o}
    BY <2>1, <2>2 DEF _unwrap_lists
  <2> QED
    BY <2>3 DEF m
<1> QED
  BY <1>2 DEF extract_rbac_risks

LEMMA SameRole == ASSUME NEW o \in Roles PROVE _k8s_rbac(o) = _role_risks(o) /\ o.kind \in {"Role", "ClusterRole"}
<1>1. PICK c \in BOOLEAN, n \in {"default", "kube-system"}, a \in BOOLEAN, r \in RbacRules : o = RoleOf(c, n, a, r)
  BY DEF Roles
<1>2. o.rules = {r} /\ o.refs = {} /\ o.subjects = {} /\ o.kind \in {"Role", "ClusterRole"}
  BY <1>1 DEF RoleOf, NoObject
<1>3. UNION {TfRef(x) : x \in o.refs} = {} /\ UNION {TfSubject(x) : x \in o.subjects} = {}
  BY <1>2
<1>4. UNION {TfRule(x, Elevated(o)) : x \in o.rules} = UNION {NativeRule(x, Elevated(o)) : x \in o.rules}
  BY <1>2, SameRule
<1> QED
  BY <1>2, <1>3, <1>4 DEF _k8s_rbac, _role_risks

LEMMA SameBinding ==
  ASSUME NEW o \in Bindings, \A s \in o.subjects : s.name \notin ForeignNames
  PROVE  _k8s_rbac(o) = _binding_risks(o) /\ o.kind \in {"RoleBinding", "ClusterRoleBinding"}
<1>1. PICK k \in {"RoleBinding", "ClusterRoleBinding"}, ref \in [kind : {"role", "clusterrole"}, name : {"admin", "viewer"}],
           s \in RbacSubjects : o = BindingOf(k, ref, s)
  BY DEF Bindings
<1>2. o.rules = {} /\ o.refs = {ref} /\ o.subjects = {s} /\ o.aggregates = FALSE /\ o.kind = k
  BY <1>1 DEF BindingOf, NoObject
<1>3. TfSubject(s) = NativeSubject(s)
  BY <1>2 DEF TfSubject, NativeSubject, Hit, ForeignNames
<1>4. TfRef(ref) = NativeRef(ref)
  BY DEF TfRef, NativeRef, Hit
<1>5. Hit(o.aggregates, "AGGREGATION_RULE", "warning") = {} /\ UNION {TfRule(r, Elevated(o)) : r \in o.rules} = {}
  BY <1>2 DEF Hit
<1>6. /\ UNION {TfRef(r) : r \in o.refs} = UNION {NativeRef(r) : r \in o.refs}
      /\ UNION {TfSubject(q) : q \in o.subjects} = UNION {NativeSubject(q) : q \in o.subjects}
  BY <1>2, <1>3, <1>4
<1> QED
  BY <1>2, <1>5, <1>6 DEF _k8s_rbac, _binding_risks

\* "kept at parity" (ci/k8s.py): for any rules and subjects, the names of other
\* clouds aside, the two sensors say the same of the same object, in as many Lists as
\* the native one looks through.
THEOREM SensorsAreAtParity == RbacInit /\ [][RbacNext]_rbacVars => []SensorsAgree
<1>1. RbacInit => RbacInv
  BY DEF RbacInit, RbacInv
<1>2. RbacInv => SensorsAgree
  <2> SUFFICES ASSUME RbacInv, rbac.at = "sensed", rbac.depth <= ListDepth,
                      \A s \in rbac.o.subjects : s.name \notin ForeignNames
               PROVE  rbac.tf = rbac.native
    BY DEF SensorsAgree
  <2>1. CASE rbac.o \in Roles
    BY <2>1, SameRole, Unwrapped DEF RbacInv
  <2>2. CASE rbac.o \in Bindings
    BY <2>2, SameBinding, Unwrapped DEF RbacInv
  <2> QED
    BY <2>1, <2>2 DEF RbacInv
<1> QED
  BY <1>1, <1>2, RbacStep, PTL

-----------------------------------------------------------------------------
(* The plan grader and the class of the apply.  Both are pure functions of  *)
(* the plan; an apply that nobody approved is consequential and passed the  *)
(* gate, so none of its rules said anything.                                *)

IacFields == {"at", "type", "planned", "drift", "config", "issues", "class"}
PlanRead(p) ==
  /\ \E t \in Types : p.type = t /\ p.planned \in Changes(t) /\ p.drift \in Drifts(t)
  /\ p.config \in {{}, {"exec_provisioner"}, {"external_data"}, {"http_data"}}
IacInv ==
  /\ DOMAIN iac = IacFields
  /\ iac.at \in {"read", "graded"} => PlanRead(iac)
  /\ iac.at = "graded" => iac.issues = parse_terraform_plan(iac) /\ iac.class = escalate_plan(iac)

\* Neither reads what it writes.
LEMMA ReadsThePlan ==
  ASSUME NEW p, NEW q, p.type = q.type, p.planned = q.planned, p.drift = q.drift, p.config = q.config
  PROVE  /\ parse_terraform_plan(p) = parse_terraform_plan(q) /\ escalate_plan(p) = escalate_plan(q)
         /\ PlanRead(p) <=> PlanRead(q)
<1>1. destructive_changes(p) = destructive_changes(q) /\ provisioner_resources(p) = provisioner_resources(q)
      /\ http_data_sources(p) = http_data_sources(q) /\ persists(p) = persists(q)
  BY DEF destructive_changes, provisioner_resources, http_data_sources, persists
<1>2. DriftIssues(p) = DriftIssues(q)
  BY <1>1 DEF DriftIssues
<1> QED
  BY <1>1, <1>2 DEF parse_terraform_plan, escalate_plan, PlanRead

LEMMA IacStep == IacInv /\ [IacNext]_iacVars => IacInv'
<1> SUFFICES ASSUME IacInv, [IacNext]_iacVars PROVE IacInv'
  OBVIOUS
<1>1. CASE ReadPlan
  <2>0. PICK t \in Types :
          \E c \in Changes(t), d \in Drifts(t) : \E cfg \in {{}, {"exec_provisioner"}, {"external_data"}, {"http_data"}} :
            iac' = [NoIac EXCEPT !.at = "read", !.type = t, !.planned = c, !.drift = d, !.config = cfg]
    BY <1>1 DEF ReadPlan
  <2>1. PICK c \in Changes(t), d \in Drifts(t), cfg \in {{}, {"exec_provisioner"}, {"external_data"}, {"http_data"}} :
            iac' = [NoIac EXCEPT !.at = "read", !.type = t, !.planned = c, !.drift = d, !.config = cfg]
    BY <2>0
  <2>2. DOMAIN NoIac = IacFields
    BY DEF NoIac, IacFields
  <2> HIDE DEF Types
  <2>3. DOMAIN iac' = IacFields /\ iac'.at = "read" /\ iac'.type = t /\ iac'.planned = c /\ iac'.drift = d /\ iac'.config = cfg
    BY <2>1, <2>2 DEF IacFields
  <2> QED
    BY <2>3 DEF IacInv, PlanRead
<1>2. CASE GradePlan
  <2> DEFINE issues == parse_terraform_plan(iac)
             class == escalate_plan(iac)
  <2>1. iac.at = "read" /\ iac' = [iac EXCEPT !.at = "graded", !.issues = issues, !.class = class]
    BY <1>2 DEF GradePlan
  <2> HIDE DEF issues, class
  <2>2. /\ DOMAIN iac' = IacFields /\ iac'.at = "graded" /\ iac'.type = iac.type /\ iac'.planned = iac.planned
        /\ iac'.drift = iac.drift /\ iac'.config = iac.config /\ iac'.issues = issues /\ iac'.class = class
    BY <2>1 DEF IacInv, IacFields
  <2>3. issues = parse_terraform_plan(iac') /\ class = escalate_plan(iac') /\ PlanRead(iac')
    BY <2>1, <2>2, ReadsThePlan DEF issues, class, IacInv
  <2> QED
    BY <2>2, <2>3 DEF IacInv
<1>3. CASE UNCHANGED iacVars
  BY <1>3 DEF IacInv, iacVars, PlanRead
<1> QED
  BY <1>1, <1>2, <1>3 DEF IacNext

\* Every finding of a rule is a risk: none is for information.
Risks == {"warning", "error", "critical"}
AllRisks(hits) == \A h \in hits : h.sev \in Risks

LEMMA HitIsRisk == ASSUME NEW cond, NEW rule, NEW sev \in Risks PROVE AllRisks(Hit(cond, rule, sev))
  BY DEF AllRisks, Hit

LEMMA RisksJoin == ASSUME NEW a, NEW b PROVE AllRisks(a \cup b) <=> AllRisks(a) /\ AllRisks(b)
  BY DEF AllRisks

LEMMA RisksUnion == ASSUME NEW S, \A s \in S : AllRisks(s) PROVE AllRisks(UNION S)
  BY DEF AllRisks

LEMMA RuleIsRisk == ASSUME NEW rule, NEW elevated PROVE AllRisks(TfRule(rule, elevated))
<1>1. (IF elevated THEN "critical" ELSE "error") \in Risks /\ (IF elevated THEN "error" ELSE "warning") \in Risks
      /\ "error" \in Risks /\ "critical" \in Risks
  BY DEF Risks
<1> DEFINE a == Hit("*" \in rule.verbs /\ ("*" \in rule.res \/ "*" \in rule.nonres), "WILDCARD_RBAC", "error")
           b == Hit(rule.verbs \cap {"create", "*"} # {} /\ rule.res \cap _RBAC_DANGEROUS_RESOURCES # {},
                    "PRIVILEGE_ESCALATION", "critical")
           c == Hit(rule.verbs \cap _RBAC_PRIVESC_VERBS # {}, "PRIVILEGE_ESCALATION", "critical")
           d == Hit(_rbac_resource_privesc(rule.verbs, rule.res) # {}, "PRIVILEGE_ESCALATION", "critical")
           e == Hit("*" \in rule.res /\ rule.verbs \cap _RBAC_WRITE_VERBS # {}, "PRIVILEGE_ESCALATION",
                    IF elevated THEN "critical" ELSE "error")
           f == Hit(SecretReach(rule), "SECRETS_ACCESS", IF elevated THEN "error" ELSE "warning")
<1>2. AllRisks(a) /\ AllRisks(b) /\ AllRisks(c) /\ AllRisks(d)
  BY <1>1, HitIsRisk
<1>3. AllRisks(e) /\ AllRisks(f)
  BY <1>1, HitIsRisk
<1>4. TfRule(rule, elevated) = a \cup b \cup c \cup d \cup e \cup f
  BY DEF TfRule
<1> HIDE DEF a, b, c, d, e, f
<1>5. AllRisks(a \cup b \cup c \cup d)
  BY <1>2, RisksJoin
<1>6. AllRisks((a \cup b \cup c \cup d) \cup e)
  BY <1>3, <1>5, RisksJoin
<1>7. AllRisks(((a \cup b \cup c \cup d) \cup e) \cup f)
  BY <1>3, <1>6, RisksJoin
<1> QED
  BY <1>4, <1>7

LEMMA EvaluationsAreRisks == ASSUME NEW type, NEW c PROVE AllRisks(_evaluate(type, c))
<1>1. "error" \in Risks /\ "critical" \in Risks /\ "warning" \in Risks
  BY DEF Risks
<1>2. \A s : AllRisks(StatementRisk(s))
  <2> SUFFICES ASSUME NEW s PROVE AllRisks(StatementRisk(s))
    OBVIOUS
  <2>1. (IF s.star THEN "critical" ELSE "error") \in Risks
    BY DEF Risks
  <2>2. CASE s.allow
    <3> DEFINE a1 == Hit(s.excludes, "ALLOW_BY_EXCLUSION", "error")
               a2 == Hit(s.who = "public", "PUBLIC_PRINCIPAL", "critical")
               a3 == Hit(_is_privesc(s.action) /\ s.who = "nobody", "PRIVILEGE_ESCALATION", IF s.star THEN "critical" ELSE "error")
               a4 == Hit(s.who = "account" /\ s.action = "assume_role", "CROSS_ACCOUNT_TRUST", "warning")
               a5 == Hit(Wildcard(s.action), "WILDCARD_ACTION", "error")
               a6 == Hit(Wildcard(s.action) /\ s.star, "WILDCARD_RESOURCE", "error")
    <3>1. AllRisks(a1) /\ AllRisks(a2) /\ AllRisks(a3)
      BY <1>1, <2>1, HitIsRisk
    <3>2. AllRisks(a4) /\ AllRisks(a5) /\ AllRisks(a6)
      BY <1>1, HitIsRisk
    <3>3. StatementRisk(s) = a1 \cup a2 \cup a3 \cup a4 \cup a5 \cup a6
      BY <2>2 DEF StatementRisk
    <3> HIDE DEF a1, a2, a3, a4, a5, a6
    <3> QED
      BY <3>1, <3>2, <3>3, RisksJoin
  <2>3. CASE ~s.allow
    BY <2>3 DEF StatementRisk, AllRisks
  <2> QED
    BY <2>2, <2>3
<1>3. AllRisks(UNION {StatementRisk(s) : s \in c.after.stmts})
  <2> DEFINE S == {StatementRisk(s) : s \in c.after.stmts}
  <2>1. \A x \in S : AllRisks(x)
    BY <1>2
  <2> HIDE DEF S
  <2>2. AllRisks(UNION S)
    BY <2>1, RisksUnion
  <2> QED
    BY <2>2 DEF S
<1>4. \A o : AllRisks(_k8s_rbac(o))
  <2> SUFFICES ASSUME NEW o PROVE AllRisks(_k8s_rbac(o))
    OBVIOUS
  <2> DEFINE A == {TfRule(r, Elevated(o)) : r \in o.rules}
             B == {TfRef(r) : r \in o.refs}
             C == {TfSubject(s) : s \in o.subjects}
  <2>1. \A x \in A : AllRisks(x)
    BY RuleIsRisk
  <2>2. \A x \in B : AllRisks(x)
    BY <1>1, HitIsRisk DEF TfRef
  <2>3. \A x \in C : AllRisks(x)
    BY <1>1, HitIsRisk DEF TfSubject
  <2>4. _k8s_rbac(o) = Hit(o.aggregates, "AGGREGATION_RULE", "warning") \cup (UNION A) \cup (UNION B) \cup (UNION C)
    BY DEF _k8s_rbac
  <2> HIDE DEF A, B, C
  <2>5. AllRisks(UNION A) /\ AllRisks(UNION B) /\ AllRisks(UNION C)
    BY <2>1, <2>2, <2>3, RisksUnion
  <2>6. AllRisks(Hit(o.aggregates, "AGGREGATION_RULE", "warning"))
    BY <1>1, HitIsRisk
  <2> QED
    BY <2>4, <2>5, <2>6, RisksJoin
<1>5. AllRisks(IF type = "k8s_role" THEN _k8s_rbac(c.after.rbac) ELSE {})
  <2>1. AllRisks({})
    BY DEF AllRisks
  <2> QED
    BY <1>4, <2>1
<1>6. /\ AllRisks(UnknownContent(c)) /\ AllRisks(LambdaRisk(type, c.after.tags)) /\ AllRisks(ManagedRisk(c.after.tags))
      /\ AllRisks(KeyRisk(type, _change_type(c.actions))) /\ AllRisks(BlockRisk(type, _change_type(c.actions), c.after.tags))
      /\ AllRisks(AclRisk(type, c.after.tags)) /\ AllRisks(EndpointRisk(c.after.tags)) /\ AllRisks(BlobRisk(type, c.after.tags))
      /\ AllRisks(IngressRisk(type, c.after.tags))
  BY <1>1, HitIsRisk
     DEF UnknownContent, LambdaRisk, ManagedRisk, KeyRisk, BlockRisk, AclRisk, EndpointRisk, BlobRisk, IngressRisk
<1>7. \A t : AllRisks(_gcp_bindings(t))
  BY <1>1 DEF _gcp_bindings, AllRisks, Hit
<1>8. \A t : AllRisks(AzureRisk(t))
  BY <1>1 DEF AzureRisk, AllRisks, Hit
<1> DEFINE ct == _change_type(c.actions)
           t == c.after.tags
           stmts == UNION {StatementRisk(s) : s \in c.after.stmts}
           k8s == IF type = "k8s_role" THEN _k8s_rbac(c.after.rbac) ELSE {}
<1>9. _evaluate(type, c)
      = UnknownContent(c) \cup stmts \cup LambdaRisk(type, t) \cup ManagedRisk(t) \cup _gcp_bindings(t) \cup AzureRisk(t)
        \cup KeyRisk(type, ct) \cup BlockRisk(type, ct, t) \cup AclRisk(type, t) \cup EndpointRisk(t) \cup BlobRisk(type, t)
        \cup IngressRisk(type, t) \cup k8s
  BY DEF _evaluate
<1>10. AllRisks(stmts) /\ AllRisks(k8s) /\ AllRisks(_gcp_bindings(t)) /\ AllRisks(AzureRisk(t))
  BY <1>3, <1>5, <1>7, <1>8
<1>11. /\ AllRisks(UnknownContent(c)) /\ AllRisks(LambdaRisk(type, t)) /\ AllRisks(ManagedRisk(t))
       /\ AllRisks(KeyRisk(type, ct)) /\ AllRisks(BlockRisk(type, ct, t)) /\ AllRisks(AclRisk(type, t))
       /\ AllRisks(EndpointRisk(t)) /\ AllRisks(BlobRisk(type, t)) /\ AllRisks(IngressRisk(type, t))
  BY <1>6
<1> HIDE DEF ct, t, stmts, k8s
<1> DEFINE some == UnknownContent(c) \cup stmts \cup LambdaRisk(type, t) \cup ManagedRisk(t)
           more == some \cup _gcp_bindings(t) \cup AzureRisk(t) \cup KeyRisk(type, ct) \cup BlockRisk(type, ct, t)
<1>12. AllRisks(some)
  BY <1>10, <1>11, RisksJoin
<1>13. AllRisks(more)
  <2> HIDE DEF some
  <2> QED
    BY <1>10, <1>11, <1>12, RisksJoin
<1>14. _evaluate(type, c) = more \cup AclRisk(type, t) \cup EndpointRisk(t) \cup BlobRisk(type, t) \cup IngressRisk(type, t) \cup k8s
  BY <1>9
<1> HIDE DEF more
<1> QED
  BY <1>10, <1>11, <1>13, <1>14, RisksJoin

\* What passes the gate has issues for information only.
LEMMA PassIsSilent ==
  ASSUME NEW issues, \A i \in issues : i.sev \in Severity, grade_iac(issues) = "pass"
  PROVE  \A i \in issues : i.sev = "info"
<1> DEFINE r == Report("iac", FALSE, issues)
<1>1. r.grader = "iac" /\ r.issues = issues
  BY DEF Report
<1> HIDE DEF r
<1>2. Verdict_(Severities({r})) \in {"pass", "fail"} \ {"fail"}
  BY <1>1 DEF grade_iac, plain_gate, gate, Verdict_, r
<1>3. \A s \in Severities({r}) : s # "warning" /\ ~AtLeast(s, "error")
  BY <1>2 DEF Verdict_
<1>4. \A i \in issues : Effective(r, i) \in Severities({r})
  BY <1>1 DEF Severities
<1>5. Rank("info") = 1 /\ Rank("warning") = 2 /\ Rank("error") = 3 /\ Rank("critical") = 4
  BY DEF Rank, SEV_ORDER
<1> SUFFICES ASSUME NEW i \in issues PROVE i.sev = "info"
  OBVIOUS
<1>6. Effective(r, i) # "warning" /\ ~AtLeast(Effective(r, i), "error")
  BY <1>3, <1>4
<1>7. i.sev \in {"info", "warning", "error", "critical"}
  BY DEF Severity
<1> QED
  BY <1>5, <1>6, <1>7 DEF Effective, clamp_ceiling, AtLeast

LEMMA IssuesHaveSeverities ==
  ASSUME NEW p PROVE \A i \in parse_terraform_plan(p) : i.sev \in Severity
<1>1. \A s \in Risks : s \in Severity
  BY DEF Risks, Severity
<1>2. \A i \in iam_risk_issues(p.type, p.planned) : i.sev \in Severity
  BY <1>1, EvaluationsAreRisks DEF iam_risk_issues, AllRisks, Issue
<1>3. \A i \in DriftIssues(p) : i.sev \in Severity
  BY <1>1, EvaluationsAreRisks DEF DriftIssues, AllRisks, Issue, Severity
<1> QED
  BY <1>2, <1>3 DEF parse_terraform_plan, Raised, Issue, Severity

LEMMA UnattendedFollows == IacInv => UnattendedIsTame
<1> SUFFICES ASSUME IacInv, iac.at = "graded", Unattended(iac)
             PROVE  /\ "delete" \notin iac.planned.actions
                    /\ iac.config = {}
                    /\ extracted(iac.type, LeftBehind(iac)) => _evaluate(iac.type, LeftBehind(iac)) = {}
  BY DEF UnattendedIsTame
<1>1. iac.issues = parse_terraform_plan(iac) /\ iac.class = escalate_plan(iac) /\ PlanRead(iac)
  BY DEF IacInv
<1>2. iac.class = "consequential" /\ grade_iac(iac.issues) = "pass"
  <2>1. iac.class \in {"consequential", "irreversible"}
    BY <1>1 DEF escalate_plan
  <2>2. classify(Wanted(iac.class), ApplyCall) = iac.class /\ Wanted(iac.class).dry_run = TRUE
    BY DEF classify, Wanted, ApplyCall
  <2> QED
    BY <2>1, <2>2 DEF Unattended, handle
<1>3. \A i \in parse_terraform_plan(iac) : i.sev = "info"
  BY <1>1, <1>2, PassIsSilent, IssuesHaveSeverities
<1>4. "delete" \notin iac.planned.actions /\ ~provisioner_resources(iac)
  BY <1>1, <1>2 DEF escalate_plan, destructive_changes
<1>5. iac.config = {}
  <2>1. ~http_data_sources(iac)
    <3>1. ASSUME http_data_sources(iac) PROVE Issue("warning", "high", "HTTP_DATA_SOURCE") \in parse_terraform_plan(iac)
      BY <3>1 DEF parse_terraform_plan, Raised
    <3>2. Issue("warning", "high", "HTTP_DATA_SOURCE").sev # "info"
      BY DEF Issue
    <3> QED
      BY <1>3, <3>1, <3>2
  <2> QED
    BY <1>1, <1>4, <2>1 DEF PlanRead, provisioner_resources, http_data_sources
<1>6. ASSUME Overwritten(iac), extracted(iac.type, iac.planned) PROVE _evaluate(iac.type, iac.planned) = {}
  <2>1. \A h \in _evaluate(iac.type, iac.planned) : Issue(h.sev, "high", h.rule) \in parse_terraform_plan(iac)
    BY <1>6 DEF parse_terraform_plan, iam_risk_issues
  <2>2. \A h \in _evaluate(iac.type, iac.planned) : h.sev = "info"
    BY <1>3, <2>1 DEF Issue
  <2> QED
    BY <2>2, EvaluationsAreRisks DEF AllRisks, Risks
<1>7. ASSUME extracted(iac.type, iac.drift) PROVE _evaluate(iac.type, iac.drift) = {}
  <2>1. \A h \in _evaluate(iac.type, iac.drift) :
          (IF persists(iac) THEN Issue(h.sev, "high", h.rule) ELSE Issue("warning", "medium", h.rule)) \in parse_terraform_plan(iac)
    BY <1>7 DEF parse_terraform_plan, DriftIssues
  <2>2. \A h \in _evaluate(iac.type, iac.drift) : h.sev = "info"
    BY <1>3, <2>1 DEF Issue
  <2> QED
    BY <2>2, EvaluationsAreRisks DEF AllRisks, Risks
<1> QED
  BY <1>4, <1>5, <1>6, <1>7 DEF LeftBehind

\* For any rules, resources, states, drifts and programs in the configuration: an
\* apply that nobody approved destroys nothing, runs no program and leaves
\* nothing behind that the rules call a risk.
THEOREM UnattendedAppliesAreTame == IacInit /\ [][IacNext]_iacVars => []UnattendedIsTame
<1>1. IacInit => IacInv
  BY DEF IacInit, IacInv, NoIac, IacFields
<1> QED
  BY <1>1, IacStep, UnattendedFollows, PTL
=============================================================================
