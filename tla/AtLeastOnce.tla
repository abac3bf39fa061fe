----------------------------- MODULE AtLeastOnce -----------------------------
(***************************************************************************)
(* What the job queue promises of one job after another: it is attempted a *)
(* bounded number of times, it ends once, only its newest attempt (or its  *)
(* running out of attempts) ends it, and only an ended job is forgotten.   *)
(***************************************************************************)
EXTENDS Integers

CONSTANTS Job, Cap          \* the largest number of attempts

VARIABLES status,           \* [Job -> "none", "open", "ended" or "gone"]
          tries             \* [Job -> Nat]

vars == <<status, tries>>

Init ==
  /\ status = [j \in Job |-> "none"]
  /\ tries = [j \in Job |-> 0]

Submit(j) == status[j] = "none" /\ status'[j] = "open" /\ tries'[j] = 0

Attempt(j) ==
  /\ status[j] = "open" /\ tries[j] < Cap
  /\ status'[j] = "open" /\ tries'[j] = tries[j] + 1

\* Nothing ends before it was attempted.
End(j) ==
  /\ status[j] = "open" /\ tries[j] > 0
  /\ status'[j] = "ended" /\ tries'[j] = tries[j]

Forget(j) == status[j] = "ended" /\ status'[j] = "gone" /\ tries'[j] = 0

Rest(j) == status'[j] = status[j] /\ tries'[j] = tries[j]

\* One operation of the queue may move several jobs: a claim ends the jobs
\* that are out of attempts and starts one, a retention sweep forgets many.
Next ==
  /\ status' \in [Job -> {"none", "open", "ended", "gone"}]
  /\ tries' \in [Job -> 0..Cap]
  /\ \A j \in Job : Submit(j) \/ Attempt(j) \/ End(j) \/ Forget(j) \/ Rest(j)

Spec == Init /\ [][Next]_vars
=============================================================================
