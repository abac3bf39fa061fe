-------------------------- MODULE TelecomActuator --------------------------
(***************************************************************************)
(* ci/telecom_actuator.py: a configuration change is planned offline       *)
(* against two artifacts of the repository, then sent to the device under  *)
(* a confirmed commit, verified on the running configuration, and          *)
(* confirmed; unless confirmed the device reverts it by itself.  Each call *)
(* of the session may raise; a call that raises may have taken effect (the *)
(* reply was lost).  The actuator may die between any two calls.           *)
(*                                                                         *)
(* A configuration is a value; two are compared by what the code compares. *)
(***************************************************************************)
EXTENDS Integers, FiniteSets

CONSTANTS Configs,     \* configurations
          Fails,       \* those the grader fails
          Critical,    \* pairs <<a, b>>: going from a to b removes an object or
                       \* changes a service-defining attribute
          Edits        \* the edit-config payloads: [id, to], to = what it makes of the candidate

ASSUME TelecomAssumption == \A e \in Edits : e.to \in Configs

VARIABLES device,      \* [running, saved, candidate, pending, locked]
          change,      \* the plan and how far act() is with it
          kept         \* what the device was last told to keep: {} or {[to, had, plan, approved]}

telecomVars == <<device, change, kept>>

NoChange == [at |-> "idle", plan |-> "none", edit |-> "none", approved |-> FALSE, result |-> "none"]

TelecomInit ==
  /\ \E c \in Configs : device = [running |-> c, saved |-> c, candidate |-> c, pending |-> FALSE, locked |-> FALSE]
  /\ change = NoChange /\ kept = {}

_change_class(from, to) == IF <<from, to>> \in Critical THEN "irreversible" ELSE "consequential"
_matches_desired(running, desired) == <<running, desired>> \notin Critical /\ <<desired, running>> \notin Critical

\* plan(): the desired artifact is graded, then read again to be compared; it may
\* change in between, and reading it may fail.
Plan_ ==
  /\ change.at = "idle"
  /\ \E current, graded, desired \in Configs, e \in Edits, readable \in BOOLEAN :
       change' = [at |-> "planned", approved |-> FALSE, result |-> "none", edit |-> e,
                  plan |-> [digest |-> e.id, desired |-> IF readable THEN {desired} ELSE {},
                            current |-> current,
                            class |-> IF readable THEN _change_class(current, desired) ELSE "irreversible",
                            verdict |-> IF graded \in Fails THEN "fail" ELSE "pass"]]
  /\ UNCHANGED <<device, kept>>

\* The payload may be replaced between the plan and act().
SwapEdit ==
  /\ change.at = "planned"
  /\ \E e \in Edits \ {change.edit} : change' = [change EXCEPT !.edit = e]
  /\ UNCHANGED <<device, kept>>

Admits(p, e, approved) ==
  /\ e.id = p.digest
  /\ p.desired # {}
  /\ p.class = "irreversible" => approved
  /\ p.verdict # "fail"

Step(at) == change' = [change EXCEPT !.at = at]
Over(result) == change' = [change EXCEPT !.at = "over", !.result = result]

\* The guards of act(), then the lock; nothing was changed when either refuses.
Begin_ ==
  /\ change.at = "planned"
  /\ \E approved \in BOOLEAN :
       \/ /\ ~Admits(change.plan, change.edit, approved)
          /\ Over("refused") /\ UNCHANGED device
       \/ /\ Admits(change.plan, change.edit, approved)
          /\ change' = [change EXCEPT !.at = "edit", !.approved = approved]
          /\ device' = [device EXCEPT !.locked = TRUE]
       \/ /\ Admits(change.plan, change.edit, approved)
          /\ Over("no_lock") /\ UNCHANGED device
  /\ UNCHANGED kept

\* discard_changes and unlock, each best-effort.
Cleanup(d) == {[d EXCEPT !.candidate = c, !.locked = l] : c \in {d.running, d.candidate}, l \in {FALSE, d.locked}}

\* A session call with its effect: it returns, or raises before or after it.
Call(from, after, to) ==
  /\ change.at = from
  /\ \/ Step(to) /\ device' = after
     \/ Over("rolled_back") /\ device' \in Cleanup(device) \cup Cleanup(after)

EditConfig == Call("edit", [device EXCEPT !.candidate = change.edit.to], "commit") /\ UNCHANGED kept
ConfirmedCommit ==
  Call("commit", [device EXCEPT !.running = device.candidate, !.pending = TRUE], "verify") /\ UNCHANGED kept

\* Bug: the running configuration is compared but not graded.
VerifyMatches(running, desired) == _matches_desired(running, desired)

_verify_running(running, desired) == running \notin Fails /\ _matches_desired(running, desired)

Verify ==
  /\ change.at = "verify"
  /\ \/ _verify_running(device.running, CHOOSE d \in change.plan.desired : TRUE) /\ Step("confirm") /\ UNCHANGED device
     \/ ~_verify_running(device.running, CHOOSE d \in change.plan.desired : TRUE)
        /\ Over("rolled_back") /\ device' \in Cleanup(device)
     \/ Over("rolled_back") /\ device' \in Cleanup(device)
  /\ UNCHANGED kept

\* The confirming commit; after the device reverted it is a commit of the candidate.
Confirm ==
  /\ change.at = "confirm"
  /\ LET to == IF device.pending THEN device.running ELSE device.candidate
         after == [device EXCEPT !.running = to, !.saved = to, !.pending = FALSE]
         keep == {[to |-> to, had |-> device.saved, plan |-> change.plan, approved |-> change.approved]}
     IN  \/ Over("ok") /\ device' \in {after, [after EXCEPT !.locked = FALSE]} /\ kept' = keep
         \/ Over("rolled_back") /\ device' = after /\ kept' = keep
         \/ Over("rolled_back") /\ UNCHANGED <<device, kept>>

\* The confirm timeout, or the end of the session, reverts.
Revert_ ==
  /\ device.pending
  /\ device' = [device EXCEPT !.running = device.saved, !.pending = FALSE]
  /\ UNCHANGED <<change, kept>>

Die ==
  /\ change.at \in {"edit", "commit", "verify", "confirm"}
  /\ Over("died") /\ UNCHANGED <<device, kept>>

\* The next change starts on a device that has settled.
Again ==
  /\ change.at = "over" /\ ~device.pending
  /\ change' = NoChange
  /\ device' = [device EXCEPT !.locked = FALSE, !.candidate = device.running]
  /\ kept' = {}

TelecomNext ==
  Plan_ \/ SwapEdit \/ Begin_ \/ EditConfig \/ ConfirmedCommit \/ Verify \/ Confirm \/ Revert_ \/ Die \/ Again

-----------------------------------------------------------------------------
\* What the device keeps was graded on the device, is what the plan desired, and
\* was approved where the plan's own comparison calls it irreversible, whatever
\* the artifacts, the payload, the session and the timeout did in between; but
\* for a plan that desires what the device already had (the timeout may then hide
\* from the verification what the candidate holds).
KeptIsVerified ==
  \A k \in kept : \A d \in k.plan.desired : ~_matches_desired(k.had, d) =>
    /\ k.to \notin Fails
    /\ _matches_desired(k.to, d)
    /\ k.plan.class = "irreversible" => k.approved
=============================================================================
