------------------------------ MODULE AgentLoop ------------------------------
(***************************************************************************)
(* loop.py: a worker perceives an artifact, gates what it perceives and    *)
(* lets a coding agent fix it, until the gate passes or the loop gives up. *)
(* With it: senses/percept_log.py, the log of percepts that outlives the   *)
(* session and says whether it is stuck; senses/sight.py, the reports made *)
(* of a percept; agents/coder.py, the fix.  Several loops share the        *)
(* failure ledger.                                                         *)
(*                                                                         *)
(* An artifact is the set of defects a precise sense would find in it; an  *)
(* opinion is what a model may or may not say of it.  A loop waits while   *)
(* it perceives and while it fixes; the ledger's lock covers record and    *)
(* mark_fixed one by one, so other threads run between them.               *)
(***************************************************************************)
EXTENDS FailureLedger, SequencesExt

CONSTANTS
  Loops,
  Real, Opinions,      \* fingerprints of defects; of a model's findings
  Synthetic,           \* of the sense's own fallback notice
  SevOf, GraderOf,     \* Fps -> severity; Fps -> the kind that reports it
  W, MaxIter,          \* constants.W; the loop's budget
  MaxSessions          \* bound: sessions of all loops

ASSUME LoopAssumption == Real \cup Opinions \cup Synthetic \subseteq Fps /\ W \in Nat \ {0, 1}

VARIABLES
  artifact,    \* Loops -> SUBSET Real
  percepts,    \* Loops -> the last W gating sets of the percept log
  session,     \* Loops -> the worker's state
  sessions,    \* how many sessions were started
  cured        \* history: what some passing session had seen before it passed

loopVars == <<artifact, percepts, session, sessions, cured>>

Idle == [at |-> "idle", n |-> 0, obs |-> {}, seen |-> {}, regressions |-> {},
         outcome |-> "none", verdict |-> "none", flat |-> 0]

Shrank(new, old) == new \subseteq old /\ new # old
stuck(sets) ==
  /\ sets # <<>> /\ Last(sets) # {}
  /\ Len(sets) >= 2
  /\ \A i \in 2..Len(sets) : ~Shrank(sets[i], sets[i-1])

LastOnes(s, n) == IF Len(s) > n THEN SubSeq(s, Len(s) - n + 1, Len(s)) ELSE s
_gating_set(obs) == {f \in obs : AtLeast(SevOf[f], "error")}

\* from_agentvision: one report per kind of grader; a clean one if nothing was
\* found; the fallback notice stays in the percept only.
from_agentvision(obs) ==
  LET found == obs \ Synthetic
      kinds == {GraderOf[f] : f \in found}
      of(g) == Report(g, FALSE, {Issue(SevOf[f], "high", f) : f \in {x \in found : GraderOf[x] = g}})
  IN  IF kinds = {} THEN {Report("dom", FALSE, {})} ELSE {of(g) : g \in kinds}

Reports(l) == from_agentvision(session[l].obs)
Flat(l) == _gating_issues(Reports(l))

LoopInit ==
  /\ artifact \in [Loops -> SUBSET Real]
  /\ percepts = [l \in Loops |-> <<>>]
  /\ session = [l \in Loops |-> Idle]
  /\ sessions = 0
  /\ cured = {}

\* Between two sessions people change the artifact.
Start(l) ==
  /\ session[l].at = "idle" /\ sessions < MaxSessions
  /\ \E a \in SUBSET Real : artifact' = [artifact EXCEPT ![l] = a]
  /\ sessions' = sessions + 1
  /\ session' = [session EXCEPT ![l] = [Idle EXCEPT !.at = "perceive", !.n = 1]]
  /\ UNCHANGED <<percepts, ledger, cured>>

Perceive(l) ==
  /\ session[l].at = "perceive"
  /\ \E o \in SUBSET (Opinions \cup Synthetic) :
       LET obs == artifact[l] \cup o
           set == _gating_set(obs)
           old == percepts[l]
           flat == IF session[l].n > 1 /\ set # {} /\ ~Shrank(set, Last(old))
                   THEN session[l].flat + 1 ELSE 0
       IN  /\ session' = [session EXCEPT ![l] = [@ EXCEPT !.at = "check", !.obs = obs, !.flat = flat]]
           /\ percepts' = [percepts EXCEPT ![l] = LastOnes(Append(old, set), W)]
  /\ UNCHANGED <<artifact, sessions, ledger, cured>>

Check(l) ==
  /\ session[l].at = "check"
  /\ session' = [session EXCEPT ![l] = [@ EXCEPT !.at = "record", !.regressions = check_regressions(Flat(l))]]
  /\ UNCHANGED <<artifact, percepts, sessions, ledger, cured>>

End(s, how, v) == [s EXCEPT !.at = "idle", !.outcome = how, !.verdict = v, !.n = 0, !.seen = {}, !.flat = 0]

\* What the loop does with a verdict, in the code's order.
Decide(s, v, isStuck, seen) ==
  LET t == [s EXCEPT !.seen = seen, !.verdict = v] IN
  IF v = "pass" THEN IF seen # {} THEN [t EXCEPT !.at = "mark"] ELSE End(t, "pass", v)
  ELSE IF s.regressions # {} THEN End(t, "regression", v)
  ELSE IF isStuck THEN End(t, "stuck", v)
  ELSE [t EXCEPT !.at = "fix"]

Record(l) ==
  LET s == session[l]
      v == plain_gate(Reports(l) \cup Remembered(s.regressions))
  IN  /\ s.at = "record"
      /\ \E same \in SUBSET Flat(l) : ledger' = record(Flat(l), {}, same)
      /\ session' = [session EXCEPT ![l] = Decide(s, v, stuck(percepts[l]), s.seen \cup Flat(l))]
      /\ UNCHANGED <<artifact, percepts, sessions, cured>>

Mark(l) ==
  /\ session[l].at = "mark"
  /\ ledger' = mark_fixed(session[l].seen)
  /\ cured' = cured \cup session[l].seen
  /\ session' = [session EXCEPT ![l] = End(session[l], "pass", "pass")]
  /\ UNCHANGED <<artifact, percepts, sessions>>

\* The agent rewrites the artifact, for better or worse, or gives up.
Fix(l) ==
  LET s == session[l] IN
  /\ s.at = "fix"
  /\ \/ /\ session' = [session EXCEPT ![l] = End(s, "fix_gave_up", s.verdict)]
        /\ UNCHANGED artifact
     \/ /\ \E a \in SUBSET Real : artifact' = [artifact EXCEPT ![l] = a]
        /\ session' = [session EXCEPT ![l] =
                         IF s.n = MaxIter THEN End(s, "max_iter", s.verdict)
                         ELSE [s EXCEPT !.at = "perceive", !.n = s.n + 1]]
  /\ UNCHANGED <<percepts, sessions, ledger, cured>>

\* The worker dies: the log and the ledger stay.
Crash(l) ==
  /\ session[l].at # "idle"
  /\ session' = [session EXCEPT ![l] = [Idle EXCEPT !.outcome = "crashed"]]
  /\ UNCHANGED <<artifact, percepts, sessions, ledger, cured>>

LoopNext ==
  \E l \in Loops :
    Start(l) \/ Perceive(l) \/ Check(l) \/ Record(l) \/ Mark(l) \/ Fix(l) \/ Crash(l)

-----------------------------------------------------------------------------
\* A session ends on a regression only over a failure that some session really
\* saw and then passed without, whichever loop that was (check_regressions).
RegressionIsReal ==
  \A l \in Loops : session[l].outcome = "regression" =>
    session[l].regressions # {} /\ session[l].regressions \subseteq cured

\* The agent is not called again when the last W percepts did not shrink the
\* failures once, also when they changed all the time (percept_log.stuck).
ThrashingStops ==
  \A l \in Loops : session[l].at = "fix" => session[l].flat <= W - 2

\* "Advisory graders cannot exceed this [warning]" (verdict/constants.py:10):
\* the gate fails only on what a precise sense sees in the artifact.
OpinionNeverGates ==
  \A l \in Loops : session[l].verdict = "fail" /\ session[l].at = "idle" =>
    \E f \in session[l].obs : GraderOf[f] \in PRECISE_GRADERS /\ AtLeast(SevOf[f], "error")
=============================================================================
