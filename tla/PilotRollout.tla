---------------------------- MODULE PilotRollout ----------------------------
(***************************************************************************)
(* pilot/service.py over the tenant's three logs: decisions are recorded,  *)
(* reviewers label them, admins promote, demote, amend and archive, and    *)
(* autodemote watches the enforcing graders.                               *)
(*                                                                         *)
(* Each log is atomic (ChainLog checks that), but a request reads several  *)
(* of them, one after the other, and appends at the end: everything may    *)
(* change in between.  A request in flight is a record in req; the service *)
(* may be restarted at any point, with or without the kill switch.         *)
(***************************************************************************)
EXTENDS PilotPolicy, SequencesExt

CONSTANTS
    People, Admins,       \* principals, and those with pilot:promote and pilot:archive
    Graders,
    MinReviewerLabels, MinLabelAuthors,
    Scenarios             \* what may happen in a behaviour, a bound of the model:
                          \* [slots, subs, modes, batches, ops, labels, policy]
\* slots are the requests in flight, subs the decisions that may be asked for,
\* batches the label rows that may be sent (functions from artifacts to BOOLEAN),
\* ops the optional operations, labels and policy the lengths of these two logs.

ASSUME AdminsArePeople == Admins \subseteq People
ASSUME GradersAreNamed == "*" \notin Graders    \* GraderKind has no "*", the default's name
ASSUME ReviewersLabel == MinReviewerLabels \in Nat \ {0} /\ MinLabelAuthors \in Nat

\* A label row maps artifacts to BOOLEAN, and facts that are bound name the file.
ASSUME ScenariosAreSane ==
    \A x \in Scenarios :
        /\ \A rows \in x.batches : IsFiniteSet(DOMAIN rows) /\ \A a \in DOMAIN rows : rows[a] \in BOOLEAN
        /\ \A sub \in x.subs : sub.verel /\ sub.bound => sub.content # ""

VARIABLES
    sc,              \* the scenario of this behaviour
    kill,            \* VEREL_PILOT_KILL_SWITCH of the running service
    pilot, pgone,    \* the decision log and how many of its records are archived
    labels, lgone,   \* the label log, likewise
    policy,          \* the policy log
    req              \* req[s]: the request in flight in slot s

vars == <<sc, kill, pilot, pgone, labels, lgone, policy, req>>

None == [op |-> "none"]
\* What the service still reads of the two logs.
LiveDecisions == (pgone + 1)..Len(pilot)
LiveLabels == (lgone + 1)..Len(labels)
HasRecord(log, at, a) == \E i \in at : log[i].artifact = a

-----------------------------------------------------------------------------
\* _evidence_records: what Verel graded itself, over facts that named the file.
IsEvidence(r) == r.verel /\ r.bound
_evidence_records == {i \in LiveDecisions : IsEvidence(pilot[i])}

First(at, a) == CHOOSE i \in at : pilot[i].artifact = a /\ \A j \in at : pilot[j].artifact = a => i <= j
Recorder(at, a) == IF HasRecord(pilot, at, a) THEN pilot[First(at, a)].by ELSE "nobody"
current_labels == {j \in LiveLabels : \A k \in LiveLabels : k > j => labels[k].artifact # labels[j].artifact}

\* _labels: the newest label of each artifact, unless its author recorded the decision.
LabelOf(j) == [artifact |-> labels[j].artifact, defect |-> labels[j].defect]
_labels == {LabelOf(j) : j \in {k \in current_labels : Recorder(LiveDecisions, labels[k].artifact) # labels[k].by}}

\* _reviewers: people, the promoter aside, with enough original labels on evidence.
Originals ==
    {j \in LiveLabels : /\ ~labels[j].amend
                        /\ HasRecord(pilot, _evidence_records, labels[j].artifact)
                        /\ Recorder(_evidence_records, labels[j].artifact) # labels[j].by}
ReviewerFloor(n) == IF n \div 10 > MinReviewerLabels THEN n \div 10 ELSE MinReviewerLabels
_reviewers(exclude) ==
    Cardinality({w \in People \ {exclude} :
        /\ Originals # {}
        /\ Cardinality({j \in Originals : labels[j].by = w}) >= ReviewerFloor(Cardinality(Originals))})

-----------------------------------------------------------------------------
Init ==
    /\ sc \in Scenarios
    /\ kill \in IF "restart" \in sc.ops THEN BOOLEAN ELSE {FALSE}
    /\ pilot = <<>> /\ pgone = 0
    /\ labels = <<>> /\ lgone = 0
    /\ policy = <<>>
    /\ req = [s \in sc.slots |-> None]

Open(s, r) == req[s] = None /\ req' = [req EXCEPT ![s] = r]
Goto(s, r) == req' = [req EXCEPT ![s] = r]
Close(s) == req' = [req EXCEPT ![s] = None]

\* POST /v1/pilot/record, and the workers' and the hot folder's run_pilot: the
\* policy is read first; without one the caller's mode applies, and enforce is
\* for admins.
BeginRecord(s, sub, mode) ==
    /\ IF policy # <<>> THEN mode = "policy" ELSE mode \in Levels
    /\ mode = "enforce" => sub.by \in Admins
    /\ Open(s, [op |-> "record", sub |-> sub, mode |-> mode, known |-> Len(policy)])
    /\ UNCHANGED <<sc, kill, pilot, pgone, labels, lgone, policy>>

\* A grader's outcome is the worst its reports say of themselves, which need not
\* be what the gate makes of their issues.
OutcomeRank == [pass |-> 0, warn |-> 1, fail |-> 2, errored |-> 3]
_per_grader(reports, g) ==
    LET said == {IF r.errored THEN "errored" ELSE r.verdict : r \in {x \in reports : x.grader = g}}
    IN  CHOOSE o \in said : \A v \in said : OutcomeRank[v] <= OutcomeRank[o]

Decision(sub, mode, known) ==
    [artifact |-> sub.artifact, content |-> sub.content, by |-> sub.by,
     verel |-> sub.verel, bound |-> sub.verel /\ sub.bound,
     outcomes |-> [g \in {r.grader : r \in sub.reports} |-> _per_grader(sub.reports, g)],
     mode |-> mode,
     enforced |-> run_pilot(sub.reports, mode, SubSeq(policy, 1, known), kill, FALSE)]

\* append_unique: one decision per artifact id, the archived ones included.
Decided(a) == HasRecord(pilot, DOMAIN pilot, a)
Record(s) ==
    /\ req[s].op = "record"
    /\ pilot' = IF Decided(req[s].sub.artifact) THEN pilot
                ELSE Append(pilot, Decision(req[s].sub, req[s].mode, req[s].known))
    /\ Close(s)
    /\ UNCHANGED <<sc, kill, pgone, labels, lgone, policy>>

\* POST /v1/pilot/labels and /labels/amend: all rows or none, judged under the
\* label log's lock.  A row that repeats the label adds nothing; only an admin
\* may change one; an archived label can be neither changed nor given again.
Current(a, defects) == \E j \in current_labels : labels[j].artifact = a /\ labels[j].defect \in defects
Conflicts(rows, amend) ==
    /\ ~amend
    /\ \E a \in DOMAIN rows : IF Current(a, BOOLEAN) THEN Current(a, {~rows[a]}) ELSE HasRecord(labels, DOMAIN labels, a)
New(rows, amend) == {a \in DOMAIN rows : IF Current(a, BOOLEAN) THEN Current(a, {~rows[a]}) ELSE ~amend}

AddLabels(p, rows, amend) ==
    LET q == SetToSeq(New(rows, amend))
    IN  /\ amend => p \in Admins
        /\ \A a \in DOMAIN rows : HasRecord(pilot, LiveDecisions, a)
        /\ ~Conflicts(rows, amend)
        /\ Len(labels) + Len(q) <= sc.labels
        /\ labels' = labels \o [i \in DOMAIN q |-> [artifact |-> q[i], defect |-> rows[q[i]], by |-> p, amend |-> amend]]
        /\ UNCHANGED <<sc, kill, pilot, pgone, lgone, policy, req>>

-----------------------------------------------------------------------------
Entry(p, g, m, action, over) == [by |-> p, grader |-> g, mode |-> m, action |-> action, overridden |-> over]
_add(e) == Len(policy) < sc.policy /\ policy' = Append(policy, e)

\* POST /v1/pilot/promote: the decisions are read, then the labels, then both
\* again for the reviewers, then the policy, and only then is the entry appended.
BeginPromote(s, p, g, to, override) ==
    /\ p \in Admins
    /\ Open(s, [op |-> "evaluate", by |-> p, grader |-> g, to |-> to, override |-> override,
                recs |-> _evidence_records])
    /\ UNCHANGED <<sc, kill, pilot, pgone, labels, lgone, policy>>

_evaluation(s) ==
    /\ req[s].op = "evaluate"
    /\ Goto(s, [op |-> "review", by |-> req[s].by, grader |-> req[s].grader, to |-> req[s].to, override |-> req[s].override,
                ready |-> evaluate(pilot, req[s].recs, _labels, req[s].grader)])
    /\ UNCHANGED <<sc, kill, pilot, pgone, labels, lgone, policy>>

CountReviewers(s) ==
    /\ req[s].op = "review"
    /\ Goto(s, [op |-> "check", by |-> req[s].by, grader |-> req[s].grader, to |-> req[s].to, override |-> req[s].override,
                ready |-> req[s].ready,
                reviewers |-> _reviewers(req[s].by)])
    /\ UNCHANGED <<sc, kill, pilot, pgone, labels, lgone, policy>>

\* store.promote up to its append: the policy is read without the log's lock.
CheckPromote(s) ==
    LET r    == req[s]
        now  == mode_for(policy, r.grader)
        over == NeedsOverride(now, r.to, r.ready, r.reviewers, MinLabelAuthors)
    IN  /\ r.op = "check"
        /\ IF MayClimb(now, r.to) /\ (over => r.override)
           THEN Goto(s, [op |-> "append", entry |-> Entry(r.by, r.grader, r.to, "promote", over)])
           ELSE Close(s)
        /\ UNCHANGED <<sc, kill, pilot, pgone, labels, lgone, policy>>

AppendEntry(s) ==
    /\ req[s].op = "append"
    /\ _add(req[s].entry)
    /\ Close(s)
    /\ UNCHANGED <<sc, kill, pilot, pgone, labels, lgone>>

DefaultAny(m) == TRUE                                   \* mutant: the default may enforce
MaySetDefault(m) == m # "enforce"
MayDemoteTo(m) == m # "enforce"
demote(p, g, to) ==
    /\ p \in Admins /\ MayDemoteTo(to)
    /\ _add(Entry(p, g, to, "demote", FALSE))
    /\ UNCHANGED <<sc, kill, pilot, pgone, labels, lgone, req>>
set_default(p, m) ==
    /\ p \in Admins /\ MaySetDefault(m)
    /\ _add(Entry(p, "*", m, "set", FALSE))
    /\ UNCHANGED <<sc, kill, pilot, pgone, labels, lgone, req>>

\* POST /v1/pilot/health: the evidence, then the policy, then one append for
\* each enforcing grader found unhealthy.
BeginHealth(s, p) ==
    /\ p \in Admins
    /\ Open(s, [op |-> "health", recs |-> _evidence_records,
                ls |-> _labels])
    /\ UNCHANGED <<sc, kill, pilot, pgone, labels, lgone, policy>>

HasOwnEntry(g) == \E k \in DOMAIN policy : policy[k].grader = g
Judge(s) ==
    /\ req[s].op = "health"
    /\ Goto(s, [op |-> "demote",
                bad |-> {g \in Graders : /\ HasOwnEntry(g) /\ mode_for(policy, g) = "enforce"
                                         /\ ~healthy(pilot, req[s].recs, req[s].ls, g)}])
    /\ UNCHANGED <<sc, kill, pilot, pgone, labels, lgone, policy>>

autodemote(s) ==
    /\ req[s].op = "demote"
    /\ \/ /\ req[s].bad = {} /\ Close(s) /\ UNCHANGED policy
       \/ \E g \in req[s].bad : /\ _add(Entry("auto", g, "advisory", "autodemote", FALSE))
                                /\ Goto(s, [op |-> "demote", bad |-> req[s].bad \ {g}])
    /\ UNCHANGED <<sc, kill, pilot, pgone, labels, lgone>>

\* POST /v1/pilot/archive: all but the last keep records of a log leave it.
Archive(p, which, keep) ==
    /\ p \in Admins
    /\ \/ /\ which = "pilot" /\ Len(pilot) - keep > pgone
          /\ pgone' = Len(pilot) - keep /\ UNCHANGED lgone
       \/ /\ which = "labels" /\ Len(labels) - keep > lgone
          /\ lgone' = Len(labels) - keep /\ UNCHANGED pgone
    /\ UNCHANGED <<sc, kill, pilot, labels, policy, req>>

Restart(k) ==
    /\ kill' = k
    /\ req' = [s \in sc.slots |-> None]
    /\ req # [s \in sc.slots |-> None] \/ k # kill
    /\ UNCHANGED <<sc, pilot, pgone, labels, lgone, policy>>

Recording(s) == Record(s) \/ \E sub \in sc.subs, m \in sc.modes : BeginRecord(s, sub, m)
Promoting(s) ==
    \/ \E p \in Admins, g \in Graders, to \in {"advisory", "enforce"}, o \in BOOLEAN :
          (o => "override" \in sc.ops) /\ BeginPromote(s, p, g, to, o)
    \/ _evaluation(s) \/ CountReviewers(s) \/ CheckPromote(s) \/ AppendEntry(s)
Watching(s) == Judge(s) \/ autodemote(s) \/ \E p \in Admins : "health" \in sc.ops /\ BeginHealth(s, p)
Labelling ==
    \E p \in People, rows \in sc.batches, amend \in BOOLEAN :
        (amend => "amend" \in sc.ops) /\ AddLabels(p, rows, amend)
Administration ==
    \E p \in Admins :
        \/ \E g \in Graders, m \in Levels : "demote" \in sc.ops /\ demote(p, g, m)
        \/ \E m \in Levels : "default" \in sc.ops /\ (set_default(p, m) \/ demote(p, "*", m))
        \/ \E which \in sc.ops \cap {"pilot", "labels"}, keep \in 0..2 : Archive(p, which, keep)

Next ==
    \/ \E s \in sc.slots : Recording(s) \/ Promoting(s) \/ Watching(s)
    \/ Labelling
    \/ Administration
    \/ \E k \in BOOLEAN : "restart" \in sc.ops /\ Restart(k)

Spec == Init /\ [][Next]_vars

-----------------------------------------------------------------------------
TypeOK ==
    /\ kill \in BOOLEAN /\ pgone \in 0..Len(pilot) /\ lgone \in 0..Len(labels)
    /\ \A i \in DOMAIN pilot : pilot[i].mode \in Levels \cup {"policy"} /\ pilot[i].enforced \in Verdict
    /\ \A i, j \in DOMAIN pilot : pilot[i].artifact = pilot[j].artifact => i = j
    /\ \A k \in DOMAIN policy : policy[k].mode \in Levels /\ policy[k].grader \in Graders \cup {"*"}
    /\ \A i \in DOMAIN labels : labels[i].by \in People

\* The entries that put a grader in charge on the evidence alone.
Earned == {k \in DOMAIN policy : policy[k].action = "promote" /\ policy[k].mode = "enforce" /\ ~policy[k].overridden}
EvidenceOf(i, g) == IsEvidence(pilot[i]) /\ g \in DOMAIN pilot[i].outcomes /\ pilot[i].outcomes[g] = "fail"
LabeledByAnother(i, w, d) ==
    \E j \in DOMAIN labels : /\ labels[j].artifact = pilot[i].artifact /\ labels[j].by = w
                             /\ w # pilot[i].by /\ labels[j].defect \in d

\* A grader blocks releases on evidence only after it flagged at least MinSamples
\* different files that Verel measured itself, each labeled by somebody other than
\* the one who had it recorded, and was right often enough, whatever was recorded,
\* labeled, amended or promoted while the request was deciding, and whichever labels
\* were archived.  (Archived decisions are another matter: ScoredByOthers.)
EnforceIsEarned ==
    \A k \in Earned :
        \E F \in SUBSET {i \in DOMAIN pilot : EvidenceOf(i, policy[k].grader)} :
            /\ \A i, j \in F : pilot[i].content = pilot[j].content => i = j
            /\ \A i \in F : \E w \in People : LabeledByAnother(i, w, BOOLEAN)
            /\ Cardinality(F) >= MinSamples
            /\ wilson_reaches(Cardinality({i \in F : \E w \in People : LabeledByAnother(i, w, {TRUE})}),
                              Cardinality(F), MinPrecision)

\* "A person who recorded a decision cannot also be the one whose label scores it"
\* (_labels): the entries that rest on evidence have enough flagged files with a
\* label of somebody else.
LabeledFlags(g) == {i \in DOMAIN pilot : EvidenceOf(i, g) /\ \E w \in People : LabeledByAnother(i, w, BOOLEAN)}
ScoredByOthers ==
    \A k \in Earned : Cardinality({pilot[i].content : i \in LabeledFlags(policy[k].grader)}) >= MinSamples

\* It takes three: the admin who promotes and two reviewers who are somebody else,
\* each of whom labeled evidence that others had recorded.
TakesThree ==
    \A k \in Earned :
        Cardinality({w \in People \ {policy[k].by} :
            \E i \in DOMAIN pilot : IsEvidence(pilot[i]) /\ LabeledByAnother(i, w, BOOLEAN)}) >= MinLabelAuthors

\* Without an override a grader is watched before it is obeyed: some earlier
\* state of the policy had it at advisory.
SteppedUp ==
    \A k \in Earned : \E j \in 1..(k - 1) : mode_for(SubSeq(policy, 1, j), policy[k].grader) = "advisory"

\* Nothing is blocked unless an admin asked for it: a decision that blocked was
\* either taken in a mode only an admin may ask for, or had a report of a grader
\* that somebody had promoted to enforce by name.
BlockIsAuthorised ==
    \A i \in DOMAIN pilot : pilot[i].enforced = "fail" =>
        IF pilot[i].mode = "policy"
        THEN \E k \in DOMAIN policy : /\ policy[k].action = "promote" /\ policy[k].mode = "enforce"
                                      /\ policy[k].grader \in DOMAIN pilot[i].outcomes
        ELSE pilot[i].by \in Admins

\* The ground truth of an artifact is settled by its first label: whatever is
\* archived and however requests meet, only an amendment ever says otherwise.
LabelsStand ==
    \A i, j \in DOMAIN labels :
        (i < j /\ labels[i].artifact = labels[j].artifact) => labels[j].amend

\* What autodemote says it does (policy.py:283): it demotes graders that enforce.
AutodemoteGoesDown ==
    \A k \in DOMAIN policy : policy[k].action = "autodemote" =>
        mode_for(SubSeq(policy, 1, k - 1), policy[k].grader) = "enforce"
=============================================================================
