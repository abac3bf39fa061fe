----------------------------- MODULE PilotProofs -----------------------------
(***************************************************************************)
(* The pilot for any people, graders, logs and files: who may block, what  *)
(* enforcement rests on, and what a hot folder releases.  One section for  *)
(* each property, with its inductive invariant.                            *)
(***************************************************************************)
EXTENDS PilotRollout, HotFolder, FiniteSetTheorems, SequenceTheorems, WellFoundedInduction, TLAPS

-----------------------------------------------------------------------------
(* Logs.  A log is a sequence of what it holds, and an append keeps it.    *)

IsLog(q) == q \in Seq({q[i] : i \in DOMAIN q})

LEMMA AppendGrows ==
  ASSUME NEW q, IsLog(q), NEW e
  PROVE  LET new == Append(q, e)
         IN  /\ IsLog(new) /\ Len(q) \in Nat /\ Len(new) = Len(q) + 1
             /\ DOMAIN q = 1..Len(q) /\ DOMAIN new = 1..(Len(q) + 1)
             /\ new[Len(q) + 1] = e
             /\ \A i \in 1..Len(q) : new[i] = q[i]
<1> DEFINE S == {q[i] : i \in DOMAIN q} \cup {e}
           new == Append(q, e)
<1>1. q \in Seq(S)
  BY DEF IsLog
<1>2. new \in Seq(S) /\ Len(new) = Len(q) + 1 /\ Len(q) \in Nat
  BY <1>1
<1>3. DOMAIN q = 1..Len(q) /\ DOMAIN new = 1..(Len(q) + 1)
  BY <1>1, <1>2
<1>4. new[Len(q) + 1] = e /\ \A i \in 1..Len(q) : new[i] = q[i]
  BY <1>1
<1> HIDE DEF new
<1>5. \A x \in S : x \in {new[i] : i \in DOMAIN new}
  BY <1>2, <1>3, <1>4
<1>6. new \in Seq({new[i] : i \in DOMAIN new})
  BY <1>2, <1>3
<1> QED
  BY <1>2, <1>3, <1>4, <1>6 DEF IsLog, new

LEMMA EmptyLog == IsLog(<<>>)
BY DEF IsLog

LEMMA ConcatGrows ==
  ASSUME NEW q, IsLog(q), NEW add, IsLog(add)
  PROVE  LET new == q \o add
         IN  /\ IsLog(new) /\ Len(q) \in Nat /\ Len(add) \in Nat /\ Len(new) = Len(q) + Len(add)
             /\ DOMAIN q = 1..Len(q) /\ DOMAIN new = 1..(Len(q) + Len(add))
             /\ \A i \in 1..Len(q) : new[i] = q[i]
             /\ \A i \in 1..Len(add) : new[Len(q) + i] = add[i]
<1> DEFINE S == {q[i] : i \in DOMAIN q} \cup {add[i] : i \in DOMAIN add}
           new == q \o add
<1>1. q \in Seq(S) /\ add \in Seq(S)
  BY DEF IsLog
<1>2. new \in Seq(S) /\ Len(new) = Len(q) + Len(add) /\ Len(q) \in Nat /\ Len(add) \in Nat
  BY <1>1
<1>3. DOMAIN q = 1..Len(q) /\ DOMAIN new = 1..(Len(q) + Len(add)) /\ DOMAIN add = 1..Len(add)
  BY <1>1, <1>2
<1>4. /\ \A i \in 1..Len(q) : new[i] = q[i]
      /\ \A i \in 1..Len(add) : new[Len(q) + i] = add[i]
  BY <1>1
<1> HIDE DEF new
<1>6. new \in Seq({new[i] : i \in DOMAIN new})
  BY <1>2, <1>3
<1> QED
  BY <1>2, <1>3, <1>4, <1>6 DEF IsLog, new

LEMMA GreatestNatural ==
  ASSUME NEW S \in SUBSET Nat, S # {}, NEW n \in Nat, \A x \in S : x <= n
  PROVE  \E x \in S : \A y \in S : y <= x
<1> DEFINE R == OpToRel(<, Nat)
           T == {n - x : x \in S}
<1>1. IsWellFoundedOn(R, Nat)
  BY NatLessThanWellFounded
<1>2. \A x, y \in Nat : x < y => <<x, y>> \in R
  BY DEF OpToRel
<1>3. T \in SUBSET Nat /\ T # {}
  <2>1. \A x \in S : n - x \in Nat
    OBVIOUS
  <2> QED
    BY <2>1
<1> HIDE DEF R
<1>4. PICK t \in T : \A y \in T : ~(<<y, t>> \in R)
  BY <1>1, <1>3, WFMin
<1>5. PICK x \in S : t = n - x
  BY <1>4
<1>6. ASSUME NEW y \in S PROVE y <= x
  <2>1. n - y \in T /\ n - y \in Nat /\ t \in Nat
    BY <1>3, <1>4
  <2>2. ~(n - y < t)
    BY <2>1, <1>2, <1>4
  <2> QED
    BY <2>2, <1>5
<1> QED
  BY <1>5, <1>6

-----------------------------------------------------------------------------
(* Who may block.  A request carries what its caller was allowed to ask    *)
(* for, and only a promotion puts "enforce" into the policy log, under the *)
(* name of a grader.                                                       *)

PolicyEntry == [by : People \cup {"auto"}, grader : Graders \cup {"*"}, mode : Levels,
                action : {"promote", "demote", "set", "autodemote"}, overridden : BOOLEAN]
ByName(e) == e.mode = "enforce" => e.action = "promote" /\ e.grader # "*"

Asked(r) == (r.mode \in Levels \cup {"policy"}) /\ (r.mode = "enforce" => r.sub.by \in Admins)
RequestAllowed(r) ==
  /\ r.op = "record" => Asked(r) /\ r.known \in 0..Len(policy)
  /\ r.op \in {"evaluate", "review", "check"} =>
       r.by \in Admins /\ r.grader \in Graders /\ r.to \in {"advisory", "enforce"}
  /\ r.op = "check" => r.ready \in BOOLEAN
  /\ r.op = "review" => r.ready \in BOOLEAN
  /\ r.op = "append" => r.entry \in PolicyEntry /\ ByName(r.entry)
  /\ r.op = "demote" => r.bad \subseteq Graders

Authorised(d) ==
  d.enforced = "fail" =>
    IF d.mode = "policy"
    THEN \E k \in DOMAIN policy : /\ policy[k].action = "promote" /\ policy[k].mode = "enforce"
                                  /\ policy[k].grader \in DOMAIN d.outcomes
    ELSE d.by \in Admins

BlockInv ==
  /\ IsLog(pilot) /\ policy \in Seq(PolicyEntry)
  /\ \A k \in DOMAIN policy : ByName(policy[k])
  /\ DOMAIN req = sc.slots /\ \A s \in sc.slots : RequestAllowed(req[s])
  /\ \A i \in DOMAIN pilot : Authorised(pilot[i])

LEMMA NewestIsEntry ==
  ASSUME NEW P \in Seq(PolicyEntry), NEW g, Newest(P, g) # 0
  PROVE  Newest(P, g) \in DOMAIN P /\ P[Newest(P, g)].grader = g
<1> DEFINE at == {k \in DOMAIN P : P[k].grader = g}
<1>1. at # {} /\ Newest(P, g) = CHOOSE k \in at : \A j \in at : j <= k
  BY DEF Newest
<1>2. at \in SUBSET Nat /\ Len(P) \in Nat /\ \A k \in at : k <= Len(P)
  OBVIOUS
<1>3. \E k \in at : \A j \in at : j <= k
  BY <1>1, <1>2, GreatestNatural
<1>4. Newest(P, g) \in at
  BY <1>1, <1>3
<1> QED
  BY <1>4

LEMMA NothingHeardPasses == plain_gate({}) = "pass"
<1>1. Severities({}) = {}
  BY DEF Severities
<1>2. Absent({}, {}) = {} /\ Hollow({}, {}, NoAsk) = {}
  BY DEF Absent, Hollow
<1> QED
  BY <1>1, <1>2 DEF plain_gate, gate, Verdict_

Outcome(reports, m, P) == run_pilot(reports, m, P, kill, FALSE)

\* What blocks was asked for by the mode, or by the policy for one of the graders.
LEMMA WhoBlocks ==
  ASSUME NEW reports, NEW m \in Levels \cup {"policy"}, NEW P,
         Outcome(reports, m, P) = "fail"
  PROVE  /\ m = "policy" => \E r \in reports : mode_for(P, r.grader) = "enforce"
         /\ m # "policy" => m = "enforce"
<1>1. CASE m = "policy"
  <2>1. enforced_verdict(reports, P) = "fail"
    BY <1>1 DEF run_pilot, Outcome
  <2>2. plain_gate(Heard(reports, P, "enforce")) # "pass"
    BY <2>1 DEF enforced_verdict
  <2>3. Heard(reports, P, "enforce") # {}
    BY <2>2, NothingHeardPasses
  <2> QED
    BY <1>1, <2>3 DEF Heard
<1>2. CASE m # "policy"
  <2>1. apply_mode(would_be(reports, FALSE), m) = "fail"
    BY <1>2 DEF run_pilot, Outcome
  <2> QED
    BY <1>2, <2>1 DEF apply_mode, Levels, ModeRank
<1> QED
  BY <1>1, <1>2

LEMMA DecisionIsAuthorised ==
  ASSUME BlockInv, NEW r, r.op = "record", RequestAllowed(r)
  PROVE  Authorised(Decision(r.sub, r.mode, r.known))
<1> DEFINE P == SubSeq(policy, 1, r.known)
           d == Decision(r.sub, r.mode, r.known)
<1>1. /\ d.mode = r.mode /\ d.by = r.sub.by
      /\ d.enforced = Outcome(r.sub.reports, r.mode, P)
      /\ DOMAIN d.outcomes = {x.grader : x \in r.sub.reports}
  BY DEF Decision, Outcome
<1>2. Asked(r) /\ r.known \in 0..Len(policy)
  BY DEF RequestAllowed
<1>3. P \in Seq(PolicyEntry) /\ DOMAIN P = 1..r.known /\ DOMAIN policy = 1..Len(policy)
      /\ \A k \in 1..r.known : P[k] = policy[k]
  BY <1>2 DEF BlockInv
<1> HIDE DEF P, d
<1>0. d.enforced = "fail" =>
        /\ r.mode = "policy" => \E x \in r.sub.reports : mode_for(P, x.grader) = "enforce"
        /\ r.mode # "policy" => r.mode = "enforce"
  <2>1. r.mode \in Levels \cup {"policy"}
    BY <1>2 DEF Asked
  <2>2. SUFFICES ASSUME d.enforced = "fail"
                 PROVE  /\ r.mode = "policy" => \E x \in r.sub.reports : mode_for(P, x.grader) = "enforce"
                        /\ r.mode # "policy" => r.mode = "enforce"
    OBVIOUS
  <2>3. Outcome(r.sub.reports, r.mode, P) = "fail"
    BY <1>1, <2>2
  <2> QED
    BY <2>1, <2>3, WhoBlocks
<1>4. SUFFICES ASSUME d.enforced = "fail", r.mode = "policy"
               PROVE  \E k \in DOMAIN policy : /\ policy[k].action = "promote" /\ policy[k].mode = "enforce"
                                               /\ policy[k].grader \in DOMAIN d.outcomes
  <2>1. Authorised(d)
    BY <1>0, <1>1, <1>2 DEF Authorised, Asked
  <2> QED
    BY <2>1 DEF d
<1>5. PICK x \in r.sub.reports : mode_for(P, x.grader) = "enforce"
  BY <1>0, <1>4
<1>6. \A k \in DOMAIN P : ByName(P[k])
  BY <1>2, <1>3 DEF BlockInv
<1>7. Newest(P, x.grader) # 0
  <2>1. SUFFICES ASSUME Newest(P, x.grader) = 0 PROVE FALSE
    OBVIOUS
  <2>2. Newest(P, "*") # 0 /\ P[Newest(P, "*")].mode = "enforce"
    BY <2>1, <1>5 DEF mode_for
  <2>3. Newest(P, "*") \in DOMAIN P /\ P[Newest(P, "*")].grader = "*"
    BY <1>3, <2>2, NewestIsEntry
  <2> QED
    BY <1>6, <2>2, <2>3 DEF ByName
<1>8. Newest(P, x.grader) \in DOMAIN P /\ P[Newest(P, x.grader)].grader = x.grader
      /\ P[Newest(P, x.grader)].mode = "enforce"
  BY <1>3, <1>5, <1>7, NewestIsEntry DEF mode_for
<1>9. P[Newest(P, x.grader)].action = "promote"
  BY <1>6, <1>8 DEF ByName
<1> QED
  BY <1>1, <1>2, <1>3, <1>5, <1>8, <1>9

\* What a step may do: add an entry that may be there, put a request that may be
\* made, record a decision that may be taken.
AddsEntry == policy' = policy \/ \E e \in PolicyEntry : ByName(e) /\ policy' = Append(policy, e)
PutsRequest ==
  \/ req' = req
  \/ req' = [s \in sc.slots |-> None]
  \/ \E s \in sc.slots : \E r : RequestAllowed(r) /\ req' = [req EXCEPT ![s] = r]
RecordsDecision == pilot' = pilot \/ \E d : Authorised(d) /\ pilot' = Append(pilot, d)

LEMMA NoneIsAllowed == RequestAllowed(None)
BY DEF RequestAllowed, None

LEMMA BlockKept ==
  ASSUME BlockInv, sc' = sc, AddsEntry, PutsRequest, RecordsDecision
  PROVE  BlockInv'
<1>1. /\ policy' \in Seq(PolicyEntry) /\ Len(policy) <= Len(policy')
      /\ DOMAIN policy = 1..Len(policy) /\ DOMAIN policy \subseteq DOMAIN policy'
      /\ \A k \in DOMAIN policy : policy'[k] = policy[k]
      /\ \A k \in DOMAIN policy' : ByName(policy'[k])
  <2>1. policy \in Seq(PolicyEntry) /\ \A k \in DOMAIN policy : ByName(policy[k])
    BY DEF BlockInv
  <2>2. CASE policy' = policy
    BY <2>1, <2>2
  <2>3. ASSUME NEW e \in PolicyEntry, ByName(e), policy' = Append(policy, e) PROVE <1>1!:
    <3>1. /\ policy' \in Seq(PolicyEntry) /\ Len(policy') = Len(policy) + 1 /\ Len(policy) \in Nat
          /\ DOMAIN policy = 1..Len(policy) /\ DOMAIN policy' = 1..(Len(policy) + 1)
          /\ policy'[Len(policy) + 1] = e /\ \A k \in 1..Len(policy) : policy'[k] = policy[k]
      BY <2>1, <2>3
    <3> QED
      BY <2>1, <2>3, <3>1
  <2> QED
    BY <2>2, <2>3 DEF AddsEntry
<1>2. ASSUME NEW r, RequestAllowed(r) PROVE RequestAllowed(r)'
  <2>1. Len(policy) \in Nat /\ Len(policy') \in Nat
    BY <1>1 DEF BlockInv
  <2> QED
    BY <1>1, <1>2, <2>1 DEF RequestAllowed, Asked
<1>3. ASSUME NEW d, Authorised(d) PROVE Authorised(d)'
  BY <1>1, <1>3 DEF Authorised
<1>4. DOMAIN req' = sc.slots /\ \A s \in sc.slots : RequestAllowed(req'[s])
  <2>1. DOMAIN req = sc.slots /\ \A s \in sc.slots : RequestAllowed(req[s])
    BY DEF BlockInv
  <2>2. CASE req' = req
    BY <2>1, <2>2
  <2>3. CASE req' = [s \in sc.slots |-> None]
    BY <2>3, NoneIsAllowed
  <2>4. ASSUME NEW s \in sc.slots, NEW r, RequestAllowed(r), req' = [req EXCEPT ![s] = r] PROVE <1>4!:
    BY <2>1, <2>4
  <2> QED
    BY <2>2, <2>3, <2>4 DEF PutsRequest
<1>5. IsLog(pilot') /\ \A i \in DOMAIN pilot' : Authorised(pilot'[i])
  <2>1. IsLog(pilot) /\ \A i \in DOMAIN pilot : Authorised(pilot[i])
    BY DEF BlockInv
  <2>2. CASE pilot' = pilot
    BY <2>1, <2>2
  <2>3. ASSUME NEW d, Authorised(d), pilot' = Append(pilot, d) PROVE <1>5!:
    BY <2>1, <2>3, AppendGrows
  <2> QED
    BY <2>2, <2>3 DEF RecordsDecision
<1>6. (DOMAIN req)' = sc'.slots /\ \A s \in sc'.slots : RequestAllowed(req[s])'
  BY <1>2, <1>4
<1>7. IsLog(pilot)' /\ \A i \in DOMAIN pilot' : Authorised(pilot[i])'
  BY <1>3, <1>5 DEF IsLog
<1> QED
  BY <1>1, <1>6, <1>7 DEF BlockInv

LEMMA BlockStep == BlockInv /\ [Next]_vars => BlockInv'
<1> SUFFICES ASSUME BlockInv, [Next]_vars PROVE BlockInv'
  OBVIOUS
<1> USE DEF PutsRequest
<1>0. /\ \A s \in sc.slots : RequestAllowed(req[s])
      /\ Len(policy) \in Nat /\ DOMAIN req = sc.slots
  BY DEF BlockInv
<1>1. ASSUME NEW s \in sc.slots, NEW sub \in sc.subs, NEW m \in sc.modes, BeginRecord(s, sub, m) PROVE BlockInv'
  <2>1. RequestAllowed([op |-> "record", sub |-> sub, mode |-> m, known |-> Len(policy)])
    BY <1>0, <1>1 DEF BeginRecord, RequestAllowed, Asked
  <2> QED
    BY <1>1, <2>1, BlockKept DEF BeginRecord, Open, AddsEntry, RecordsDecision
<1>2. ASSUME NEW s \in sc.slots, Record(s) PROVE BlockInv'
  <2>1. Authorised(Decision(req[s].sub, req[s].mode, req[s].known))
    BY <1>0, <1>2, DecisionIsAuthorised DEF Record
  <2> QED
    BY <1>2, <2>1, NoneIsAllowed, BlockKept DEF Record, Close, AddsEntry, RecordsDecision
<1>3. ASSUME NEW s \in sc.slots, NEW p \in Admins, NEW g \in Graders, NEW to \in {"advisory", "enforce"},
             NEW o \in BOOLEAN, BeginPromote(s, p, g, to, o) PROVE BlockInv'
  <2>1. RequestAllowed([op |-> "evaluate", by |-> p, grader |-> g, to |-> to, override |-> o, recs |-> _evidence_records])
    BY DEF RequestAllowed
  <2> QED
    BY <1>3, <2>1, BlockKept DEF BeginPromote, Open, AddsEntry, RecordsDecision
<1>4. ASSUME NEW s \in sc.slots, _evaluation(s) PROVE BlockInv'
  <2> DEFINE r == req[s]
             b == evaluate(pilot, r.recs, _labels, r.grader)
             new == [op |-> "review", by |-> r.by, grader |-> r.grader, to |-> r.to, override |-> r.override, ready |-> b]
  <2>1. r.op = "evaluate" /\ RequestAllowed(r)
    BY <1>0, <1>4 DEF _evaluation
  <2>2. b \in BOOLEAN
    BY DEF evaluate, _ready
  <2> HIDE DEF b, r
  <2>3. RequestAllowed(new)
    BY <2>1, <2>2 DEF RequestAllowed
  <2>4. req' = [req EXCEPT ![s] = new]
    BY <1>4 DEF _evaluation, Goto, b, r
  <2> HIDE DEF new
  <2> QED
    BY <1>4, <2>3, <2>4, BlockKept DEF _evaluation, AddsEntry, RecordsDecision
<1>5. ASSUME NEW s \in sc.slots, CountReviewers(s) PROVE BlockInv'
  <2> DEFINE r == req[s]
             n == _reviewers(r.by)
             new == [op |-> "check", by |-> r.by, grader |-> r.grader, to |-> r.to, override |-> r.override,
                     ready |-> r.ready, reviewers |-> n]
  <2>1. r.op = "review" /\ RequestAllowed(r)
    BY <1>0, <1>5 DEF CountReviewers
  <2> HIDE DEF r, n
  <2>3. RequestAllowed(new)
    BY <2>1 DEF RequestAllowed
  <2>4. req' = [req EXCEPT ![s] = new]
    BY <1>5 DEF CountReviewers, Goto, n, r
  <2> HIDE DEF new
  <2> QED
    BY <1>5, <2>3, <2>4, BlockKept DEF CountReviewers, AddsEntry, RecordsDecision
<1>6. ASSUME NEW s \in sc.slots, CheckPromote(s) PROVE BlockInv'
  <2> DEFINE r == req[s]
             now == mode_for(policy, r.grader)
             over == NeedsOverride(now, r.to, r.ready, r.reviewers, MinLabelAuthors)
             e == Entry(r.by, r.grader, r.to, "promote", over)
             new == [op |-> "append", entry |-> e]
  <2>1. r.op = "check" /\ RequestAllowed(r)
    BY <1>0, <1>6 DEF CheckPromote
  <2>2. over \in BOOLEAN
    BY <2>1 DEF NeedsOverride, RequestAllowed
  <2>3. req' = [req EXCEPT ![s] = new] \/ req' = [req EXCEPT ![s] = None]
    BY <1>6 DEF CheckPromote, Goto, Close
  <2>4. sc' = sc /\ AddsEntry /\ RecordsDecision
    BY <1>6 DEF CheckPromote, AddsEntry, RecordsDecision
  <2> HIDE DEF over, r
  <2>5. e \in PolicyEntry /\ ByName(e)
    BY <2>1, <2>2, GradersAreNamed, AdminsArePeople DEF Entry, PolicyEntry, ByName, RequestAllowed, Levels, ModeRank
  <2> HIDE DEF e
  <2>6. RequestAllowed(new)
    BY <2>5 DEF RequestAllowed
  <2> HIDE DEF new
  <2> QED
    BY <2>3, <2>4, <2>6, NoneIsAllowed, BlockKept
<1>7. ASSUME NEW s \in sc.slots, AppendEntry(s) PROVE BlockInv'
  <2>1. req[s].entry \in PolicyEntry /\ ByName(req[s].entry)
    BY <1>0, <1>7 DEF AppendEntry, RequestAllowed
  <2> QED
    BY <1>7, <2>1, NoneIsAllowed, BlockKept DEF AppendEntry, _add, Close, AddsEntry, RecordsDecision
<1>8. ASSUME NEW s \in sc.slots, NEW p \in Admins, BeginHealth(s, p) PROVE BlockInv'
  <2>1. RequestAllowed([op |-> "health", recs |-> _evidence_records, ls |-> _labels])
    BY DEF RequestAllowed
  <2> QED
    BY <1>8, <2>1, BlockKept DEF BeginHealth, Open, AddsEntry, RecordsDecision
<1>9. ASSUME NEW s \in sc.slots, Judge(s) PROVE BlockInv'
  <2> DEFINE bad == {g \in Graders : /\ HasOwnEntry(g) /\ mode_for(policy, g) = "enforce"
                                     /\ ~healthy(pilot, req[s].recs, req[s].ls, g)}
             new == [op |-> "demote", bad |-> bad]
  <2>1. bad \subseteq Graders
    OBVIOUS
  <2>2. req' = [req EXCEPT ![s] = new]
    BY <1>9 DEF Judge, Goto
  <2> HIDE DEF bad
  <2>3. RequestAllowed(new)
    BY <2>1 DEF RequestAllowed
  <2> HIDE DEF new
  <2> QED
    BY <1>9, <2>2, <2>3, BlockKept DEF Judge, AddsEntry, RecordsDecision
<1>10. ASSUME NEW s \in sc.slots, autodemote(s) PROVE BlockInv'
  <2>1. req[s].bad \subseteq Graders
    BY <1>0, <1>10 DEF autodemote, RequestAllowed
  <2>2. CASE req[s].bad = {} /\ Close(s) /\ UNCHANGED policy
    BY <1>10, <2>2, NoneIsAllowed, BlockKept DEF autodemote, Close, AddsEntry, RecordsDecision
  <2>3. ASSUME NEW g \in req[s].bad, _add(Entry("auto", g, "advisory", "autodemote", FALSE)),
               Goto(s, [op |-> "demote", bad |-> req[s].bad \ {g}]) PROVE BlockInv'
    <3>1. LET e == Entry("auto", g, "advisory", "autodemote", FALSE) IN e \in PolicyEntry /\ ByName(e)
      BY <2>1 DEF Entry, PolicyEntry, ByName, Levels, ModeRank
    <3>2. RequestAllowed([op |-> "demote", bad |-> req[s].bad \ {g}])
      BY <2>1 DEF RequestAllowed
    <3> QED
      BY <1>10, <2>3, <3>1, <3>2, BlockKept DEF autodemote, _add, Goto, AddsEntry, RecordsDecision
  <2> QED
    BY <1>10, <2>2, <2>3 DEF autodemote
<1>11. ASSUME NEW p \in People, NEW rows \in sc.batches, NEW amend \in BOOLEAN, AddLabels(p, rows, amend) PROVE BlockInv'
  BY <1>11, BlockKept DEF AddLabels, AddsEntry, RecordsDecision
<1>12. ASSUME NEW p \in Admins, NEW g \in Graders \cup {"*"}, NEW m \in Levels, demote(p, g, m) PROVE BlockInv'
  <2>1. LET e == Entry(p, g, m, "demote", FALSE) IN e \in PolicyEntry /\ ByName(e)
    BY <1>12, AdminsArePeople DEF demote, MayDemoteTo, Entry, PolicyEntry, ByName
  <2> QED
    BY <1>12, <2>1, BlockKept DEF demote, _add, AddsEntry, RecordsDecision
<1>13. ASSUME NEW p \in Admins, NEW m \in Levels, set_default(p, m) PROVE BlockInv'
  <2>1. LET e == Entry(p, "*", m, "set", FALSE) IN e \in PolicyEntry /\ ByName(e)
    BY <1>13, AdminsArePeople DEF set_default, MaySetDefault, Entry, PolicyEntry, ByName
  <2> QED
    BY <1>13, <2>1, BlockKept DEF set_default, _add, AddsEntry, RecordsDecision
<1>14. ASSUME NEW p \in Admins, NEW which, NEW keep, Archive(p, which, keep) PROVE BlockInv'
  BY <1>14, BlockKept DEF Archive, AddsEntry, RecordsDecision
<1>15. ASSUME NEW k, Restart(k) PROVE BlockInv'
  BY <1>15, BlockKept DEF Restart, AddsEntry, RecordsDecision
<1>16. CASE UNCHANGED vars
  BY <1>16, BlockKept DEF vars, AddsEntry, RecordsDecision
<1> QED
  BY <1>1, <1>2, <1>3, <1>4, <1>5, <1>6, <1>7, <1>8, <1>9, <1>10, <1>11, <1>12, <1>13, <1>14, <1>15, <1>16
     DEF Next, Recording, Promoting, Watching, Labelling, Administration

LEMMA BlockStart == Init => BlockInv
BY EmptyLog, NoneIsAllowed DEF Init, BlockInv

\* Nothing is blocked but by a mode only an admin may ask for or by a grader that
\* somebody promoted to enforce by name, however requests, restarts and archives meet.
THEOREM BlocksAreAuthorised == Spec => []BlockIsAuthorised
<1>1. BlockInv => BlockIsAuthorised
  BY DEF BlockInv, BlockIsAuthorised, Authorised
<1> QED
  BY BlockStart, BlockStep, <1>1, PTL DEF Spec

-----------------------------------------------------------------------------
(* What enforcement rests on.  An evaluation finds a set of flagged files;  *)
(* the logs only grow and nobody's label is taken back, so what it found   *)
(* stays true until the entry is appended and for ever after.               *)

Right(F) == {i \in F : \E v \in People : LabeledByAnother(i, v, {TRUE})}
Proves(F, g) ==
  /\ F \subseteq {i \in DOMAIN pilot : EvidenceOf(i, g)}
  /\ \A i, j \in F : pilot[i].content = pilot[j].content => i = j
  /\ \A i \in F : \E v \in People : LabeledByAnother(i, v, BOOLEAN)
  /\ Cardinality(F) >= MinSamples
  /\ wilson_reaches(Cardinality(Right(F)), Cardinality(F), MinPrecision)
EarnedBy(g) == \E F \in SUBSET DOMAIN pilot : Proves(F, g)

LogsAreSane ==
  /\ IsLog(pilot) /\ IsLog(labels) /\ pgone \in Nat /\ lgone \in Nat /\ sc \in Scenarios
  /\ \A i, j \in DOMAIN pilot : pilot[i].artifact = pilot[j].artifact => i = j
  /\ \A i \in DOMAIN pilot : IsEvidence(pilot[i]) => pilot[i].content # ""
  /\ \A j \in DOMAIN labels : labels[j].by \in People /\ labels[j].defect \in BOOLEAN

\* What a request in flight already rests on.
RestsOnEvidence(r) ==
  /\ r.op = "record" => r.sub \in sc.subs
  /\ r.op = "evaluate" => r.recs \subseteq _evidence_records
  /\ r.op \in {"review", "check"} /\ r.ready = TRUE => EarnedBy(r.grader)
  /\ r.op = "append" /\ r.entry.mode = "enforce" /\ r.entry.overridden = FALSE => EarnedBy(r.entry.grader)

EarnInv ==
  /\ LogsAreSane /\ IsLog(policy)
  /\ \A s \in sc.slots : RestsOnEvidence(req[s])
  /\ \A k \in Earned : EarnedBy(policy[k].grader)

LEMMA SquaresGrow ==
  ASSUME NEW x \in Nat, NEW y \in Nat, x <= y
  PROVE  x * x <= y * y
<1>1. x * x <= x * y
  OBVIOUS
<1>2. x * y <= y * y
  OBVIOUS
<1>3. x * x \in Nat /\ x * y \in Nat /\ y * y \in Nat
  OBVIOUS
<1> QED
  BY <1>1, <1>2, <1>3

\* More hits in as many trials reach the bound if fewer did.
LEMMA WilsonGrows ==
  ASSUME NEW a \in Nat, NEW b \in Nat, a <= b, NEW n \in Nat, wilson_reaches(a, n, MinPrecision)
  PROVE  wilson_reaches(b, n, MinPrecision)
<1> DEFINE q1 == MinPrecision[1]
           q2 == MinPrecision[2]
           x == a * q2 - q1 * n
           y == b * q2 - q1 * n
           r == 38415 * q1 * (q2 - q1) * n
<1>1. q1 \in Nat /\ q2 \in Nat
  BY PolicyNumbers
<1>2. n > 0 /\ a * q2 >= q1 * n /\ 10000 * x * x >= r
  BY DEF wilson_reaches
<1>3. b * q2 >= a * q2 /\ a * q2 \in Nat /\ b * q2 \in Nat /\ q1 * n \in Nat
  BY <1>1
<1> HIDE DEF q1, q2
<1>4. x \in Nat /\ y \in Nat /\ x <= y
  BY <1>2, <1>3
<1>5. r \in Int
  BY <1>1
<1> HIDE DEF x, y, r
<1>6. x * x <= y * y /\ x * x \in Nat /\ y * y \in Nat
  BY <1>4, SquaresGrow
<1>7. 10000 * x * x = 10000 * (x * x) /\ 10000 * y * y = 10000 * (y * y)
  BY <1>4
<1>8. 10000 * y * y >= r
  BY <1>2, <1>5, <1>6, <1>7
<1>9. b * q2 >= q1 * n
  BY <1>1, <1>2, <1>3
<1> QED
  BY <1>2, <1>8, <1>9 DEF wilson_reaches, q1, q2, y, r

LEMMA LogDomains ==
  ASSUME LogsAreSane
  PROVE  /\ Len(pilot) \in Nat /\ DOMAIN pilot = 1..Len(pilot)
         /\ Len(labels) \in Nat /\ DOMAIN labels = 1..Len(labels)
         /\ IsFiniteSet(DOMAIN pilot)
<1>1. Len(pilot) \in Nat /\ DOMAIN pilot = 1..Len(pilot) /\ Len(labels) \in Nat /\ DOMAIN labels = 1..Len(labels)
  BY AppendGrows DEF LogsAreSane
<1> QED
  BY <1>1, FS_Interval

LEMMA LiveIsThere ==
  ASSUME LogsAreSane
  PROVE  LiveDecisions \subseteq DOMAIN pilot /\ LiveLabels \subseteq DOMAIN labels
<1>1. pgone \in Nat /\ lgone \in Nat
  BY DEF LogsAreSane
<1>2. ASSUME NEW i \in LiveDecisions PROVE i \in DOMAIN pilot
  BY <1>1, LogDomains DEF LiveDecisions
<1>3. ASSUME NEW i \in LiveLabels PROVE i \in DOMAIN labels
  BY <1>1, LogDomains DEF LiveLabels
<1> QED
  BY <1>2, <1>3

\* A usable label of live evidence is a label of somebody else.
LEMMA LabelsAreOthers ==
  ASSUME LogsAreSane, NEW i \in LiveDecisions, NEW l \in _labels, l.artifact = pilot[i].artifact
  PROVE  l.defect \in BOOLEAN /\ \E v \in People : LabeledByAnother(i, v, {l.defect})
<1>1. PICK k \in current_labels : l = LabelOf(k) /\ Recorder(LiveDecisions, labels[k].artifact) # labels[k].by
  BY DEF _labels
<1>2. k \in DOMAIN labels /\ i \in DOMAIN pilot /\ LiveDecisions \subseteq DOMAIN pilot /\ LiveDecisions \subseteq Nat
  BY <1>1, LogDomains, LiveIsThere DEF current_labels
<1>3. l.artifact = labels[k].artifact /\ l.defect = labels[k].defect
  BY <1>1 DEF LabelOf
<1> DEFINE a == labels[k].artifact
<1>4. \A j \in LiveDecisions : pilot[j].artifact = a => j = i
  BY <1>2, <1>3 DEF LogsAreSane
<1>5. First(LiveDecisions, a) = i
  <2> DEFINE Is(x) == pilot[x].artifact = a /\ \A j \in LiveDecisions : pilot[j].artifact = a => x <= j
  <2>1. Is(i)
    BY <1>2, <1>3, <1>4
  <2>2. \A x \in LiveDecisions : Is(x) => x = i
    BY <1>4
  <2>3. First(LiveDecisions, a) = CHOOSE x \in LiveDecisions : Is(x)
    BY DEF First
  <2> HIDE DEF Is
  <2> QED
    BY <2>1, <2>2, <2>3
<1>6. Recorder(LiveDecisions, a) = pilot[i].by
  BY <1>3, <1>5 DEF Recorder, HasRecord
<1>7. labels[k].by \in People /\ labels[k].defect \in BOOLEAN
  BY <1>2 DEF LogsAreSane
<1>8. LabeledByAnother(i, labels[k].by, {l.defect})
  BY <1>1, <1>2, <1>3, <1>6 DEF LabeledByAnother
<1> QED
  BY <1>3, <1>7, <1>8

\* An evaluation that finds a grader ready found what its enforcement rests on.
LEMMA EvaluationEarns ==
  ASSUME LogsAreSane, NEW ev \in SUBSET _evidence_records, NEW g, evaluate(pilot, ev, _labels, g)
  PROVE  EarnedBy(g)
<1> DEFINE at == Ordered(pilot, ev, _labels)
           F == With(pilot, at, g, {"fail"})
           quiet == With(pilot, at, g, {"pass", "warn"})
           B == Bad(pilot, F, _labels)
           fn == Cardinality(Bad(pilot, quiet, _labels))
           broken == Cardinality(With(pilot, at, g, {"errored"}))
<1>1. _ready(Cardinality(B), Cardinality(F) - Cardinality(B), Cardinality(quiet) - fn, fn, broken)
  BY DEF evaluate
<1>2. ev \subseteq LiveDecisions /\ LiveDecisions \subseteq DOMAIN pilot /\ \A i \in ev : IsEvidence(pilot[i])
  BY LiveIsThere DEF _evidence_records
<1>3. at \subseteq Scored(pilot, ev) /\ Scored(pilot, ev) \subseteq ev
      /\ \A i \in at : IsLabeled(pilot[i], _labels)
  BY DEF Ordered, Scored
<1>4. F \subseteq at /\ B \subseteq F /\ \A i \in F : g \in DOMAIN pilot[i].outcomes /\ pilot[i].outcomes[g] = "fail"
  BY DEF With, Bad
<1>4a. at \subseteq DOMAIN pilot /\ at \subseteq LiveDecisions
  BY <1>2, <1>3
<1>5. \A i \in at : \E l \in _labels : l.artifact = pilot[i].artifact
  BY <1>3 DEF IsLabeled
<1>6. \A i \in B : \E l \in _labels : l.artifact = pilot[i].artifact /\ l.defect
  BY DEF Bad, IsDefect
<1>7. \A i, j \in at : pilot[i].content = pilot[j].content => i = j
  <2>1. ASSUME NEW i \in at, NEW j \in at, j < i, pilot[i].content = pilot[j].content PROVE FALSE
    <3>1. pilot[i].content # ""
      BY <1>2, <1>3 DEF LogsAreSane
    <3> QED
      BY <1>3, <2>1, <3>1 DEF Scored
  <2>2. at \subseteq Nat
    BY <1>4a, LogDomains
  <2> QED
    BY <2>1, <2>2
<1> HIDE DEF at, F, B, fn, broken, quiet
<1>8. F \in SUBSET DOMAIN pilot /\ \A i \in F : EvidenceOf(i, g)
  BY <1>2, <1>3, <1>4 DEF EvidenceOf
<1>9. IsFiniteSet(F) /\ IsFiniteSet(B) /\ Cardinality(F) \in Nat /\ Cardinality(B) \in Nat
  BY <1>4, <1>8, LogDomains, FS_Subset, FS_CardinalityType
<1>10. \A i \in F : \E v \in People : LabeledByAnother(i, v, BOOLEAN)
  <2>1. ASSUME NEW i \in F PROVE \E v \in People : LabeledByAnother(i, v, BOOLEAN)
    <3>1. PICK l \in _labels : l.artifact = pilot[i].artifact
      BY <1>4, <1>5, <2>1
    <3>2. l.defect \in BOOLEAN /\ \E v \in People : LabeledByAnother(i, v, {l.defect})
      BY <1>4, <1>4a, <3>1, LabelsAreOthers
    <3> QED
      BY <3>2 DEF LabeledByAnother
  <2> QED
    BY <2>1
<1>11. B \subseteq Right(F)
  <2>1. ASSUME NEW i \in B PROVE i \in Right(F)
    <3>1. PICK l \in _labels : l.artifact = pilot[i].artifact /\ l.defect
      BY <1>6, <2>1
    <3>2. l.defect \in BOOLEAN /\ \E v \in People : LabeledByAnother(i, v, {l.defect})
      BY <1>4, <1>4a, <3>1, LabelsAreOthers
    <3>3. l.defect = TRUE
      BY <3>1, <3>2
    <3>4. \E v \in People : LabeledByAnother(i, v, {TRUE})
      BY <3>2, <3>3
    <3> QED
      BY <1>4, <3>4 DEF Right
  <2> QED
    BY <2>1
<1>12. Right(F) \subseteq F
  BY DEF Right
<1>13. Cardinality(B) <= Cardinality(Right(F)) /\ Cardinality(Right(F)) \in Nat
  BY <1>9, <1>11, <1>12, FS_Subset, FS_CardinalityType
<1>14. Cardinality(F) >= MinSamples /\ wilson_reaches(Cardinality(B), Cardinality(F), MinPrecision)
  <2>1. Cardinality(B) + (Cardinality(F) - Cardinality(B)) = Cardinality(F)
    BY <1>9
  <2> QED
    BY <1>1, <2>1 DEF _ready
<1>15. wilson_reaches(Cardinality(Right(F)), Cardinality(F), MinPrecision)
  BY <1>9, <1>13, <1>14, WilsonGrows
<1>16. \A i, j \in F : pilot[i].content = pilot[j].content => i = j
  BY <1>4, <1>7
<1>17. Proves(F, g)
  BY <1>8, <1>10, <1>14, <1>15, <1>16 DEF Proves
<1> QED
  BY <1>8, <1>17 DEF EarnedBy

Extends(q, r) == DOMAIN q \subseteq DOMAIN r /\ \A i \in DOMAIN q : r[i] = q[i]
EvidenceStays == /\ LogsAreSane' /\ sc' = sc
                 /\ Extends(pilot, pilot') /\ Extends(labels, labels')

LEMMA EarnedStays ==
  ASSUME LogsAreSane, EvidenceStays, NEW g, EarnedBy(g)
  PROVE  EarnedBy(g)'
<1>1. PICK F \in SUBSET DOMAIN pilot : Proves(F, g)
  BY DEF EarnedBy
<1>2. Extends(pilot, pilot') /\ Extends(labels, labels') /\ LogsAreSane'
  BY DEF EvidenceStays
<1>3. F \in SUBSET DOMAIN pilot' /\ \A i \in F : pilot'[i] = pilot[i] /\ EvidenceOf(i, g)
  BY <1>1, <1>2 DEF Extends, Proves
<1>4. \A i \in F : EvidenceOf(i, g)'
  BY <1>3 DEF EvidenceOf
<1>5. ASSUME NEW i \in F, NEW v \in People, NEW d, LabeledByAnother(i, v, d) PROVE LabeledByAnother(i, v, d)'
  BY <1>2, <1>3, <1>5 DEF LabeledByAnother, Extends
<1>6. \A i \in F : (\E v \in People : LabeledByAnother(i, v, BOOLEAN))'
  BY <1>1, <1>5 DEF Proves
<1>7. Right(F) \subseteq Right(F)' /\ Right(F)' \subseteq F
  BY <1>5 DEF Right
<1>8. IsFiniteSet(F) /\ Cardinality(F) \in Nat
  BY LogDomains, FS_Subset, FS_CardinalityType
<1>9. /\ Cardinality(Right(F)) \in Nat /\ Cardinality(Right(F)') \in Nat
      /\ Cardinality(Right(F)) <= Cardinality(Right(F)')
  BY <1>7, <1>8, FS_Subset, FS_CardinalityType
<1>10. wilson_reaches(Cardinality(Right(F)'), Cardinality(F), MinPrecision)
  BY <1>1, <1>8, <1>9, WilsonGrows DEF Proves
<1>11. /\ Cardinality(F) >= MinSamples
       /\ \A i, j \in F : pilot'[i].content = pilot'[j].content => i = j
  BY <1>1, <1>3 DEF Proves
<1>12. F \subseteq {i \in DOMAIN pilot' : EvidenceOf(i, g)'}
  BY <1>3, <1>4
<1>13. Proves(F, g)'
  BY <1>6, <1>10, <1>11, <1>12 DEF Proves
<1> QED
  BY <1>3, <1>13 DEF EarnedBy

\* What a step may do, and that it keeps the invariant.
Deserved(e) == e.mode = "enforce" /\ e.overridden = FALSE => EarnedBy(e.grader)
AddsDeserved == policy' = policy \/ \E e \in PolicyEntry : Deserved(e) /\ policy' = Append(policy, e)
PutsProven ==
  \/ req' = req
  \/ req' = [s \in sc.slots |-> None]
  \/ \E s \in sc.slots : \E r : RestsOnEvidence(r) /\ req' = [req EXCEPT ![s] = r]

LEMMA NoneRestsOnNothing == RestsOnEvidence(None)
BY DEF RestsOnEvidence, None

LEMMA EarnKept ==
  ASSUME BlockInv, EarnInv, EvidenceStays, pgone' = pgone, AddsDeserved, PutsProven
  PROVE  EarnInv'
<1>0. LogsAreSane /\ LogsAreSane' /\ sc' = sc
  BY DEF EarnInv, EvidenceStays
<1>1. _evidence_records \subseteq _evidence_records'
  <2>1. Len(pilot) \in Nat /\ Len(pilot') \in Nat /\ Len(pilot) <= Len(pilot') /\ pgone \in Nat
    <3>1. Len(pilot) \in Nat /\ DOMAIN pilot = 1..Len(pilot)
      BY <1>0, LogDomains
    <3>2. Len(pilot') \in Nat /\ DOMAIN pilot' = 1..Len(pilot')
      BY <1>0, AppendGrows DEF LogsAreSane, IsLog
    <3>3. DOMAIN pilot \subseteq DOMAIN pilot'
      BY DEF EvidenceStays, Extends
    <3>4. ASSUME Len(pilot) > Len(pilot') PROVE FALSE
      <4>1. Len(pilot) \in DOMAIN pilot
        BY <3>1, <3>2, <3>4
      <4> QED
        BY <3>2, <3>3, <3>4, <4>1
    <3>5. pgone \in Nat
      BY <1>0 DEF LogsAreSane
    <3> QED
      BY <3>1, <3>2, <3>4, <3>5
  <2>2. ASSUME NEW i \in _evidence_records PROVE i \in (pgone + 1)..Len(pilot') /\ IsEvidence(pilot'[i])
    <3>1. i \in (pgone + 1)..Len(pilot) /\ IsEvidence(pilot[i]) /\ i \in DOMAIN pilot
      BY <1>0, LiveIsThere DEF _evidence_records, LiveDecisions
    <3> QED
      BY <2>1, <3>1 DEF EvidenceStays, Extends
  <2> QED
    BY <2>2 DEF _evidence_records, LiveDecisions
<1>2. ASSUME NEW g, EarnedBy(g) PROVE EarnedBy(g)'
  BY <1>0, <1>2, EarnedStays
<1>3. ASSUME NEW r, RestsOnEvidence(r) PROVE RestsOnEvidence(r)'
  <2>1. (r.op = "evaluate" => r.recs \subseteq _evidence_records')
    BY <1>1, <1>3 DEF RestsOnEvidence
  <2>2. r.op \in {"review", "check"} /\ r.ready = TRUE => EarnedBy(r.grader)'
    BY <1>2, <1>3 DEF RestsOnEvidence
  <2>3. r.op = "append" /\ r.entry.mode = "enforce" /\ r.entry.overridden = FALSE => EarnedBy(r.entry.grader)'
    BY <1>2, <1>3 DEF RestsOnEvidence
  <2>4. r.op = "record" => r.sub \in sc'.subs
    BY <1>0, <1>3 DEF RestsOnEvidence
  <2> QED
    BY <2>1, <2>2, <2>3, <2>4 DEF RestsOnEvidence
<1>4. \A s \in sc.slots : RestsOnEvidence(req'[s])
  <2>1. (\A s \in sc.slots : RestsOnEvidence(req[s])) /\ DOMAIN req = sc.slots
    BY DEF EarnInv, BlockInv
  <2>2. CASE req' = req
    BY <2>1, <2>2
  <2>3. CASE req' = [s \in sc.slots |-> None]
    BY <2>3, NoneRestsOnNothing
  <2>4. ASSUME NEW s \in sc.slots, NEW r, RestsOnEvidence(r), req' = [req EXCEPT ![s] = r] PROVE <1>4!:
    BY <2>1, <2>4
  <2> QED
    BY <2>2, <2>3, <2>4 DEF PutsProven
<1>5. \A s \in sc'.slots : RestsOnEvidence(req[s])'
  BY <1>0, <1>3, <1>4
<1>6. IsLog(policy') /\ \A k \in DOMAIN policy' :
        policy'[k].action = "promote" /\ policy'[k].mode = "enforce" /\ ~policy'[k].overridden => EarnedBy(policy'[k].grader)
  <2>1. IsLog(policy) /\ \A k \in DOMAIN policy :
          policy[k].action = "promote" /\ policy[k].mode = "enforce" /\ ~policy[k].overridden => EarnedBy(policy[k].grader)
    BY DEF EarnInv, Earned
  <2>2. CASE policy' = policy
    BY <2>1, <2>2
  <2>3. ASSUME NEW e \in PolicyEntry, Deserved(e), policy' = Append(policy, e) PROVE <1>6!:
    <3>1. e.overridden \in BOOLEAN
      BY <2>3 DEF PolicyEntry
    <3> QED
      BY <2>1, <2>3, <3>1, AppendGrows DEF Deserved
  <2> QED
    BY <2>2, <2>3 DEF AddsDeserved
<1>7. \A k \in Earned' : EarnedBy(policy'[k].grader)
  BY <1>6 DEF Earned
<1>8. \A k \in Earned' : EarnedBy(policy[k].grader)'
  BY <1>2, <1>7
<1>9. IsLog(policy)'
  BY <1>6 DEF IsLog
<1> QED
  BY <1>0, <1>5, <1>8, <1>9 DEF EarnInv

\* Nobody archives decisions while a promotion is being evaluated.
NoForgetting == [][pgone' # pgone => \A s \in sc.slots : req[s].op # "evaluate"]_vars

LEMMA RecordStaysSane ==
  ASSUME LogsAreSane, NEW s \in sc.slots, Record(s), req[s].op = "record" => req[s].sub \in sc.subs
  PROVE  EvidenceStays
<1>2. req[s].sub \in sc.subs
  BY DEF Record
<1>3. UNCHANGED <<sc, pgone, labels, lgone>>
  BY DEF Record
<1>4. CASE pilot' = pilot
  BY <1>3, <1>4 DEF EvidenceStays, Extends, LogsAreSane, IsLog, IsEvidence
<1>5. CASE pilot' # pilot
  <2> DEFINE d == Decision(req[s].sub, req[s].mode, req[s].known)
  <2>1. pilot' = Append(pilot, d) /\ ~Decided(req[s].sub.artifact)
    BY <1>5 DEF Record
  <2>2. d.artifact = req[s].sub.artifact /\ (IsEvidence(d) => d.content # "")
    <3>1. req[s].sub.verel /\ req[s].sub.bound => req[s].sub.content # ""
      BY <1>2, ScenariosAreSane DEF LogsAreSane
    <3> QED
      BY <3>1 DEF Decision, IsEvidence
  <2> HIDE DEF d
  <2>3. \A i \in DOMAIN pilot : pilot[i].artifact # d.artifact
    BY <2>1, <2>2 DEF Decided, HasRecord
  <2>9. IsLog(pilot) /\ pilot' = Append(pilot, d)
    BY <2>1 DEF LogsAreSane
  <2>4. /\ IsLog(pilot') /\ Len(pilot) \in Nat /\ DOMAIN pilot = 1..Len(pilot) /\ DOMAIN pilot' = 1..(Len(pilot) + 1)
        /\ pilot'[Len(pilot) + 1] = d /\ \A i \in 1..Len(pilot) : pilot'[i] = pilot[i]
    BY <2>9, AppendGrows
  <2>10. \A i \in DOMAIN pilot' : (i \in DOMAIN pilot /\ pilot'[i] = pilot[i]) \/ (i = Len(pilot) + 1 /\ pilot'[i] = d)
    BY <2>4
  <2>11. /\ \A i, j \in DOMAIN pilot : pilot[i].artifact = pilot[j].artifact => i = j
         /\ \A i \in DOMAIN pilot : IsEvidence(pilot[i]) => pilot[i].content # ""
    BY DEF LogsAreSane
  <2>5. \A i, j \in DOMAIN pilot' : pilot'[i].artifact = pilot'[j].artifact => i = j
    BY <2>3, <2>10, <2>11
  <2>6. \A i \in DOMAIN pilot' : IsEvidence(pilot'[i]) => pilot'[i].content # ""
    BY <2>2, <2>10, <2>11
  <2>7. Extends(pilot, pilot') /\ Extends(labels, labels')
    BY <1>3, <2>4 DEF Extends
  <2>8. (\A i \in DOMAIN pilot : IsEvidence(pilot[i]) => pilot[i].content # "")'
    BY <2>6 DEF IsEvidence
  <2>12. IsLog(pilot)' /\ IsLog(labels)'
    <3>1. IsLog(pilot)'
      BY <2>4 DEF IsLog
    <3>2. IsLog(labels)'
      BY <1>3 DEF LogsAreSane, IsLog
    <3> QED
      BY <3>1, <3>2
  <2> QED
    BY <1>3, <2>5, <2>7, <2>8, <2>12 DEF LogsAreSane, EvidenceStays
<1> QED
  BY <1>4, <1>5

\* What a request for labels puts at the end of the log: one row for each artifact
\* that takes one.
Added(add, p, rows, amend) ==
  /\ IsLog(labels') /\ Len(labels) \in Nat /\ Len(add) \in Nat /\ DOMAIN add = 1..Len(add)
  /\ DOMAIN labels = 1..Len(labels) /\ DOMAIN labels' = 1..(Len(labels) + Len(add))
  /\ \A i \in 1..Len(labels) : labels'[i] = labels[i]
  /\ \A i \in 1..Len(add) : labels'[Len(labels) + i] = add[i]
  /\ \A i \in DOMAIN add : /\ add[i].by = p /\ add[i].defect \in BOOLEAN /\ add[i].amend = amend
                          /\ add[i].artifact \in New(rows, amend)
  /\ \A i, j \in DOMAIN add : add[i].artifact = add[j].artifact => i = j

LEMMA AddedLabels ==
  ASSUME LogsAreSane, NEW p \in People, NEW rows \in sc.batches, NEW amend \in BOOLEAN, AddLabels(p, rows, amend)
  PROVE  \E add : Added(add, p, rows, amend)
<1> DEFINE S == New(rows, amend)
           q == SetToSeq(S)
           add == [i \in DOMAIN q |-> [artifact |-> q[i], defect |-> rows[q[i]], by |-> p, amend |-> amend]]
<1>1. labels' = labels \o add
  BY DEF AddLabels
<1>2. IsFiniteSet(DOMAIN rows) /\ \A a \in DOMAIN rows : rows[a] \in BOOLEAN
  BY ScenariosAreSane DEF LogsAreSane
<1>3. S \in SUBSET DOMAIN rows
  BY DEF New
<1>4. IsFiniteSet(S) /\ Cardinality(S) \in Nat /\ ExistsBijection(1..Cardinality(S), S)
  BY <1>2, <1>3, FS_Subset, FS_CardinalityType
<1>5. \E f \in [1..Cardinality(S) -> S] : IsInjective(f)
  BY <1>4 DEF ExistsBijection, Bijection, Injection
<1>6. q \in [1..Cardinality(S) -> S] /\ IsInjective(q)
  BY <1>5 DEF SetToSeq
<1> HIDE DEF S, q
<1>7. /\ IsLog(add)
      /\ \A i \in DOMAIN add : add[i].by = p /\ add[i].defect \in BOOLEAN /\ add[i].amend = amend /\ add[i].artifact \in S
      /\ \A i, j \in DOMAIN add : add[i].artifact = add[j].artifact => i = j
  <2>1. /\ DOMAIN add = 1..Cardinality(S)
        /\ \A i \in DOMAIN add : add[i].by = p /\ add[i].defect \in BOOLEAN /\ add[i].amend = amend /\ add[i].artifact \in S
    BY <1>2, <1>3, <1>6
  <2>2. \A i \in 1..Cardinality(S) : add[i] \in {add[j] : j \in DOMAIN add}
    BY <2>1
  <2>3. add = [i \in 1..Cardinality(S) |-> add[i]]
    BY <1>6
  <2>4. \A i \in DOMAIN add : i \in DOMAIN q /\ add[i].artifact = q[i]
    BY <1>6
  <2> HIDE DEF add
  <2>5. add \in Seq({add[j] : j \in DOMAIN add})
    BY <1>4, <2>1, <2>2, <2>3
  <2>6. \A i, j \in DOMAIN add : add[i].artifact = add[j].artifact => i = j
    BY <1>6, <2>4 DEF IsInjective
  <2> QED
    BY <2>1, <2>5, <2>6 DEF IsLog
<1> HIDE DEF add
<1>8. /\ IsLog(labels') /\ Len(labels) \in Nat /\ Len(add) \in Nat
      /\ DOMAIN labels = 1..Len(labels) /\ DOMAIN labels' = 1..(Len(labels) + Len(add))
      /\ \A i \in 1..Len(labels) : labels'[i] = labels[i]
      /\ \A i \in 1..Len(add) : labels'[Len(labels) + i] = add[i]
  <2>1. IsLog(labels) /\ IsLog(add) /\ labels' = labels \o add
    BY <1>1, <1>7 DEF LogsAreSane
  <2> QED
    BY <2>1, ConcatGrows
<1>9. DOMAIN add = 1..Len(add)
  BY <1>7, AppendGrows
<1> QED
  BY <1>7, <1>8, <1>9 DEF S, Added

LEMMA LabelsStaySane ==
  ASSUME LogsAreSane, NEW p \in People, NEW rows \in sc.batches, NEW amend \in BOOLEAN, AddLabels(p, rows, amend)
  PROVE  EvidenceStays
<1>1. UNCHANGED <<sc, pgone, pilot, lgone>>
  BY DEF AddLabels
<1>0. PICK add : Added(add, p, rows, amend)
  BY AddedLabels
<1>2. /\ IsLog(labels') /\ Len(labels) \in Nat /\ Len(add) \in Nat /\ DOMAIN add = 1..Len(add)
      /\ DOMAIN labels = 1..Len(labels) /\ DOMAIN labels' = 1..(Len(labels) + Len(add))
      /\ \A i \in 1..Len(labels) : labels'[i] = labels[i]
      /\ \A i \in 1..Len(add) : labels'[Len(labels) + i] = add[i]
      /\ \A i \in DOMAIN add : /\ add[i].by = p /\ add[i].defect \in BOOLEAN /\ add[i].amend = amend
                              /\ add[i].artifact \in New(rows, amend)
      /\ \A i, j \in DOMAIN add : add[i].artifact = add[j].artifact => i = j
  BY <1>0 DEF Added
<1>10. ASSUME NEW j \in DOMAIN labels' PROVE labels'[j].by \in People /\ labels'[j].defect \in BOOLEAN
  <2>1. CASE j \in 1..Len(labels)
    BY <1>2, <2>1 DEF LogsAreSane
  <2>2. CASE j \notin 1..Len(labels)
    <3> DEFINE i == j - Len(labels)
    <3>1. i \in 1..Len(add) /\ j = Len(labels) + i
      BY <1>2, <2>2
    <3> HIDE DEF i
    <3>2. labels'[j] = add[i]
      BY <1>2, <3>1
    <3> QED
      BY <1>2, <3>1, <3>2
  <2> QED
    BY <2>1, <2>2
<1>11. IsLog(labels)' /\ Extends(pilot, pilot') /\ Extends(labels, labels')
  <2>1. IsLog(labels)'
    BY <1>2 DEF IsLog
  <2>2. Extends(pilot, pilot')
    BY <1>1 DEF Extends
  <2>3. Extends(labels, labels')
    BY <1>2 DEF Extends
  <2> QED
    BY <2>1, <2>2, <2>3
<1>12. (\A i \in DOMAIN pilot : IsEvidence(pilot[i]) => pilot[i].content # "")'
  BY <1>1 DEF LogsAreSane, IsEvidence
<1>13. IsLog(pilot)'
  BY <1>1 DEF LogsAreSane, IsLog
<1> QED
  BY <1>1, <1>10, <1>11, <1>12, <1>13 DEF LogsAreSane, EvidenceStays

LEMMA QuietStaysSane ==
  ASSUME LogsAreSane, UNCHANGED <<sc, pilot, labels>>, pgone' \in Nat, lgone' \in Nat
  PROVE  EvidenceStays
<1>1. IsLog(pilot)' /\ IsLog(labels)'
  BY DEF LogsAreSane, IsLog
<1>2. (\A i \in DOMAIN pilot : IsEvidence(pilot[i]) => pilot[i].content # "")'
  BY DEF LogsAreSane, IsEvidence
<1> QED
  BY <1>1, <1>2 DEF LogsAreSane, EvidenceStays, Extends

LEMMA EarnStep == BlockInv /\ EarnInv /\ [Next]_vars
                    /\ (pgone' # pgone => \A s \in sc.slots : req[s].op # "evaluate") => EarnInv'
<1> SUFFICES ASSUME BlockInv, EarnInv, [Next]_vars,
                    pgone' # pgone => \A s \in sc.slots : req[s].op # "evaluate"
             PROVE  EarnInv'
  OBVIOUS
<1> USE DEF PutsProven
<1>0. /\ LogsAreSane /\ pgone \in Nat /\ lgone \in Nat
      /\ \A s \in sc.slots : RestsOnEvidence(req[s]) /\ RequestAllowed(req[s])
  BY DEF EarnInv, BlockInv, LogsAreSane
<1>1. ASSUME NEW s \in sc.slots, NEW sub \in sc.subs, NEW m \in sc.modes, BeginRecord(s, sub, m) PROVE EarnInv'
  <2>1. RestsOnEvidence([op |-> "record", sub |-> sub, mode |-> m, known |-> Len(policy)])
    BY DEF RestsOnEvidence
  <2>2. EvidenceStays
    BY <1>0, <1>1, QuietStaysSane DEF BeginRecord
  <2> QED
    BY <1>1, <2>1, <2>2, EarnKept DEF BeginRecord, Open, AddsDeserved
<1>2. ASSUME NEW s \in sc.slots, Record(s) PROVE EarnInv'
  <2>1. EvidenceStays
    BY <1>0, <1>2, RecordStaysSane DEF RestsOnEvidence
  <2> QED
    BY <1>2, <2>1, NoneRestsOnNothing, EarnKept DEF Record, Close, AddsDeserved
<1>3. ASSUME NEW s \in sc.slots, NEW p \in Admins, NEW g \in Graders, NEW to \in {"advisory", "enforce"},
             NEW o \in BOOLEAN, BeginPromote(s, p, g, to, o) PROVE EarnInv'
  <2>1. RestsOnEvidence([op |-> "evaluate", by |-> p, grader |-> g, to |-> to, override |-> o, recs |-> _evidence_records])
    BY DEF RestsOnEvidence
  <2>2. EvidenceStays
    BY <1>0, <1>3, QuietStaysSane DEF BeginPromote
  <2> QED
    BY <1>3, <2>1, <2>2, EarnKept DEF BeginPromote, Open, AddsDeserved
<1>4. ASSUME NEW s \in sc.slots, _evaluation(s) PROVE EarnInv'
  <2> DEFINE r == req[s]
             b == evaluate(pilot, r.recs, _labels, r.grader)
             new == [op |-> "review", by |-> r.by, grader |-> r.grader, to |-> r.to, override |-> r.override, ready |-> b]
  <2>1. r.op = "evaluate" /\ RestsOnEvidence(r)
    BY <1>0, <1>4 DEF _evaluation
  <2>2. b = TRUE => EarnedBy(r.grader)
    <3>1. r.recs \in SUBSET _evidence_records
      BY <2>1 DEF RestsOnEvidence
    <3> QED
      BY <1>0, <3>1, EvaluationEarns
  <2>3. req' = [req EXCEPT ![s] = new]
    BY <1>4 DEF _evaluation, Goto
  <2>4. EvidenceStays
    BY <1>0, <1>4, QuietStaysSane DEF _evaluation
  <2> HIDE DEF b, r
  <2>5. RestsOnEvidence(new)
    BY <2>2 DEF RestsOnEvidence
  <2> HIDE DEF new
  <2> QED
    BY <1>4, <2>3, <2>4, <2>5, EarnKept DEF _evaluation, AddsDeserved
<1>5. ASSUME NEW s \in sc.slots, CountReviewers(s) PROVE EarnInv'
  <2> DEFINE r == req[s]
             n == _reviewers(r.by)
             new == [op |-> "check", by |-> r.by, grader |-> r.grader, to |-> r.to, override |-> r.override,
                     ready |-> r.ready, reviewers |-> n]
  <2>1. r.op = "review" /\ RestsOnEvidence(r)
    BY <1>0, <1>5 DEF CountReviewers
  <2>2. req' = [req EXCEPT ![s] = new]
    BY <1>5 DEF CountReviewers, Goto
  <2>3. EvidenceStays
    BY <1>0, <1>5, QuietStaysSane DEF CountReviewers
  <2> HIDE DEF r, n
  <2>4. RestsOnEvidence(new)
    BY <2>1 DEF RestsOnEvidence
  <2> HIDE DEF new
  <2> QED
    BY <1>5, <2>2, <2>3, <2>4, EarnKept DEF CountReviewers, AddsDeserved
<1>6. ASSUME NEW s \in sc.slots, CheckPromote(s) PROVE EarnInv'
  <2> DEFINE r == req[s]
             now == mode_for(policy, r.grader)
             over == NeedsOverride(now, r.to, r.ready, r.reviewers, MinLabelAuthors)
             e == Entry(r.by, r.grader, r.to, "promote", over)
             new == [op |-> "append", entry |-> e]
  <2>1. r.op = "check" /\ RestsOnEvidence(r) /\ RequestAllowed(r)
    BY <1>0, <1>6 DEF CheckPromote
  <2>2. req' = [req EXCEPT ![s] = new] \/ req' = [req EXCEPT ![s] = None]
    BY <1>6 DEF CheckPromote, Goto, Close
  <2>3. EvidenceStays /\ pgone' = pgone /\ AddsDeserved
    BY <1>0, <1>6, QuietStaysSane DEF CheckPromote, AddsDeserved
  <2>4. over = FALSE /\ r.to = "enforce" => r.ready = TRUE
    BY <2>1 DEF NeedsOverride, RequestAllowed
  <2> HIDE DEF over, r
  <2>5. e.mode = "enforce" /\ e.overridden = FALSE => EarnedBy(e.grader)
    BY <2>1, <2>4 DEF Entry, RestsOnEvidence
  <2> HIDE DEF e
  <2>6. RestsOnEvidence(new)
    BY <2>5 DEF RestsOnEvidence
  <2> HIDE DEF new
  <2> QED
    BY <2>2, <2>3, <2>6, NoneRestsOnNothing, EarnKept
<1>7. ASSUME NEW s \in sc.slots, AppendEntry(s) PROVE EarnInv'
  <2>1. req[s].entry \in PolicyEntry /\ Deserved(req[s].entry)
    BY <1>0, <1>7 DEF AppendEntry, RequestAllowed, RestsOnEvidence, Deserved
  <2>2. EvidenceStays
    BY <1>0, <1>7, QuietStaysSane DEF AppendEntry
  <2> QED
    BY <1>7, <2>1, <2>2, NoneRestsOnNothing, EarnKept DEF AppendEntry, _add, Close, AddsDeserved
<1>8. ASSUME NEW s \in sc.slots, NEW p \in Admins, BeginHealth(s, p) PROVE EarnInv'
  <2>1. RestsOnEvidence([op |-> "health", recs |-> _evidence_records, ls |-> _labels])
    BY DEF RestsOnEvidence
  <2>2. EvidenceStays
    BY <1>0, <1>8, QuietStaysSane DEF BeginHealth
  <2> QED
    BY <1>8, <2>1, <2>2, EarnKept DEF BeginHealth, Open, AddsDeserved
<1>9. ASSUME NEW s \in sc.slots, Judge(s) PROVE EarnInv'
  <2>1. \A bad : RestsOnEvidence([op |-> "demote", bad |-> bad])
    BY DEF RestsOnEvidence
  <2>2. EvidenceStays
    BY <1>0, <1>9, QuietStaysSane DEF Judge
  <2>3. \E bad : req' = [req EXCEPT ![s] = [op |-> "demote", bad |-> bad]]
    BY <1>9 DEF Judge, Goto
  <2>4. PutsProven
    BY <2>1, <2>3
  <2> QED
    BY <1>9, <2>2, <2>4, EarnKept DEF Judge, AddsDeserved
<1>10. ASSUME NEW s \in sc.slots, autodemote(s) PROVE EarnInv'
  <2>1. EvidenceStays /\ pgone' = pgone
    BY <1>0, <1>10, QuietStaysSane DEF autodemote
  <2>2. CASE req[s].bad = {} /\ Close(s) /\ UNCHANGED policy
    BY <2>1, <2>2, NoneRestsOnNothing, EarnKept DEF Close, AddsDeserved
  <2>3. ASSUME NEW g \in req[s].bad, _add(Entry("auto", g, "advisory", "autodemote", FALSE)),
               Goto(s, [op |-> "demote", bad |-> req[s].bad \ {g}]) PROVE EarnInv'
    <3>1. g \in Graders
      BY <1>0, <1>10, <2>3 DEF autodemote, RequestAllowed
    <3>2. LET e == Entry("auto", g, "advisory", "autodemote", FALSE) IN e \in PolicyEntry /\ Deserved(e)
      BY <3>1 DEF Entry, PolicyEntry, Deserved, Levels, ModeRank
    <3>3. RestsOnEvidence([op |-> "demote", bad |-> req[s].bad \ {g}])
      BY DEF RestsOnEvidence
    <3> QED
      BY <2>1, <2>3, <3>2, <3>3, EarnKept DEF _add, Goto, AddsDeserved
  <2> QED
    BY <1>10, <2>2, <2>3 DEF autodemote
<1>11. ASSUME NEW p \in People, NEW rows \in sc.batches, NEW amend \in BOOLEAN, AddLabels(p, rows, amend) PROVE EarnInv'
  <2>1. EvidenceStays
    BY <1>0, <1>11, LabelsStaySane
  <2> QED
    BY <1>11, <2>1, EarnKept DEF AddLabels, AddsDeserved
<1>12. ASSUME NEW p \in Admins, NEW g \in Graders \cup {"*"}, NEW m \in Levels, demote(p, g, m) PROVE EarnInv'
  <2>1. LET e == Entry(p, g, m, "demote", FALSE) IN e \in PolicyEntry /\ Deserved(e)
    BY <1>12, AdminsArePeople DEF demote, MayDemoteTo, Entry, PolicyEntry, Deserved
  <2>2. EvidenceStays
    BY <1>0, <1>12, QuietStaysSane DEF demote
  <2> QED
    BY <1>12, <2>1, <2>2, EarnKept DEF demote, _add, AddsDeserved
<1>13. ASSUME NEW p \in Admins, NEW m \in Levels, set_default(p, m) PROVE EarnInv'
  <2>1. LET e == Entry(p, "*", m, "set", FALSE) IN e \in PolicyEntry /\ Deserved(e)
    BY <1>13, AdminsArePeople DEF set_default, MaySetDefault, Entry, PolicyEntry, Deserved
  <2>2. EvidenceStays
    BY <1>0, <1>13, QuietStaysSane DEF set_default
  <2> QED
    BY <1>13, <2>1, <2>2, EarnKept DEF set_default, _add, AddsDeserved
<1>14. ASSUME NEW p \in Admins, NEW which, NEW keep \in 0..2, Archive(p, which, keep) PROVE EarnInv'
  <2>1. UNCHANGED <<sc, kill, pilot, labels, policy, req>> /\ pgone' \in Nat /\ lgone' \in Nat
    BY <1>0, <1>14, LogDomains DEF Archive
  <2>2. EvidenceStays
    BY <1>0, <2>1, QuietStaysSane
  <2>3. CASE pgone' = pgone
    BY <2>1, <2>2, <2>3, EarnKept DEF AddsDeserved
  <2>4. CASE pgone' # pgone
    <3>1. \A s \in sc.slots : req[s].op # "evaluate"
      BY <2>4
    <3>2. ASSUME NEW g, EarnedBy(g) PROVE EarnedBy(g)'
      BY <1>0, <2>2, <3>2, EarnedStays
    <3>3. ASSUME NEW r, r.op # "evaluate", RestsOnEvidence(r) PROVE RestsOnEvidence(r)'
      BY <2>1, <3>2, <3>3 DEF RestsOnEvidence
    <3>4. \A s \in sc.slots : RestsOnEvidence(req[s])'
      BY <1>0, <2>1, <3>1, <3>3
    <3>5. IsLog(policy)'
      BY <2>1 DEF EarnInv, IsLog
    <3>6. (\A k \in Earned : EarnedBy(policy[k].grader))'
      BY <2>1, <3>2 DEF EarnInv, Earned
    <3> QED
      BY <2>1, <2>2, <3>4, <3>5, <3>6 DEF EarnInv, EvidenceStays
  <2> QED
    BY <2>3, <2>4
<1>15. ASSUME NEW k, Restart(k) PROVE EarnInv'
  <2>1. EvidenceStays
    BY <1>0, <1>15, QuietStaysSane DEF Restart
  <2> QED
    BY <1>15, <2>1, EarnKept DEF Restart, AddsDeserved
<1>16. CASE UNCHANGED vars
  <2>1. EvidenceStays
    BY <1>0, <1>16, QuietStaysSane DEF vars
  <2> QED
    BY <1>16, <2>1, EarnKept DEF vars, AddsDeserved
<1> QED
  BY <1>1, <1>2, <1>3, <1>4, <1>5, <1>6, <1>7, <1>8, <1>9, <1>10, <1>11, <1>12, <1>13, <1>14, <1>15, <1>16
     DEF Next, Recording, Promoting, Watching, Labelling, Administration

LEMMA EarnStart == Init => EarnInv
BY EmptyLog, NoneRestsOnNothing DEF Init, EarnInv, LogsAreSane, Earned

\* A grader enforces on evidence only after enough different files that Verel
\* measured, each labeled by another than its recorder, whatever requests, labels,
\* amendments and restarts come in between; unless decisions are archived while
\* a promotion is evaluated, which run pilot_forget shows to break it.
THEOREM EnforcementIsEarned == Spec /\ NoForgetting => []EnforceIsEarned
<1>1. EarnInv => EnforceIsEarned
  <2>1. ASSUME EarnInv, NEW k \in Earned
        PROVE  \E F \in SUBSET {i \in DOMAIN pilot : EvidenceOf(i, policy[k].grader)} :
                 /\ \A i, j \in F : pilot[i].content = pilot[j].content => i = j
                 /\ \A i \in F : \E v \in People : LabeledByAnother(i, v, BOOLEAN)
                 /\ Cardinality(F) >= MinSamples
                 /\ wilson_reaches(Cardinality({i \in F : \E v \in People : LabeledByAnother(i, v, {TRUE})}),
                                   Cardinality(F), MinPrecision)
    <3>1. PICK F \in SUBSET DOMAIN pilot : Proves(F, policy[k].grader)
      BY <2>1 DEF EarnInv, EarnedBy
    <3> QED
      BY <3>1 DEF Proves, Right
  <2> QED
    BY <2>1 DEF EnforceIsEarned
<1>2. BlockInv /\ EarnInv /\ [Next]_vars
        /\ [pgone' # pgone => \A s \in sc.slots : req[s].op # "evaluate"]_vars => EarnInv'
  BY EarnStep DEF vars
<1> QED
  BY BlockStart, BlockStep, EarnStart, <1>1, <1>2, PTL DEF Spec, NoForgetting

-----------------------------------------------------------------------------
(* Who had a say.  The reviewers are counted over labels that stay, the     *)
(* level of a grader is read from a prefix of the policy that stays, and a  *)
(* label is given under the log's lock: all three last until the entry is   *)
(* appended and after.                                                      *)

Labelers(p) == {v \in People \ {p} : \E i \in DOMAIN pilot : IsEvidence(pilot[i]) /\ LabeledByAnother(i, v, BOOLEAN)}
WatchedBefore(g, k) == \E j \in 1..k : mode_for(SubSeq(policy, 1, j), g) = "advisory"

\* What a request in flight has been told.
HasSay(r) ==
  /\ r.op = "record" => r.sub \in sc.subs
  /\ r.op = "check" => r.reviewers \in Nat /\ r.reviewers <= Cardinality(Labelers(r.by))
  /\ r.op = "append" /\ r.entry.mode = "enforce" /\ r.entry.overridden = FALSE =>
       Cardinality(Labelers(r.entry.by)) >= MinLabelAuthors /\ WatchedBefore(r.entry.grader, Len(policy))

SayInv ==
  /\ LogsAreSane /\ LabelsStand
  /\ \A s \in sc.slots : HasSay(req[s])
  /\ TakesThree /\ SteppedUp

LEMMA PrefixStays ==
  ASSUME NEW S, NEW q \in Seq(S), NEW e \in S, NEW j \in 0..Len(q)
  PROVE  SubSeq(Append(q, e), 1, j) = SubSeq(q, 1, j)
<1>1. Len(q) \in Nat /\ Append(q, e) \in Seq(S) /\ Len(Append(q, e)) = Len(q) + 1
      /\ \A i \in 1..Len(q) : Append(q, e)[i] = q[i]
  BY AppendProperties
<1>2. PICK t : t = Append(q, e)
  OBVIOUS
<1>3. j \in Nat /\ j <= Len(q) /\ j <= Len(t)
  BY <1>1, <1>2
<1>4. SubSeq(q, 1, j) = [i \in 1..j |-> q[i]]
  BY <1>3
<1>5. SubSeq(t, 1, j) = [i \in 1..j |-> t[i]]
  BY <1>1, <1>2, <1>3
<1>6. \A i \in 1..j : t[i] = q[i]
  BY <1>1, <1>2, <1>3
<1> QED
  BY <1>2, <1>4, <1>5, <1>6

\* Whoever has labeled is one of finitely many.
LEMMA AuthorsAreFinite ==
  ASSUME NEW q, IsLog(q)
  PROVE  IsFiniteSet({q[j].by : j \in DOMAIN q})
<1>1. Len(q) \in Nat /\ DOMAIN q = 1..Len(q)
  BY AppendGrows
<1>2. IsFiniteSet(DOMAIN q)
  BY <1>1, FS_Interval
<1> DEFINE T == {q[j].by : j \in DOMAIN q}
           f == [j \in DOMAIN q |-> q[j].by]
<1>3. f \in Surjection(DOMAIN q, T)
  BY DEF Surjection
<1> QED
  BY <1>2, <1>3, FS_Surjection

LEMMA LabelersAreFinite ==
  ASSUME LogsAreSane, NEW p
  PROVE  IsFiniteSet(Labelers(p)) /\ Cardinality(Labelers(p)) \in Nat
<1>1. Labelers(p) \subseteq {labels[j].by : j \in DOMAIN labels}
  BY DEF Labelers, LabeledByAnother
<1>2. IsLog(labels)
  BY DEF LogsAreSane
<1>3. PICK A : A = {labels[j].by : j \in DOMAIN labels}
  OBVIOUS
<1>4. IsFiniteSet(A)
  BY <1>2, <1>3, AuthorsAreFinite
<1>5. IsFiniteSet(Labelers(p))
  BY <1>1, <1>3, <1>4, FS_Subset
<1> QED
  BY <1>5, FS_CardinalityType

LEMMA LabelersStay ==
  ASSUME LogsAreSane, EvidenceStays, NEW p
  PROVE  Cardinality(Labelers(p)) <= Cardinality(Labelers(p)') /\ Cardinality(Labelers(p)') \in Nat
<1>1. Extends(pilot, pilot') /\ Extends(labels, labels') /\ LogsAreSane'
  BY DEF EvidenceStays
<1>2. ASSUME NEW v \in Labelers(p) PROVE v \in Labelers(p)'
  <2>1. PICK i \in DOMAIN pilot : IsEvidence(pilot[i]) /\ LabeledByAnother(i, v, BOOLEAN)
    BY DEF Labelers
  <2>2. i \in DOMAIN pilot' /\ pilot'[i] = pilot[i]
    BY <1>1 DEF Extends
  <2>3. LabeledByAnother(i, v, BOOLEAN)'
    BY <1>1, <2>1, <2>2 DEF LabeledByAnother, Extends
  <2>4. v \in People \ {p}
    BY DEF Labelers
  <2> QED
    BY <2>1, <2>2, <2>3, <2>4 DEF Labelers, IsEvidence
<1>3. Labelers(p)' \subseteq {labels'[j].by : j \in DOMAIN labels'} /\ IsLog(labels')
  BY <1>1 DEF Labelers, LabeledByAnother, LogsAreSane, IsLog
<1>4. IsFiniteSet(Labelers(p)') /\ Cardinality(Labelers(p)') \in Nat
  <2>1. PICK A : A = {labels'[j].by : j \in DOMAIN labels'}
    OBVIOUS
  <2>2. IsFiniteSet(A)
    BY <1>3, <2>1, AuthorsAreFinite
  <2>3. IsFiniteSet(Labelers(p)')
    BY <1>3, <2>1, <2>2, FS_Subset
  <2> QED
    BY <2>3, FS_CardinalityType
<1> QED
  BY <1>2, <1>4, FS_Subset

\* _reviewers counts some of those who labeled the evidence of others.
LEMMA ReviewersLabeled ==
  ASSUME LogsAreSane, NEW p
  PROVE  _reviewers(p) \in Nat /\ _reviewers(p) <= Cardinality(Labelers(p))
<1> DEFINE n == ReviewerFloor(Cardinality(Originals))
           By(v) == {j \in Originals : labels[j].by = v}
           R == {v \in People \ {p} : Originals # {} /\ Cardinality(By(v)) >= n}
<1>1. _reviewers(p) = Cardinality(R)
  BY DEF _reviewers
<1>2. IsFiniteSet(Originals) /\ Cardinality(Originals) \in Nat /\ Originals \subseteq LiveLabels /\ LiveLabels \subseteq DOMAIN labels
  <2>1. IsFiniteSet(DOMAIN labels)
    BY LogDomains, FS_Interval
  <2>2. Originals \subseteq LiveLabels /\ LiveLabels \subseteq DOMAIN labels
    BY LiveIsThere DEF Originals
  <2> QED
    BY <2>1, <2>2, FS_Subset, FS_CardinalityType
<1>3. n \in Nat /\ n > 0
  <2>1. PICK k \in Nat : k = Cardinality(Originals)
    BY <1>2
  <2>2. k \div 10 \in Nat
    BY <2>1
  <2> QED
    BY <2>1, <2>2, ReviewersLabel DEF ReviewerFloor
<1> HIDE DEF n
<1>4. ASSUME NEW v \in R PROVE v \in Labelers(p)
  <2>1. By(v) # {}
    <3>1. Cardinality(By(v)) >= n
      BY <1>4
    <3>2. Cardinality({}) = 0
      BY FS_EmptySet
    <3>3. Cardinality(By(v)) # 0
      BY <1>3, <3>1
    <3> QED
      BY <3>2, <3>3
  <2>2. PICK j \in Originals : labels[j].by = v
    BY <2>1
  <2>3. /\ HasRecord(pilot, _evidence_records, labels[j].artifact)
        /\ Recorder(_evidence_records, labels[j].artifact) # v /\ j \in DOMAIN labels
    BY <1>2, <2>2 DEF Originals
  <2> DEFINE a == labels[j].artifact
             Is(x) == pilot[x].artifact = a /\ \A y \in _evidence_records : pilot[y].artifact = a => x <= y
  <2>4. PICK i \in _evidence_records : pilot[i].artifact = a
    BY <2>3 DEF HasRecord
  <2>5. _evidence_records \subseteq DOMAIN pilot /\ DOMAIN pilot \subseteq Nat /\ IsEvidence(pilot[i])
    BY <2>4, LiveIsThere, LogDomains DEF _evidence_records
  <2>6. \A x \in _evidence_records : pilot[x].artifact = a => x = i
    BY <2>4, <2>5 DEF LogsAreSane
  <2>7. Is(i) /\ \A x \in _evidence_records : Is(x) => x = i
    BY <2>4, <2>5, <2>6
  <2>8. First(_evidence_records, a) = i
    <3>1. First(_evidence_records, a) = CHOOSE x \in _evidence_records : Is(x)
      BY DEF First
    <3> HIDE DEF Is
    <3> QED
      BY <2>7, <3>1
  <2>9. pilot[i].by # v
    BY <2>3, <2>8 DEF Recorder
  <2>10. labels[j].defect \in BOOLEAN /\ i \in DOMAIN pilot
    BY <2>3, <2>4, <2>5 DEF LogsAreSane
  <2>11. LabeledByAnother(i, v, BOOLEAN)
    BY <2>2, <2>3, <2>4, <2>9, <2>10 DEF LabeledByAnother
  <2> QED
    BY <1>4, <2>5, <2>10, <2>11 DEF Labelers
<1>5. IsFiniteSet(Labelers(p)) /\ Cardinality(Labelers(p)) \in Nat /\ R \subseteq Labelers(p)
  BY <1>4, LabelersAreFinite
<1> HIDE DEF R
<1> QED
  BY <1>1, <1>5, FS_Subset, FS_CardinalityType

\* What a step may do.
Heeded(e) ==
  e.mode = "enforce" /\ e.overridden = FALSE =>
    Cardinality(Labelers(e.by)) >= MinLabelAuthors /\ WatchedBefore(e.grader, Len(policy))
AddsHeeded == policy' = policy \/ \E e \in PolicyEntry : Heeded(e) /\ policy' = Append(policy, e)
PutsTold ==
  \/ req' = req
  \/ req' = [s \in sc.slots |-> None]
  \/ \E s \in sc.slots : \E r : HasSay(r) /\ req' = [req EXCEPT ![s] = r]

LEMMA NoneIsTold == HasSay(None)
BY DEF HasSay, None

LEMMA SayKept ==
  ASSUME BlockInv, SayInv, EvidenceStays, LabelsStand', AddsHeeded, PutsTold
  PROVE  SayInv'
<1>0. LogsAreSane /\ LogsAreSane' /\ sc' = sc
  BY DEF SayInv, EvidenceStays
<1>1. /\ policy \in Seq(PolicyEntry) /\ Len(policy) \in Nat /\ DOMAIN policy = 1..Len(policy)
      /\ policy' \in Seq(PolicyEntry) /\ Len(policy') \in Nat /\ DOMAIN policy' = 1..Len(policy')
      /\ Len(policy) <= Len(policy')
      /\ \A k \in 1..Len(policy) : policy'[k] = policy[k]
      /\ \A j \in 1..Len(policy) : SubSeq(policy', 1, j) = SubSeq(policy, 1, j)
  <2>1. policy \in Seq(PolicyEntry) /\ Len(policy) \in Nat /\ DOMAIN policy = 1..Len(policy)
    BY DEF BlockInv
  <2>2. CASE policy' = policy
    BY <2>1, <2>2
  <2>3. ASSUME NEW e \in PolicyEntry, policy' = Append(policy, e) PROVE <1>1!:
    <3>1. /\ policy' \in Seq(PolicyEntry) /\ Len(policy') = Len(policy) + 1 /\ DOMAIN policy' = 1..Len(policy')
          /\ \A k \in 1..Len(policy) : policy'[k] = policy[k]
      BY <2>1, <2>3, AppendProperties
    <3>2. \A j \in 1..Len(policy) : SubSeq(policy', 1, j) = SubSeq(policy, 1, j)
      <4>1. \A j \in 1..Len(policy) : j \in 0..Len(policy)
        BY <2>1
      <4> QED
        BY <2>1, <2>3, <4>1, PrefixStays
    <3> QED
      BY <2>1, <3>1, <3>2
  <2> QED
    BY <2>2, <2>3 DEF AddsHeeded
<1>2. \A p : /\ Cardinality(Labelers(p)) <= Cardinality(Labelers(p)')
             /\ Cardinality(Labelers(p)) \in Nat /\ Cardinality(Labelers(p)') \in Nat
  BY <1>0, LabelersStay, LabelersAreFinite
<1>3. ASSUME NEW g, NEW k \in 0..Len(policy), WatchedBefore(g, k)
      PROVE  \E j \in 1..k : mode_for(SubSeq(policy', 1, j), g) = "advisory"
  <2>1. PICK j \in 1..k : mode_for(SubSeq(policy, 1, j), g) = "advisory"
    BY <1>3 DEF WatchedBefore
  <2>2. j \in 1..Len(policy)
    BY <1>1, <1>3, <2>1
  <2>3. SubSeq(policy', 1, j) = SubSeq(policy, 1, j)
    BY <1>1, <2>2
  <2> QED
    BY <2>1, <2>3
<1>4. MinLabelAuthors \in Nat
  BY ReviewersLabel
<1>5. ASSUME NEW r, HasSay(r) PROVE HasSay(r)'
  <2>1. r.op = "record" => r.sub \in sc'.subs
    BY <1>0, <1>5 DEF HasSay
  <2>2. r.op = "check" => r.reviewers \in Nat /\ r.reviewers <= Cardinality(Labelers(r.by)')
    BY <1>2, <1>5 DEF HasSay
  <2>3. ASSUME r.op = "append", r.entry.mode = "enforce", r.entry.overridden = FALSE
        PROVE  Cardinality(Labelers(r.entry.by)') >= MinLabelAuthors /\ WatchedBefore(r.entry.grader, Len(policy))'
    <3>1. Cardinality(Labelers(r.entry.by)) >= MinLabelAuthors /\ WatchedBefore(r.entry.grader, Len(policy))
      BY <1>5, <2>3 DEF HasSay
    <3>2. Cardinality(Labelers(r.entry.by)') >= MinLabelAuthors
      BY <1>2, <1>4, <3>1
    <3>3. PICK j \in 1..Len(policy) : mode_for(SubSeq(policy', 1, j), r.entry.grader) = "advisory"
      BY <1>1, <1>3, <3>1
    <3>4. j \in 1..Len(policy')
      BY <1>1, <3>3
    <3> QED
      BY <3>2, <3>3, <3>4 DEF WatchedBefore
  <2> QED
    BY <2>1, <2>2, <2>3 DEF HasSay
<1>6. \A s \in sc.slots : HasSay(req'[s])
  <2>1. (\A s \in sc.slots : HasSay(req[s])) /\ DOMAIN req = sc.slots
    BY DEF SayInv, BlockInv
  <2>2. CASE req' = req
    BY <2>1, <2>2
  <2>3. CASE req' = [s \in sc.slots |-> None]
    BY <2>3, NoneIsTold
  <2>4. ASSUME NEW s \in sc.slots, NEW r, HasSay(r), req' = [req EXCEPT ![s] = r] PROVE <1>6!:
    BY <2>1, <2>4
  <2> QED
    BY <2>2, <2>3, <2>4 DEF PutsTold
<1>7. \A s \in sc'.slots : HasSay(req[s])'
  BY <1>0, <1>5, <1>6
<1>8. ASSUME NEW k \in Earned', NEW p, p = policy'[k].by
      PROVE  /\ Cardinality(Labelers(p)') >= MinLabelAuthors
             /\ \E j \in 1..(k - 1) : mode_for(SubSeq(policy', 1, j), policy'[k].grader) = "advisory"
  <2>1. k \in 1..Len(policy') /\ policy'[k].action = "promote" /\ policy'[k].mode = "enforce" /\ ~policy'[k].overridden
    BY <1>1 DEF Earned
  <2>2. CASE k \in 1..Len(policy)
    <3>1. policy'[k] = policy[k] /\ k \in Earned
      BY <1>1, <2>1, <2>2 DEF Earned
    <3>2. Cardinality(Labelers(p)) >= MinLabelAuthors
      <4>1. Cardinality(Labelers(policy[k].by)) >= MinLabelAuthors
        BY <3>1 DEF SayInv, TakesThree, Labelers
      <4> QED
        BY <1>8, <3>1, <4>1
    <3>3. WatchedBefore(policy[k].grader, k - 1) /\ k - 1 \in 0..Len(policy)
      BY <1>1, <2>2, <3>1 DEF SayInv, SteppedUp, WatchedBefore
    <3>4. Cardinality(Labelers(p)') >= MinLabelAuthors
      BY <1>2, <1>4, <3>2
    <3> QED
      BY <1>3, <3>1, <3>3, <3>4
  <2>3. CASE k \notin 1..Len(policy)
    <3>1. policy' # policy
      BY <2>1, <2>3
    <3>2. PICK e \in PolicyEntry : Heeded(e) /\ policy' = Append(policy, e)
      BY <3>1 DEF AddsHeeded
    <3>3. k = Len(policy) + 1 /\ policy'[k] = e /\ k - 1 = Len(policy)
      BY <1>1, <2>1, <2>3, <3>2, AppendProperties
    <3>4. e.overridden = FALSE /\ e.mode = "enforce"
      BY <2>1, <3>3 DEF PolicyEntry
    <3>5. Cardinality(Labelers(e.by)) >= MinLabelAuthors /\ WatchedBefore(e.grader, Len(policy))
      BY <3>2, <3>4 DEF Heeded
    <3>6. Cardinality(Labelers(p)') >= MinLabelAuthors
      BY <1>2, <1>4, <1>8, <3>3, <3>5
    <3>7. \E j \in 1..Len(policy) : mode_for(SubSeq(policy', 1, j), e.grader) = "advisory"
      BY <1>1, <1>3, <3>5
    <3> QED
      BY <3>3, <3>6, <3>7
  <2> QED
    BY <2>2, <2>3
<1>9. TakesThree' /\ SteppedUp'
  <2>1. TakesThree'
    <3>1. ASSUME NEW k \in Earned' PROVE Cardinality(Labelers(policy[k].by)') >= MinLabelAuthors
      <4>1. PICK p : p = policy'[k].by
        OBVIOUS
      <4>2. Labelers(policy[k].by)' = Labelers(p)'
        BY <4>1 DEF Labelers
      <4> QED
        BY <1>8, <4>1, <4>2
    <3> QED
      BY <3>1 DEF TakesThree, Labelers
  <2>2. SteppedUp'
    BY <1>8 DEF SteppedUp
  <2> QED
    BY <2>1, <2>2
<1> QED
  BY <1>0, <1>7, <1>9 DEF SayInv

LEMMA StandingKept ==
  ASSUME LogsAreSane, LabelsStand, NEW p \in People, NEW rows \in sc.batches, NEW amend \in BOOLEAN,
         AddLabels(p, rows, amend)
  PROVE  LabelsStand'
<1>0. PICK add : Added(add, p, rows, amend)
  BY AddedLabels
<1>1. /\ IsLog(labels') /\ Len(labels) \in Nat /\ Len(add) \in Nat /\ DOMAIN add = 1..Len(add)
      /\ DOMAIN labels = 1..Len(labels) /\ DOMAIN labels' = 1..(Len(labels) + Len(add))
      /\ \A i \in 1..Len(labels) : labels'[i] = labels[i]
      /\ \A i \in 1..Len(add) : labels'[Len(labels) + i] = add[i]
      /\ \A i \in DOMAIN add : /\ add[i].by = p /\ add[i].defect \in BOOLEAN /\ add[i].amend = amend
                              /\ add[i].artifact \in New(rows, amend)
      /\ \A i, j \in DOMAIN add : add[i].artifact = add[j].artifact => i = j
  BY <1>0 DEF Added
<1>2. ~Conflicts(rows, amend)
  BY DEF AddLabels
<1>3. ASSUME ~amend, NEW x \in New(rows, amend), NEW i \in DOMAIN labels, labels[i].artifact = x PROVE FALSE
  <2>1. x \in DOMAIN rows
    BY <1>3 DEF New
  <2>2. CASE Current(x, BOOLEAN)
    <3>1. Current(x, {~rows[x]})
      BY <1>3, <2>2 DEF New
    <3> QED
      BY <1>2, <1>3, <2>1, <2>2, <3>1 DEF Conflicts
  <2>3. CASE ~Current(x, BOOLEAN)
    <3>1. HasRecord(labels, DOMAIN labels, x)
      BY <1>3 DEF HasRecord
    <3> QED
      BY <1>2, <1>3, <2>1, <2>3, <3>1 DEF Conflicts
  <2> QED
    BY <2>2, <2>3
<1>4. SUFFICES ASSUME NEW i \in DOMAIN labels', NEW j \in DOMAIN labels', i < j,
                      labels'[i].artifact = labels'[j].artifact
               PROVE  labels'[j].amend
  BY DEF LabelsStand
<1>5. PICK n : n = Len(labels)
  OBVIOUS
<1>6. n \in Nat /\ i \in Nat /\ j \in Nat
  BY <1>1, <1>5
<1>7. CASE j \in 1..n
  <2>1. i \in 1..n
    BY <1>1, <1>4, <1>5, <1>6, <1>7
  <2> QED
    BY <1>1, <1>4, <1>5, <1>7, <2>1 DEF LabelsStand
<1>8. CASE j \notin 1..n
  <2>1. PICK y : y = j - n
    OBVIOUS
  <2>2. y \in DOMAIN add /\ j = n + y
    BY <1>1, <1>5, <1>6, <1>8, <2>1
  <2>3. labels'[j] = add[y]
    BY <1>1, <1>5, <2>2
  <2>4. add[y].amend = amend /\ add[y].artifact \in New(rows, amend)
    BY <1>1, <2>2
  <2>5. CASE i \in 1..n
    <3>1. i \in DOMAIN labels /\ labels[i].artifact = add[y].artifact
      BY <1>1, <1>4, <1>5, <2>3, <2>5
    <3>2. amend
      BY <1>3, <2>4, <3>1
    <3> QED
      BY <2>3, <2>4, <3>2
  <2>6. CASE i \notin 1..n
    <3>1. PICK z : z = i - n
      OBVIOUS
    <3>2. z \in DOMAIN add /\ i = n + z
      BY <1>1, <1>5, <1>6, <2>6, <3>1
    <3>3. labels'[i] = add[z]
      BY <1>1, <1>5, <3>2
    <3>4. z = y
      BY <1>1, <1>4, <2>2, <2>3, <3>2, <3>3
    <3> QED
      BY <1>4, <1>6, <2>1, <3>1, <3>4
  <2> QED
    BY <2>5, <2>6
<1> QED
  BY <1>7, <1>8

LEMMA SayStep == BlockInv /\ SayInv /\ [Next]_vars => SayInv'
<1> SUFFICES ASSUME BlockInv, SayInv, [Next]_vars PROVE SayInv'
  OBVIOUS
<1> USE DEF PutsTold
<1>0. /\ LogsAreSane /\ LabelsStand /\ pgone \in Nat /\ lgone \in Nat
      /\ \A s \in sc.slots : HasSay(req[s]) /\ RequestAllowed(req[s])
  BY DEF SayInv, BlockInv, LogsAreSane
<1>q. ASSUME UNCHANGED <<sc, pilot, labels>>, pgone' \in Nat, lgone' \in Nat, AddsHeeded, PutsTold PROVE SayInv'
  <2>1. EvidenceStays
    BY <1>0, <1>q, QuietStaysSane
  <2>2. LabelsStand'
    BY <1>0, <1>q DEF LabelsStand
  <2> QED
    BY <1>q, <2>1, <2>2, SayKept
<1>1. ASSUME NEW s \in sc.slots, NEW sub \in sc.subs, NEW m \in sc.modes, BeginRecord(s, sub, m) PROVE SayInv'
  <2>1. HasSay([op |-> "record", sub |-> sub, mode |-> m, known |-> Len(policy)])
    BY DEF HasSay
  <2> QED
    BY <1>0, <1>1, <1>q, <2>1 DEF BeginRecord, Open, AddsHeeded
<1>2. ASSUME NEW s \in sc.slots, Record(s) PROVE SayInv'
  <2>1. EvidenceStays
    BY <1>0, <1>2, RecordStaysSane DEF HasSay
  <2>2. LabelsStand'
    BY <1>0, <1>2 DEF LabelsStand, Record
  <2> QED
    BY <1>2, <2>1, <2>2, NoneIsTold, SayKept DEF Record, Close, AddsHeeded
<1>3. ASSUME NEW s \in sc.slots, NEW p \in Admins, NEW g \in Graders, NEW to \in {"advisory", "enforce"},
             NEW o \in BOOLEAN, BeginPromote(s, p, g, to, o) PROVE SayInv'
  <2>1. HasSay([op |-> "evaluate", by |-> p, grader |-> g, to |-> to, override |-> o, recs |-> _evidence_records])
    BY DEF HasSay
  <2> QED
    BY <1>0, <1>3, <1>q, <2>1 DEF BeginPromote, Open, AddsHeeded
<1>4. ASSUME NEW s \in sc.slots, _evaluation(s) PROVE SayInv'
  <2> DEFINE r == req[s]
             b == evaluate(pilot, r.recs, _labels, r.grader)
             new == [op |-> "review", by |-> r.by, grader |-> r.grader, to |-> r.to, override |-> r.override, ready |-> b]
  <2>1. req' = [req EXCEPT ![s] = new]
    BY <1>4 DEF _evaluation, Goto
  <2> HIDE DEF b, r
  <2>2. HasSay(new)
    BY DEF HasSay
  <2> HIDE DEF new
  <2> QED
    BY <1>0, <1>4, <1>q, <2>1, <2>2 DEF _evaluation, AddsHeeded
<1>5. ASSUME NEW s \in sc.slots, CountReviewers(s) PROVE SayInv'
  <2> DEFINE r == req[s]
             n == _reviewers(r.by)
             new == [op |-> "check", by |-> r.by, grader |-> r.grader, to |-> r.to, override |-> r.override,
                     ready |-> r.ready, reviewers |-> n]
  <2>1. req' = [req EXCEPT ![s] = new]
    BY <1>5 DEF CountReviewers, Goto
  <2>2. n \in Nat /\ n <= Cardinality(Labelers(r.by))
    BY <1>0, ReviewersLabeled
  <2> HIDE DEF r, n
  <2>3. HasSay(new)
    BY <2>2 DEF HasSay
  <2> HIDE DEF new
  <2> QED
    BY <1>0, <1>5, <1>q, <2>1, <2>3 DEF CountReviewers, AddsHeeded
<1>6. ASSUME NEW s \in sc.slots, CheckPromote(s) PROVE SayInv'
  <2> DEFINE r == req[s]
             now == mode_for(policy, r.grader)
             over == NeedsOverride(now, r.to, r.ready, r.reviewers, MinLabelAuthors)
             e == Entry(r.by, r.grader, r.to, "promote", over)
             new == [op |-> "append", entry |-> e]
  <2>1. r.op = "check" /\ HasSay(r) /\ RequestAllowed(r)
    BY <1>0, <1>6 DEF CheckPromote
  <2>2. req' = [req EXCEPT ![s] = new] \/ req' = [req EXCEPT ![s] = None]
    BY <1>6 DEF CheckPromote, Goto, Close
  <2>3. over = FALSE /\ r.to = "enforce" => now = "advisory" /\ ~(r.reviewers < MinLabelAuthors)
    BY DEF NeedsOverride
  <2>4. now = "advisory" => WatchedBefore(r.grader, Len(policy))
    <3>1. policy \in Seq(PolicyEntry) /\ Len(policy) \in Nat
      BY DEF BlockInv
    <3>2. SubSeq(policy, 1, Len(policy)) = policy
      BY <3>1
    <3>3. CASE Len(policy) = 0
      <4>1. DOMAIN policy = {}
        BY <3>1, <3>3
      <4>2. Newest(policy, r.grader) = 0 /\ Newest(policy, "*") = 0
        BY <4>1 DEF Newest
      <4> QED
        BY <4>2 DEF mode_for
    <3>4. CASE Len(policy) # 0
      <4>1. Len(policy) \in 1..Len(policy)
        BY <3>1, <3>4
      <4> QED
        BY <3>2, <4>1 DEF WatchedBefore
    <3> QED
      BY <3>3, <3>4
  <2> HIDE DEF over, now, r
  <2>5. over = FALSE /\ r.to = "enforce" =>
          Cardinality(Labelers(r.by)) >= MinLabelAuthors /\ WatchedBefore(r.grader, Len(policy))
    <3>1. r.reviewers \in Nat /\ r.reviewers <= Cardinality(Labelers(r.by)) /\ MinLabelAuthors \in Nat
          /\ Cardinality(Labelers(r.by)) \in Nat
      BY <1>0, <2>1, ReviewersLabel, LabelersAreFinite DEF HasSay
    <3> QED
      BY <2>3, <2>4, <3>1
  <2>6. e.by = r.by /\ e.grader = r.grader /\ e.mode = r.to /\ e.overridden = over
    BY DEF Entry
  <2> HIDE DEF e
  <2>7. HasSay(new)
    BY <2>5, <2>6 DEF HasSay
  <2> HIDE DEF new
  <2> QED
    BY <1>0, <1>6, <1>q, <2>2, <2>7, NoneIsTold DEF CheckPromote, AddsHeeded
<1>7. ASSUME NEW s \in sc.slots, AppendEntry(s) PROVE SayInv'
  <2>1. req[s].entry \in PolicyEntry /\ Heeded(req[s].entry)
    BY <1>0, <1>7 DEF AppendEntry, RequestAllowed, HasSay, Heeded
  <2> QED
    BY <1>0, <1>7, <1>q, <2>1, NoneIsTold DEF AppendEntry, _add, Close, AddsHeeded
<1>8. ASSUME NEW s \in sc.slots, NEW p \in Admins, BeginHealth(s, p) PROVE SayInv'
  <2>1. HasSay([op |-> "health", recs |-> _evidence_records, ls |-> _labels])
    BY DEF HasSay
  <2> QED
    BY <1>0, <1>8, <1>q, <2>1 DEF BeginHealth, Open, AddsHeeded
<1>9. ASSUME NEW s \in sc.slots, Judge(s) PROVE SayInv'
  <2>1. \A bad : HasSay([op |-> "demote", bad |-> bad])
    BY DEF HasSay
  <2>2. \E bad : req' = [req EXCEPT ![s] = [op |-> "demote", bad |-> bad]]
    BY <1>9 DEF Judge, Goto
  <2>3. PutsTold
    BY <2>1, <2>2
  <2> QED
    BY <1>0, <1>9, <1>q, <2>3 DEF Judge, AddsHeeded
<1>10. ASSUME NEW s \in sc.slots, autodemote(s) PROVE SayInv'
  <2>1. UNCHANGED <<sc, pilot, labels>> /\ pgone' \in Nat /\ lgone' \in Nat
    BY <1>0, <1>10 DEF autodemote
  <2>2. CASE req[s].bad = {} /\ Close(s) /\ UNCHANGED policy
    BY <1>q, <2>1, <2>2, NoneIsTold DEF Close, AddsHeeded
  <2>3. ASSUME NEW g \in req[s].bad, _add(Entry("auto", g, "advisory", "autodemote", FALSE)),
               Goto(s, [op |-> "demote", bad |-> req[s].bad \ {g}]) PROVE SayInv'
    <3>1. g \in Graders
      BY <1>0, <1>10, <2>3 DEF autodemote, RequestAllowed
    <3>2. LET e == Entry("auto", g, "advisory", "autodemote", FALSE) IN e \in PolicyEntry /\ Heeded(e)
      BY <3>1 DEF Entry, PolicyEntry, Heeded, Levels, ModeRank
    <3>3. HasSay([op |-> "demote", bad |-> req[s].bad \ {g}])
      BY DEF HasSay
    <3> QED
      BY <1>q, <2>1, <2>3, <3>2, <3>3 DEF _add, Goto, AddsHeeded
  <2> QED
    BY <1>10, <2>2, <2>3 DEF autodemote
<1>11. ASSUME NEW p \in People, NEW rows \in sc.batches, NEW amend \in BOOLEAN, AddLabels(p, rows, amend) PROVE SayInv'
  <2>1. EvidenceStays
    BY <1>0, <1>11, LabelsStaySane
  <2>2. LabelsStand'
    BY <1>0, <1>11, StandingKept
  <2> QED
    BY <1>11, <2>1, <2>2, SayKept DEF AddLabels, AddsHeeded
<1>12. ASSUME NEW p \in Admins, NEW g \in Graders \cup {"*"}, NEW m \in Levels, demote(p, g, m) PROVE SayInv'
  <2>1. LET e == Entry(p, g, m, "demote", FALSE) IN e \in PolicyEntry /\ Heeded(e)
    BY <1>12, AdminsArePeople DEF demote, MayDemoteTo, Entry, PolicyEntry, Heeded
  <2> QED
    BY <1>0, <1>12, <1>q, <2>1 DEF demote, _add, AddsHeeded
<1>13. ASSUME NEW p \in Admins, NEW m \in Levels, set_default(p, m) PROVE SayInv'
  <2>1. LET e == Entry(p, "*", m, "set", FALSE) IN e \in PolicyEntry /\ Heeded(e)
    BY <1>13, AdminsArePeople DEF set_default, MaySetDefault, Entry, PolicyEntry, Heeded
  <2> QED
    BY <1>0, <1>13, <1>q, <2>1 DEF set_default, _add, AddsHeeded
<1>14. ASSUME NEW p \in Admins, NEW which, NEW keep \in 0..2, Archive(p, which, keep) PROVE SayInv'
  <2>1. UNCHANGED <<sc, pilot, labels, policy, req>> /\ pgone' \in Nat /\ lgone' \in Nat
    BY <1>0, <1>14, LogDomains DEF Archive
  <2> QED
    BY <1>q, <2>1 DEF AddsHeeded
<1>15. ASSUME NEW k, Restart(k) PROVE SayInv'
  BY <1>0, <1>15, <1>q DEF Restart, AddsHeeded
<1>16. CASE UNCHANGED vars
  BY <1>0, <1>16, <1>q DEF vars, AddsHeeded
<1> QED
  BY <1>1, <1>2, <1>3, <1>4, <1>5, <1>6, <1>7, <1>8, <1>9, <1>10, <1>11, <1>12, <1>13, <1>14, <1>15, <1>16
     DEF Next, Recording, Promoting, Watching, Labelling, Administration

LEMMA SayStart == Init => SayInv
BY EmptyLog, NoneIsTold DEF Init, SayInv, LogsAreSane, Earned, LabelsStand, TakesThree, SteppedUp

\* Nobody puts a grader in charge alone: besides the admin who promotes, enough
\* others labeled evidence that somebody else had recorded, however the counting,
\* the promotion and an archive of either log meet.
THEOREM PromotionTakesThree == Spec => []TakesThree
<1>1. SayInv => TakesThree
  BY DEF SayInv
<1> QED
  BY BlockStart, BlockStep, SayStart, SayStep, <1>1, PTL DEF Spec

\* A grader that enforces on evidence was at advisory before, also where two
\* promotions or a demotion pass each other: the policy is read without its lock.
THEOREM EnforcingWasWatched == Spec => []SteppedUp
<1>1. SayInv => SteppedUp
  BY DEF SayInv
<1> QED
  BY BlockStart, BlockStep, SayStart, SayStep, <1>1, PTL DEF Spec

\* The first label of an artifact settles it until an admin amends it, also when
\* the label itself was archived.
THEOREM FirstLabelStands == Spec => []LabelsStand
<1>1. SayInv => LabelsStand
  BY DEF SayInv
<1> QED
  BY BlockStart, BlockStep, SayStart, SayStep, <1>1, PTL DEF Spec

-----------------------------------------------------------------------------
(* What a hot folder releases.  Every file version gets its number once    *)
(* (the numbers count down with the writes that are left), so a verdict on *)
(* a version stays right whatever happens to the folder: the content of    *)
(* that version never changes, and another version is another number.      *)

\* The modes in which a pass moves a file.
Bites(m, l) == m = "enforce" \/ (m = "policy" /\ l = "enforce" /\ Steady)
\* Verdicts are about bytes only where facts have to name theirs.
GoodFor(n, v) == RequireBinding = TRUE /\ inc[n] # Nothing /\ inc[n].version = v => inc[n].content \in Good
Used(v) == v \in Nat /\ hf.writes < v

FolderSane ==
  /\ hf \in Bounds /\ level \in hf.levels
  /\ DOMAIN inc = Names /\ DOMAIN facts = Names /\ DOMAIN side = Names
  /\ \A n \in Names : inc[n] # Nothing =>
        DOMAIN inc[n] = {"content", "version", "ctime", "young", "late"} /\ Used(inc[n].version)
  /\ \A n \in Names : facts[n] # Nothing =>
        facts[n].ok \in BOOLEAN /\ (facts[n].of # "" /\ facts[n].ok = TRUE => facts[n].of \in Good)

SidecarFits(n) ==
  side[n] # Nothing =>
    /\ Used(side[n].sig[1])
    /\ Bites(side[n].mode, level) => side[n].enforced \in Verdict
    /\ side[n].enforced = "pass" /\ ~side[n].killed /\ Bites(side[n].mode, level) => GoodFor(n, side[n].sig[1])

Scanning == {"next", "grade", "record", "sidecar", "restat", "base", "rename", "facts", "side"}
AtFile == Scanning \ {"next"}
HasVerdict == {"sidecar", "restat", "base", "rename", "facts", "side"}
WatcherFits ==
  /\ "pc" \in DOMAIN w /\ w.pc \in Scanning \cup {"idle", "save"}
  /\ w.pc \in Scanning =>
       /\ {"todo", "level"} \subseteq DOMAIN w /\ w.level \in hf.levels
       /\ DOMAIN w.todo \subseteq Names /\ DOMAIN w.todo # {} /\ \A n \in DOMAIN w.todo : w.todo[n] \in Nat
  /\ w.pc \in AtFile => {"name", "sig"} \subseteq DOMAIN w /\ w.name \in Names /\ Used(w.sig[1])
  /\ w.pc = "record" =>
       /\ "report" \in DOMAIN w /\ w.report.grader = "media"
       /\ plain_gate({w.report}) = "pass" => GoodFor(w.name, w.sig[1])
  /\ w.pc \in HasVerdict =>
       /\ {"enforced", "killed"} \subseteq DOMAIN w
       /\ Bites(mode, w.level) => w.enforced \in Verdict
       /\ w.enforced = "pass" /\ ~w.killed /\ Bites(mode, w.level) => GoodFor(w.name, w.sig[1])
  /\ w.pc \in {"base", "rename"} /\ inc[w.name] # Nothing =>
       inc[w.name].late = TRUE \/ inc[w.name].version = w.sig[1]

Released(x) ==
  (RequireBinding = TRUE /\ x.kind = "asset" /\ x.dir = "passed" /\ ~x.what.file.late /\ ~x.what.killed /\ Bites(x.what.mode, x.what.level))
    => x.what.file.content \in Good

FolderInv ==
  /\ FolderSane /\ WatcherFits /\ cursor \in Nat
  /\ \A n \in Names : SidecarFits(n)
  /\ \A x \in dest : Released(x)

LEMMA AtMerges ==
  ASSUME NEW pc, NEW more, At(pc, more), "pc" \in DOMAIN w, "pc" \notin DOMAIN more
  PROVE  /\ w'["pc"] = pc /\ DOMAIN w' = DOMAIN more \cup DOMAIN w
         /\ \A k \in DOMAIN more : w'[k] = more[k]
         /\ \A k \in DOMAIN w \ (DOMAIN more \cup {"pc"}) : w'[k] = w[k]
BY DEF At

\* The numbers count down, and a file keeps its content while it keeps its number.
FileStays(n) ==
  inc'[n] # Nothing =>
    \/ inc[n] # Nothing /\ inc'[n].version = inc[n].version /\ inc'[n].content = inc[n].content
    \/ inc'[n].version <= hf.writes
Onward ==
  /\ FolderSane' /\ hf'.writes <= hf.writes /\ hf'.levels = hf.levels
  /\ \A n \in Names : FileStays(n)

LEMMA VerdictsLast ==
  ASSUME FolderSane, Onward, NEW n \in Names, NEW v, Used(v), GoodFor(n, v)
  PROVE  Used(v)' /\ GoodFor(n, v)'
<1>1. v \in Nat /\ hf.writes \in Nat /\ hf'.writes \in Nat /\ hf'.writes <= hf.writes /\ hf.writes < v
  BY DEF Used, FolderSane, Bounds, Onward
<1>2. Used(v)'
  BY <1>1 DEF Used
<1>3. ASSUME RequireBinding = TRUE, inc'[n] # Nothing, inc'[n].version = v PROVE inc'[n].content \in Good
  <2>1. ~(inc'[n].version <= hf.writes)
    BY <1>1, <1>3
  <2>2. inc[n] # Nothing /\ inc'[n].version = inc[n].version /\ inc'[n].content = inc[n].content
    BY <1>3, <2>1 DEF Onward, FileStays
  <2> QED
    BY <1>3, <2>2 DEF GoodFor
<1> QED
  BY <1>2, <1>3 DEF GoodFor

LEMMA NumbersLast ==
  ASSUME FolderSane, Onward, NEW v, Used(v)
  PROVE  Used(v)'
<1>1. v \in Nat /\ hf.writes \in Nat /\ hf'.writes \in Nat /\ hf'.writes <= hf.writes /\ hf.writes < v
  BY DEF Used, FolderSane, Bounds, Onward
<1> QED
  BY <1>1 DEF Used

\* Under a policy that does not change, the level is what it was.
LEMMA BitesLast ==
  ASSUME FolderSane, Onward, NEW m, NEW l
  PROVE  (Bites(m, l)' <=> Bites(m, l)) /\ (Bites(m, level') => Bites(m, level))
BY DEF Bites, Steady, FolderSane, Onward

LEMMA SidecarsLast ==
  ASSUME FolderSane, Onward, NEW n \in Names, SidecarFits(n), side'[n] = side[n] \/ side'[n] = Nothing
  PROVE  SidecarFits(n)'
<1>1. CASE side'[n] = Nothing
  BY <1>1 DEF SidecarFits
<1>2. ASSUME NEW v, NEW m, NEW e, NEW q, v = side[n].sig[1], m = side[n].mode, e = side[n].enforced, q = side[n].killed,
             side'[n] = side[n], side[n] # Nothing
      PROVE  SidecarFits(n)'
  <2>1. Used(v) /\ (e = "pass" /\ ~q /\ Bites(m, level) => GoodFor(n, v)) /\ (Bites(m, level) => e \in Verdict)
    BY <1>2 DEF SidecarFits
  <2>2. Used(v)'
    BY <2>1, NumbersLast
  <2>3. (e = "pass" /\ ~q /\ Bites(m, level') => GoodFor(n, v)') /\ (Bites(m, level') => e \in Verdict)
    BY <2>1, VerdictsLast, BitesLast
  <2>4. side'[n].sig[1] = v /\ side'[n].mode = m /\ side'[n].enforced = e /\ side'[n].killed = q
    BY <1>2
  <2>5. Bites(side[n].mode, level)' => Bites(m, level')
    BY <2>4 DEF Bites, Steady, Onward
  <2> QED
    BY <2>2, <2>3, <2>4, <2>5 DEF SidecarFits
<1> QED
  BY <1>1, <1>2

LEMMA IssueBlocks ==
  ASSUME NEW r, NEW i \in r.issues, i.sev \in {"error", "critical"}
  PROVE  plain_gate({r}) # "pass"
<1>1. Absent({r}, {}) = {} /\ Hollow({r}, {}, NoAsk) = {}
  BY DEF Absent, Hollow
<1>2. plain_gate({r}) = Verdict_(Severities({r}))
  BY <1>1 DEF plain_gate, gate
<1>3. Effective(r, i) \in Severities({r})
  BY DEF Severities
<1>4. Effective(r, i) \in {"error", "critical", "warning"}
  BY DEF Effective, clamp_ceiling
<1>5. Rank("error") = 3 /\ Rank("critical") = 4
  BY DEF Rank, SEV_ORDER
<1> QED
  BY <1>2, <1>3, <1>4, <1>5 DEF Verdict_, AtLeast

AreTrue(fa) == fa.ok \in BOOLEAN /\ (fa.of # "" /\ fa.ok = TRUE => fa.of \in Good)

\* Facts that name a file's bytes and meet the spec are facts of good bytes.
LEMMA PassIsMeasured ==
  ASSUME RequireBinding = TRUE, NEW fa, NEW c, AreTrue(fa), plain_gate({grade_media(fa, c)}) = "pass"
  PROVE  c \in Good
<1> DEFINE r == grade_media(fa, c)
           b == Issue("critical", "high", "binding")
           e == Issue("error", "high", "spec")
<1>1. b.sev = "critical" /\ e.sev = "error"
  BY DEF Issue
<1>2. (~fa.ok => e \in r.issues) /\ (Misnamed(fa, c) => b \in r.issues)
  BY DEF grade_media, Report
<1> HIDE DEF r, b, e
<1>3. plain_gate({r}) = "pass"
  BY DEF r
<1>4. fa.ok /\ ~Misnamed(fa, c)
  BY <1>1, <1>2, <1>3, IssueBlocks
<1> QED
  BY <1>4 DEF Misnamed, AreTrue

\* In a mode that bites a pass is a pass of the gate.
LEMMA BiteMeansGate ==
  ASSUME NEW r, r.grader = "media", NEW m, NEW l, Bites(m, l),
         run_pilot({r}, m, Policy(l), FALSE, FALSE) = "pass"
  PROVE  plain_gate({r}) = "pass"
<1>1. CASE m = "enforce"
  BY <1>1 DEF run_pilot, apply_mode, would_be
<1>2. CASE m = "policy" /\ l = "enforce"
  <2> DEFINE P == Policy(l)
  <2>1. DOMAIN P = {1} /\ P[1].grader = "media" /\ P[1].mode = "enforce"
    BY <1>2 DEF Policy
  <2> HIDE DEF P
  <2>2. {k \in DOMAIN P : P[k].grader = "media"} = {1}
    BY <2>1
  <2>3. Newest(P, "media") = 1
    <3>1. \A k \in {1} : (\A j \in {1} : j <= k) <=> k = 1
      OBVIOUS
    <3> QED
      BY <2>2, <3>1 DEF Newest
  <2>4. mode_for(P, r.grader) = "enforce"
    BY <2>1, <2>3 DEF mode_for
  <2>5. Heard({r}, P, "enforce") = {r}
    BY <2>4 DEF Heard
  <2>6. enforced_verdict({r}, P) = "pass"
    BY <1>2 DEF run_pilot, P
  <2> QED
    BY <2>5, <2>6 DEF enforced_verdict
<1> QED
  BY <1>1, <1>2 DEF Bites

LEMMA FirstIsThere ==
  ASSUME NEW todo, DOMAIN todo # {}, \A n \in DOMAIN todo : todo[n] \in Nat
  PROVE  FirstOf(todo) \in DOMAIN todo
<1> DEFINE R == OpToRel(<, Nat)
           T == {todo[n] : n \in DOMAIN todo}
<1>1. IsWellFoundedOn(R, Nat)
  BY NatLessThanWellFounded
<1>2. \A x, y \in Nat : x < y => <<x, y>> \in R
  BY DEF OpToRel
<1> HIDE DEF R
<1>3. T \in SUBSET Nat /\ T # {}
  OBVIOUS
<1>4. PICK t \in T : \A y \in T : ~(<<y, t>> \in R)
  BY <1>1, <1>3, WFMin
<1>5. PICK n \in DOMAIN todo : t = todo[n]
  BY <1>4
<1>6. ASSUME NEW m \in DOMAIN todo PROVE todo[n] <= todo[m]
  <2>1. todo[m] \in T /\ todo[m] \in Nat /\ todo[n] \in Nat
    OBVIOUS
  <2>2. ~(todo[m] < todo[n])
    BY <1>2, <1>4, <1>5, <2>1
  <2> QED
    BY <2>1, <2>2
<1>7. \E k \in DOMAIN todo : \A m \in DOMAIN todo : todo[k] <= todo[m]
  BY <1>6
<1> QED
  BY <1>7 DEF FirstOf

LEMMA FolderKept ==
  ASSUME FolderInv, Onward, WatcherFits',
         \A n \in Names : side'[n] = side[n] \/ side'[n] = Nothing \/ SidecarFits(n)',
         \A x \in dest' : x \in dest \/ Released(x)', cursor' \in Nat
  PROVE  FolderInv'
<1>1. FolderSane /\ FolderSane'
  BY DEF FolderInv, Onward
<1>2. \A n \in Names : SidecarFits(n)'
  BY <1>1, SidecarsLast DEF FolderInv
<1>3. ASSUME NEW x \in dest PROVE Released(x)'
  <2>1. Bites(x.what.mode, x.what.level)' <=> Bites(x.what.mode, x.what.level)
    BY <1>1, BitesLast
  <2> QED
    BY <2>1 DEF FolderInv, Released
<1> QED
  BY <1>1, <1>2, <1>3 DEF FolderInv

LEMMA StillOnward ==
  ASSUME FolderSane, UNCHANGED <<hf, level, inc, facts>>, DOMAIN side' = Names
  PROVE  Onward
<1>1. hf.writes \in Nat
  BY DEF FolderSane, Bounds
<1>2. FolderSane'
  BY DEF FolderSane, Used
<1>3. \A n \in Names : FileStays(n)
  BY DEF FileStays
<1> QED
  BY <1>1, <1>2, <1>3 DEF Onward

\* The watcher at rest, whatever goes on around it.
LEMMA WatcherRests ==
  ASSUME FolderInv, Onward, mode' = mode, w' = w,
         w.pc \in {"base", "rename"} /\ inc'[w.name] # Nothing =>
           inc'[w.name].late = TRUE \/ inc'[w.name].version = w.sig[1]
  PROVE  WatcherFits'
<1>1. FolderSane /\ WatcherFits /\ hf'.levels = hf.levels
  BY DEF FolderInv, Onward
<1>2. w.pc \in AtFile => Used(w.sig[1])'
  BY <1>1, NumbersLast DEF WatcherFits
<1>3. w.pc = "record" => (plain_gate({w.report}) = "pass" => GoodFor(w.name, w.sig[1])')
  BY <1>1, VerdictsLast DEF WatcherFits, AtFile, Scanning
<1>4. w.pc \in HasVerdict => (w.enforced = "pass" /\ ~w.killed /\ Bites(mode, w.level) => GoodFor(w.name, w.sig[1])')
  BY <1>1, VerdictsLast DEF WatcherFits, AtFile, Scanning, HasVerdict
<1>5. Bites(mode, w.level)' <=> Bites(mode, w.level)
  BY <1>1 DEF Bites, Steady
<1> QED
  BY <1>1, <1>2, <1>3, <1>4, <1>5 DEF WatcherFits, GoodFor, Used

LEMMA ScanFits ==
  ASSUME FolderInv, Onward, w.pc \in Scanning, NEW times, ScanAt(Restrict(w.todo, Others), times)
  PROVE  WatcherFits'
<1>1. WatcherFits /\ hf'.levels = hf.levels
  BY DEF FolderInv, Onward
<1>2. /\ {"pc", "todo", "level"} \subseteq DOMAIN w' /\ w'.todo = Restrict(w.todo, Others)
      /\ w'.level = w.level /\ w'.pc = (IF DOMAIN w'.todo = {} THEN "save" ELSE "next")
  BY DEF ScanAt
<1>3. DOMAIN w'.todo = Others /\ \A n \in Others : w'.todo[n] = w.todo[n]
  BY <1>2 DEF Restrict
<1>4. Others \subseteq DOMAIN w.todo
  BY DEF Others
<1>5. w.level \in hf.levels /\ DOMAIN w.todo \subseteq Names /\ \A n \in DOMAIN w.todo : w.todo[n] \in Nat
  BY <1>1 DEF WatcherFits
<1>6. w'.pc \in {"save", "next"}
  BY <1>2
<1>7. w'.pc \in Scanning => Others # {}
  BY <1>2, <1>3 DEF Scanning
<1> QED
  BY <1>1, <1>2, <1>3, <1>4, <1>5, <1>6, <1>7 DEF WatcherFits, AtFile, HasVerdict, Scanning

LEMMA NextFileFits ==
  ASSUME FolderInv, Onward, w.pc \in Scanning, NextFile
  PROVE  WatcherFits'
BY ScanFits DEF NextFile

LEMMA VerdictKept ==
  ASSUME FolderInv, Onward, mode' = mode, w.pc \in HasVerdict, NEW pc \in HasVerdict,
         NEW more, At(pc, more), DOMAIN more \subseteq {"base"},
         pc \in {"base", "rename"} /\ inc'[w.name] # Nothing =>
           inc'[w.name].late = TRUE \/ inc'[w.name].version = w.sig[1]
  PROVE  WatcherFits'
<1>1. FolderSane /\ WatcherFits /\ hf'.levels = hf.levels /\ w.pc \in AtFile /\ w.pc \in Scanning
  BY DEF FolderInv, Onward, AtFile, Scanning, HasVerdict
<1>2. /\ {"pc", "todo", "level", "name", "sig", "enforced", "killed"} \subseteq DOMAIN w
      /\ w.name \in Names /\ Used(w.sig[1])
      /\ w.enforced = "pass" /\ ~w.killed /\ Bites(mode, w.level) => GoodFor(w.name, w.sig[1])
      /\ Bites(mode, w.level) => w.enforced \in Verdict
  BY <1>1 DEF WatcherFits
<1>3. /\ w'.pc = pc /\ w'.todo = w.todo /\ w'.level = w.level /\ w'.name = w.name /\ w'.sig = w.sig
      /\ w'.enforced = w.enforced /\ w'.killed = w.killed /\ DOMAIN w \subseteq DOMAIN w'
  <2>1. "pc" \in DOMAIN w /\ "pc" \notin DOMAIN more
    BY <1>2
  <2>2. /\ w'["pc"] = pc /\ DOMAIN w' = DOMAIN more \cup DOMAIN w
        /\ \A k \in DOMAIN w \ (DOMAIN more \cup {"pc"}) : w'[k] = w[k]
    BY <2>1, AtMerges
  <2>3. {"todo", "level", "name", "sig", "enforced", "killed"} \subseteq DOMAIN w \ (DOMAIN more \cup {"pc"})
    BY <1>2
  <2> QED
    BY <2>2, <2>3
<1>4. Used(w.sig[1])'
  BY <1>1, <1>2, <1>3, NumbersLast DEF Used
<1>5. w.enforced = "pass" /\ ~w.killed /\ Bites(mode, w.level) =>
        (RequireBinding = TRUE /\ inc'[w'.name] # Nothing /\ inc'[w'.name].version = w'.sig[1] => inc'[w'.name].content \in Good)
  <2>1. PICK v : v = w.sig[1]
    OBVIOUS
  <2>2. PICK n \in Names : n = w.name
    BY <1>2
  <2>3. GoodFor(n, v) => GoodFor(n, v)'
    BY <1>1, <1>2, <2>1, VerdictsLast
  <2> QED
    BY <1>2, <1>3, <2>1, <2>2, <2>3 DEF GoodFor
<1>6. Bites(mode, w.level)' <=> Bites(mode, w.level)
  BY <1>1, <1>3 DEF Bites, Steady
<1>7. ((w.enforced = "pass" /\ ~w.killed /\ Bites(mode, w.level) => GoodFor(w.name, w.sig[1]))
         /\ (Bites(mode, w.level) => w.enforced \in Verdict))'
  BY <1>2, <1>3, <1>5, <1>6 DEF GoodFor
<1>8. pc \in {"base", "rename"} /\ inc'[w'.name] # Nothing =>
        inc'[w'.name].late = TRUE \/ inc'[w'.name].version = w'.sig[1]
  BY <1>3
<1>9. pc # "record" /\ pc \in AtFile /\ pc \in Scanning
  BY DEF HasVerdict, AtFile, Scanning
<1> QED
  BY <1>1, <1>2, <1>3, <1>4, <1>7, <1>8, <1>9 DEF WatcherFits

LEMMA DropKeeps ==
  ASSUME FolderInv, NEW n \in hf.names, NEW c \in Contents, Drop(n, c)
  PROVE  FolderInv'
<1>1. FolderSane /\ WatcherFits /\ hf \in Bounds /\ n \in Names
  BY DEF FolderInv, FolderSane, Bounds
<1>2. hf.writes \in Nat /\ hf.writes > 0 /\ hf' = [hf EXCEPT !["writes"] = @ - 1]
  BY <1>1 DEF Drop, Spend, Bounds
<1>3. hf' \in Bounds /\ hf'.writes = hf.writes - 1 /\ hf'.levels = hf.levels
  BY <1>1, <1>2 DEF Bounds
<1>4. /\ DOMAIN inc' = Names /\ \A m \in Names \ {n} : inc'[m] = inc[m]
      /\ inc'[n].version = hf.writes /\ inc'[n].late = Verified(n)
  BY <1>1 DEF Drop, FolderSane
<1>5. UNCHANGED <<mode, level, facts, w, side, dest, cursor>>
  BY DEF Drop, disk
<1>6. ASSUME NEW m \in Names, inc'[m] # Nothing
      PROVE  DOMAIN inc'[m] = {"content", "version", "ctime", "young", "late"}
             /\ inc'[m].version \in Nat /\ hf'.writes < inc'[m].version
  <2>1. CASE m = n
    <3>1. DOMAIN inc'[n] = {"content", "version", "ctime", "young", "late"}
      BY <1>1 DEF Drop, FolderSane
    <3> QED
      BY <1>2, <1>3, <1>4, <2>1, <3>1
  <2>2. CASE m # n
    <3>1. inc'[m] = inc[m]
      BY <1>4, <2>2
    <3>2. DOMAIN inc[m] = {"content", "version", "ctime", "young", "late"} /\ Used(inc[m].version)
      BY <1>1, <1>6, <3>1 DEF FolderSane
    <3>3. inc[m].version \in Nat /\ hf.writes < inc[m].version
      BY <3>2 DEF Used
    <3> QED
      BY <1>2, <1>3, <3>1, <3>2, <3>3
  <2> QED
    BY <2>1, <2>2
<1>7. FolderSane'
  BY <1>1, <1>3, <1>4, <1>5, <1>6 DEF FolderSane, Used
<1>8. Onward
  BY <1>2, <1>3, <1>4, <1>7 DEF Onward, FileStays
<1>9. w.pc \in {"base", "rename"} /\ inc'[w.name] # Nothing =>
        inc'[w.name].late = TRUE \/ inc'[w.name].version = w.sig[1]
  <2>1. CASE w.name = n
    BY <1>4, <2>1 DEF Verified
  <2>2. CASE w.name # n
    BY <1>1, <1>4, <2>2 DEF WatcherFits, AtFile, Scanning
  <2> QED
    BY <2>1, <2>2
<1>10. WatcherFits'
  BY <1>5, <1>8, <1>9, WatcherRests
<1> QED
  BY <1>5, <1>8, <1>10, FolderKept DEF FolderInv

LEMMA TouchKeeps ==
  ASSUME FolderInv, NEW n \in hf.names, Touch(n) \/ Settle(n)
  PROVE  FolderInv'
<1>1. FolderSane /\ WatcherFits /\ hf \in Bounds /\ n \in Names
  BY DEF FolderInv, FolderSane, Bounds
<1>2. hf' \in Bounds /\ hf'.writes = hf.writes /\ hf'.levels = hf.levels /\ hf.writes \in Nat
  BY <1>1 DEF Touch, Settle, Spend, Bounds
<1>3. UNCHANGED <<mode, level, facts, w, side, dest, cursor>>
  BY DEF Touch, Settle, disk
<1>4. /\ DOMAIN inc' = Names /\ inc[n] # Nothing
      /\ \A m \in Names \ {n} : inc'[m] = inc[m]
      /\ \E x : inc'[n] = [inc[n] EXCEPT !.ctime = x] \/ inc'[n] = [inc[n] EXCEPT !.young = x]
  BY <1>1 DEF Touch, Settle, FolderSane
<1>5. inc'[n].version = inc[n].version /\ inc'[n].content = inc[n].content /\ inc'[n].late = inc[n].late
      /\ DOMAIN inc'[n] = DOMAIN inc[n]
  BY <1>1, <1>4 DEF FolderSane
<1>6. FolderSane'
  BY <1>1, <1>2, <1>3, <1>4, <1>5 DEF FolderSane, Used
<1>7. Onward
  BY <1>2, <1>4, <1>5, <1>6 DEF Onward, FileStays
<1>8. w.pc \in {"base", "rename"} /\ inc'[w.name] # Nothing =>
        inc'[w.name].late = TRUE \/ inc'[w.name].version = w.sig[1]
  BY <1>1, <1>4, <1>5 DEF WatcherFits, AtFile, Scanning
<1>9. WatcherFits'
  BY <1>3, <1>7, <1>8, WatcherRests
<1> QED
  BY <1>3, <1>7, <1>9, FolderKept DEF FolderInv

LEMMA MeasuredFields ==
  ASSUME NEW fa, NEW name, NEW c, fa = [of |-> name, ok |-> c \in Good]
  PROVE  fa.of = name /\ fa.ok \in BOOLEAN /\ (fa.ok = TRUE => c \in Good)
<1>1. fa.of = name
  OBVIOUS
<1>2. fa.ok \in BOOLEAN
  <2>1. fa.ok = (c \in Good)
    BY Zenon
  <2>2. (c \in Good) \in BOOLEAN
    OBVIOUS
  <2> QED
    BY <2>1, <2>2, Zenon
<1>3. fa.ok = TRUE => c \in Good
  BY Zenon
<1> QED
  BY <1>1, <1>2, <1>3

LEMMA MeasureKeeps ==
  ASSUME FolderInv, NEW n \in hf.names, NEW c \in Contents, NEW named \in BOOLEAN, Measure(n, c, named)
  PROVE  FolderInv'
<1>1. FolderSane /\ WatcherFits /\ hf \in Bounds /\ n \in Names
  BY DEF FolderInv, FolderSane, Bounds
<1>2. hf' \in Bounds /\ hf'.writes = hf.writes /\ hf'.levels = hf.levels /\ hf.writes \in Nat
  <2>1. Spend("measures")
    BY DEF Measure
  <2> QED
    BY <1>1, <2>1 DEF Spend, Bounds
<1>3. UNCHANGED <<mode, level, inc, w, side, dest, cursor>>
  BY DEF Measure, disk
<1>4. /\ DOMAIN facts' = Names /\ \A m \in Names \ {n} : facts'[m] = facts[m]
      /\ facts'[n] = [of |-> IF named THEN c ELSE "", ok |-> c \in Good]
  BY <1>1 DEF Measure, FolderSane
<1>5. ASSUME NEW m \in Names, facts'[m] # Nothing
      PROVE  facts'[m].ok \in BOOLEAN /\ (facts'[m].of # "" /\ facts'[m].ok = TRUE => facts'[m].of \in Good)
  <2>1. CASE m = n
    <3>1. facts'[n].of = (IF named THEN c ELSE "") /\ facts'[n].ok \in BOOLEAN /\ (facts'[n].ok = TRUE => c \in Good)
      BY <1>4, MeasuredFields, ZenonT(60)
    <3> QED
      BY <2>1, <3>1
  <2>2. CASE m # n
    BY <1>1, <1>4, <1>5, <2>2 DEF FolderSane
  <2> QED
    BY <2>1, <2>2
<1>6. FolderSane'
  BY <1>1, <1>2, <1>3, <1>4, <1>5 DEF FolderSane, Used
<1>7. Onward
  BY <1>2, <1>3, <1>6 DEF Onward, FileStays
<1>8. WatcherFits'
  BY <1>1, <1>3, <1>7, WatcherRests DEF WatcherFits
<1> QED
  BY <1>3, <1>7, <1>8, FolderKept DEF FolderInv

LEMMA OutsideKeeps ==
  ASSUME FolderInv, (\E l \in Levels : SetLevel(l)) \/ ArchiveDecisions
  PROVE  FolderInv'
<1>1. FolderSane /\ WatcherFits /\ hf \in Bounds /\ hf.writes \in Nat
  BY DEF FolderInv, FolderSane, Bounds
<1>2. UNCHANGED <<hf, mode, inc, facts, w, side, dest, cursor>> /\ level' \in hf.levels
  BY <1>1 DEF SetLevel, ArchiveDecisions, disk, FolderSane
<1>3. FolderSane'
  BY <1>1, <1>2 DEF FolderSane, Used
<1>4. Onward
  BY <1>1, <1>2, <1>3 DEF Onward, FileStays
<1>5. WatcherFits'
  BY <1>1, <1>2, <1>4, WatcherRests DEF WatcherFits
<1> QED
  BY <1>2, <1>4, <1>5, FolderKept DEF FolderInv

LEMMA CrashKeeps ==
  ASSUME FolderInv, NEW m, NEW k, Crash(m, k)
  PROVE  FolderInv'
<1>1. FolderSane /\ hf \in Bounds
  BY DEF FolderInv, FolderSane
<1>2. hf' \in Bounds /\ hf'.writes = hf.writes /\ hf'.levels = hf.levels /\ hf.writes \in Nat
  BY <1>1 DEF Crash, Spend, Bounds
<1>3. UNCHANGED <<level, inc, facts, side, dest, cursor>> /\ w' = Idle
  BY DEF Crash, disk, env
<1>4. FolderSane'
  BY <1>1, <1>2, <1>3 DEF FolderSane, Used
<1>5. Onward
  BY <1>2, <1>3, <1>4 DEF Onward, FileStays
<1>6. WatcherFits'
  BY <1>3 DEF WatcherFits, Idle, AtFile, HasVerdict, Scanning
<1> QED
  BY <1>3, <1>5, <1>6, FolderKept DEF FolderInv

\* Somebody is the first of the scan: the places of the files are 0, 1, 2...
LEMMA SomeoneIsFirst ==
  ASSUME cursor \in Nat, IsFiniteSet(Listed), Listed # {}, Listed \subseteq Names
  PROVE  /\ Start \in Nat /\ \A n \in Listed : Turn(n) \in Nat
         /\ \E n \in Listed : Turn(n) = 0
<1> DEFINE N == Cardinality(Listed)
           Less(n) == {m \in Listed : m < n}
           f == [n \in Listed |-> Place(n)]
<1>1. N \in Nat /\ N # 0 /\ \A n \in Listed : n \in Nat
  BY NamesAreNumbers, FS_CardinalityType, FS_EmptySet
<1>2. ASSUME NEW n \in Listed PROVE IsFiniteSet(Less(n)) /\ Place(n) \in Nat /\ Place(n) < N
  <2>1. Less(n) \in SUBSET Listed /\ n \notin Less(n)
    BY <1>1
  <2> HIDE DEF Less
  <2>2. IsFiniteSet(Less(n)) /\ Cardinality(Less(n)) \in Nat /\ Cardinality(Less(n)) <= N /\ Cardinality(Less(n)) # N
    BY <1>2, <2>1, FS_Subset, FS_CardinalityType
  <2>3. Place(n) = Cardinality(Less(n))
    BY DEF Place, Less
  <2> QED
    BY <1>1, <2>2, <2>3
<1>3. ASSUME NEW n \in Listed, NEW m \in Listed, m < n PROVE Place(m) # Place(n)
  <2>1. Less(m) \in SUBSET Less(n) /\ m \in Less(n) /\ m \notin Less(m)
    BY <1>1, <1>3
  <2>2. IsFiniteSet(Less(n))
    BY <1>2
  <2> HIDE DEF Less
  <2>3. Cardinality(Less(m)) # Cardinality(Less(n))
    BY <2>1, <2>2, FS_Subset
  <2> QED
    BY <2>3 DEF Place, Less
<1>11. N = Cardinality(Listed)
  OBVIOUS
<1> HIDE DEF N, Less
<1>12. \A n \in Listed : Place(n) \in Nat /\ Place(n) < N
  BY <1>2
<1>13. \A n, m \in Listed : Place(n) = Place(m) => n = m
  BY <1>1, <1>3
<1>4. f \in Injection(Listed, 0..(N - 1))
  <2>1. \A n \in Listed : Place(n) \in 0..(N - 1)
    <3> TAKE n \in Listed
    <3>1. Place(n) \in Nat /\ Place(n) < N
      BY <1>12
    <3> HIDE DEF f
    <3> QED
      BY <1>1, <3>1
  <2> QED
    BY <2>1, <1>13 DEF Injection, IsInjective
<1>5. IsFiniteSet(0..(N - 1)) /\ Cardinality(0..(N - 1)) = N
  BY <1>1, FS_Interval
<1>6. f \in Surjection(Listed, 0..(N - 1))
  BY <1>4, <1>5, <1>11, FS_Injection
<1>7. Start \in 0..(N - 1)
  BY <1>1, <1>11 DEF Start
<1>8. PICK n \in Listed : Place(n) = Start
  BY <1>6, <1>7 DEF Surjection
<1>9. (Start + N - Start) % N = 0
  <2>1. Start + N - Start = N
    BY <1>1, <1>7
  <2> QED
    BY <1>1, <2>1
<1>10. ASSUME NEW k \in Listed PROVE (Place(k) + N - Start) % N \in Nat
  <2> HIDE DEF f
  <2>2. Place(k) \in Nat
    BY <1>12
  <2>1. Place(k) + N - Start \in Int
    BY <1>1, <2>2, <1>7
  <2> QED
    BY <1>1, <2>1
<1> QED
  BY <1>7, <1>8, <1>9, <1>10, <1>11 DEF Turn

LEMMA BeginScanKeeps ==
  ASSUME FolderInv, BeginScan
  PROVE  FolderInv'
<1>1. FolderSane /\ WatcherFits
  BY DEF FolderInv
<1>2. UNCHANGED <<hf, level, inc, facts, side, dest, mode>>
  BY DEF BeginScan, env
<1>3. Onward
  BY <1>1, <1>2, StillOnward DEF FolderSane
<1>4. Listed \subseteq Names /\ IsFiniteSet(Listed) /\ Cardinality(Listed) \in Nat /\ (Listed # {} => Cardinality(Listed) # 0)
  <2>1. Listed \in SUBSET Names
    BY DEF Listed
  <2> QED
    BY <2>1, NamesAreNumbers, FS_Subset, FS_CardinalityType, FS_EmptySet
<1>5. Chosen \subseteq Listed /\ \A n \in Chosen : Turn(n) \in Nat
  <2>1. CASE Listed = {}
    BY <2>1 DEF Chosen
  <2>2. CASE Listed # {}
    BY <1>4, <2>2, SomeoneIsFirst DEF Chosen, FolderInv
  <2> QED
    BY <2>1, <2>2
<1>6. /\ {"pc", "todo", "level"} \subseteq DOMAIN w' /\ w'.level = level
      /\ w'.pc = (IF Chosen = {} THEN "save" ELSE "next")
      /\ DOMAIN w'.todo = Chosen /\ \A n \in Chosen : w'.todo[n] = Turn(n)
  BY DEF BeginScan
<1>7. w'.pc \in {"save", "next"} /\ (w'.pc \in Scanning => Chosen # {})
  BY <1>6 DEF Scanning
<1>8. WatcherFits'
  BY <1>1, <1>2, <1>4, <1>5, <1>6, <1>7, ZenonT(60) DEF WatcherFits, FolderSane, AtFile, HasVerdict, Scanning
<1>9. cursor' \in Nat
  <2>1. IsFiniteSet(Chosen) /\ Cardinality(Chosen) \in Nat
    BY <1>4, <1>5, FS_Subset, FS_CardinalityType
  <2>2. Start \in Nat
    <3>1. CASE Listed = {}
      BY <3>1 DEF Start
    <3>2. CASE Listed # {}
      BY <1>4, <3>2, SomeoneIsFirst DEF FolderInv
    <3> QED
      BY <3>1, <3>2
  <2>3. cursor' = Start + Cardinality(Chosen)
    BY DEF BeginScan
  <2> HIDE DEF BeginScan
  <2> QED
    BY <2>1, <2>2, <2>3
<1> QED
  BY <1>2, <1>3, <1>8, <1>9, FolderKept DEF FolderInv

\* In a mode that bites every verdict is one of the three.
LEMMA BiteIsVerdict ==
  ASSUME NEW r, NEW m, NEW l, Bites(m, l), NEW k
  PROVE  run_pilot({r}, m, Policy(l), k, FALSE) \in Verdict
<1>1. \A R : plain_gate(R) \in Verdict
  BY DEF plain_gate, gate, Verdict_, Verdict
<1>0. CASE k
  BY <1>0 DEF run_pilot, Verdict
<1>2. CASE ~k /\ m = "enforce"
  <2>1. run_pilot({r}, m, Policy(l), k, FALSE) = plain_gate({r})
    BY <1>2 DEF run_pilot, apply_mode, would_be
  <2> QED
    BY <1>1, <2>1
<1>3. CASE ~k /\ m = "policy"
  <2>1. run_pilot({r}, m, Policy(l), k, FALSE) = enforced_verdict({r}, Policy(l))
    BY <1>3 DEF run_pilot
  <2>2. "warn" \in Verdict
    BY DEF Verdict
  <2> QED
    BY <1>1, <2>1, <2>2 DEF enforced_verdict
<1> QED
  BY <1>0, <1>2, <1>3 DEF Bites

\* A step to work on a file keeps what the scan was about.
LEMMA StepFits ==
  ASSUME FolderInv, Onward, w.pc \in Scanning, NEW pc \in AtFile, NEW more, At(pc, more),
         DOMAIN more \cap {"pc", "todo", "level"} = {},
         {"name", "sig"} \subseteq DOMAIN w', w'.name \in Names, Used(w.sig[1])',
         pc = "record" =>
           /\ "report" \in DOMAIN w' /\ w'.report.grader = "media"
           /\ plain_gate({w'.report}) = "pass" => GoodFor(w.name, w.sig[1])',
         pc \in HasVerdict =>
           /\ {"enforced", "killed"} \subseteq DOMAIN w'
           /\ Bites(mode, w.level)' => w'.enforced \in Verdict
           /\ w'.enforced = "pass" /\ ~w'.killed /\ Bites(mode, w.level)' => GoodFor(w.name, w.sig[1])',
         pc \in {"base", "rename"} /\ inc'[w'.name] # Nothing =>
           inc'[w'.name].late = TRUE \/ inc'[w'.name].version = w'.sig[1]
  PROVE  WatcherFits'
<1>1. WatcherFits /\ hf'.levels = hf.levels
  BY DEF FolderInv, Onward
<1>2. /\ {"pc", "todo", "level"} \subseteq DOMAIN w /\ w.level \in hf.levels
      /\ DOMAIN w.todo \subseteq Names /\ DOMAIN w.todo # {} /\ \A n \in DOMAIN w.todo : w.todo[n] \in Nat
  BY <1>1 DEF WatcherFits
<1>3. w'.pc = pc /\ w'.todo = w.todo /\ w'.level = w.level /\ DOMAIN w \subseteq DOMAIN w'
  <2>1. /\ w'["pc"] = pc /\ DOMAIN w' = DOMAIN more \cup DOMAIN w
        /\ \A k \in DOMAIN w \ (DOMAIN more \cup {"pc"}) : w'[k] = w[k]
    BY <1>2, AtMerges
  <2>2. {"todo", "level"} \subseteq DOMAIN w \ (DOMAIN more \cup {"pc"})
    BY <1>2
  <2> QED
    BY <2>1, <2>2
<1>4. pc \in Scanning /\ pc # "idle"
  BY DEF AtFile, Scanning
<1>5. (w.pc \in Scanning =>
         /\ {"todo", "level"} \subseteq DOMAIN w /\ w.level \in hf.levels
         /\ DOMAIN w.todo \subseteq Names /\ DOMAIN w.todo # {} /\ \A n \in DOMAIN w.todo : w.todo[n] \in Nat)'
  BY <1>1, <1>2, <1>3
<1>6. ("pc" \in DOMAIN w)'
  BY <1>2, <1>3
<1> QED
  BY <1>3, <1>4, <1>5, <1>6 DEF WatcherFits

\* What a step that touches no file has to show.
LEMMA QuietKeeps ==
  ASSUME FolderInv, UNCHANGED <<hf, mode, level>>, UNCHANGED env, UNCHANGED <<side, dest, cursor>>, WatcherFits'
  PROVE  FolderInv'
<1>1. FolderSane /\ DOMAIN side' = Names
  BY DEF FolderInv, FolderSane
<1>2. Onward
  BY <1>1, StillOnward DEF env
<1> QED
  BY <1>2, FolderKept DEF FolderInv

LEMMA LookKeeps ==
  ASSUME FolderInv, Look
  PROVE  FolderInv'
<1> DEFINE n == FirstOf(w.todo)
           f == inc[n]
<1>1. FolderSane /\ WatcherFits /\ w.pc = "next" /\ w.pc \in Scanning
  BY DEF FolderInv, Look, Scanning
<1>2. UNCHANGED <<hf, mode, level>> /\ UNCHANGED env /\ UNCHANGED <<side, dest, cursor>>
  BY DEF Look, disk
<1>3. Onward
  BY <1>1, <1>2, StillOnward DEF FolderSane, env
<1>4. n \in Names /\ w.level \in hf.levels /\ "pc" \in DOMAIN w
  <2>1. DOMAIN w.todo \subseteq Names /\ DOMAIN w.todo # {} /\ \A k \in DOMAIN w.todo : w.todo[k] \in Nat
    BY <1>1 DEF WatcherFits
  <2> QED
    BY <1>1, <2>1, FirstIsThere DEF WatcherFits
<1>5. \/ NextFile
      \/ f # Nothing /\ At("grade", [name |-> n, st |-> f, sig |-> _sig(f)])
      \/ f # Nothing /\ SideOf(n, f) # Nothing /\ MayFinish(SideOf(n, f))
           /\ At("base", [name |-> n, st |-> f, sig |-> _sig(f), enforced |-> SideOf(n, f).enforced,
                        killed |-> SideOf(n, f).killed])
  BY DEF Look
<1>6. f # Nothing => f.version \in Nat /\ hf'.writes < f.version /\ _sig(f)[1] = f.version
  BY <1>1, <1>2, <1>4 DEF FolderSane, Used, _sig
<1> HIDE DEF n
<1>7. CASE NextFile
  BY <1>1, <1>2, <1>3, <1>7, NextFileFits, QuietKeeps
<1>8. CASE f # Nothing /\ At("grade", [name |-> n, st |-> f, sig |-> _sig(f)])
  <2> DEFINE more == [name |-> n, st |-> f, sig |-> _sig(f)]
  <2>1. DOMAIN more = {"name", "st", "sig"} /\ more.name = n /\ more.sig = _sig(f)
    OBVIOUS
  <2>2. At("grade", more)
    BY <1>8
  <2> HIDE DEF more
  <2>3. DOMAIN w' = DOMAIN more \cup DOMAIN w /\ \A k \in DOMAIN more : w'[k] = more[k]
    BY <1>4, <2>1, <2>2, AtMerges
  <2>4. {"name", "sig"} \subseteq DOMAIN w' /\ w'.name = n /\ w'.sig = _sig(f)
    BY <2>1, <2>3
  <2>5. Used(w.sig[1])'
    BY <1>6, <1>8, <2>4 DEF Used
  <2>6. "grade" \in AtFile /\ "grade" \notin HasVerdict
    BY DEF AtFile, Scanning, HasVerdict
  <2>7. WatcherFits'
    BY <1>1, <1>3, <1>4, <2>1, <2>2, <2>4, <2>5, <2>6, StepFits
  <2> QED
    BY <1>2, <2>7, QuietKeeps
<1>9. ASSUME f # Nothing, SideOf(n, f) # Nothing, MayFinish(SideOf(n, f)),
             At("base", [name |-> n, st |-> f, sig |-> _sig(f), enforced |-> SideOf(n, f).enforced,
                        killed |-> SideOf(n, f).killed])
      PROVE  FolderInv'
  <2> DEFINE more == [name |-> n, st |-> f, sig |-> _sig(f), enforced |-> SideOf(n, f).enforced,
                     killed |-> SideOf(n, f).killed]
  <2>0. SideOf(n, f) = side[n] /\ side[n] # Nothing /\ side[n].sig = _sig(f) /\ side[n].mode = mode
    BY <1>9 DEF SideOf, MayFinish
  <2>1. DOMAIN more = {"name", "st", "sig", "enforced", "killed"} /\ more.name = n /\ more.sig = _sig(f)
        /\ more.enforced = side[n].enforced /\ more.killed = side[n].killed
    BY <2>0
  <2>2. At("base", more)
    BY <1>9
  <2> HIDE DEF more
  <2>3. DOMAIN w' = DOMAIN more \cup DOMAIN w /\ (\A k \in DOMAIN more : w'[k] = more[k])
        /\ \A k \in DOMAIN w \ (DOMAIN more \cup {"pc"}) : w'[k] = w[k]
    BY <1>4, <2>1, <2>2, AtMerges, ZenonT(60)
  <2>4. {"name", "sig", "enforced", "killed"} \subseteq DOMAIN w' /\ w'.name = n /\ w'.sig = _sig(f)
        /\ w'.enforced = side[n].enforced /\ w'.killed = side[n].killed /\ w'.level = w.level
    <3>1. "level" \in DOMAIN w \ (DOMAIN more \cup {"pc"})
      BY <1>1, <2>1 DEF WatcherFits
    <3> QED
      BY <2>1, <2>3, <3>1
  <2>5. Used(w.sig[1])'
    BY <1>6, <1>9, <2>4 DEF Used
  <2>6. "base" \in AtFile /\ "base" # "record"
    BY DEF AtFile, Scanning
  <2>7. Bites(mode, w.level)' => Bites(side[n].mode, level)
    BY <1>1, <1>2, <1>4, <2>0, <2>4 DEF Bites, Steady, FolderSane
  <2>8. /\ Bites(side[n].mode, level) => side[n].enforced \in Verdict
        /\ side[n].enforced = "pass" /\ ~side[n].killed /\ Bites(side[n].mode, level) => GoodFor(n, f.version)
    BY <1>4, <1>6, <1>9, <2>0 DEF FolderInv, SidecarFits
  <2>9. GoodFor(n, f.version) => GoodFor(w.name, w.sig[1])'
    BY <1>2, <1>6, <1>9, <2>4 DEF GoodFor, env
  <2>10. inc'[w'.name].version = w'.sig[1]
    BY <1>2, <1>6, <1>9, <2>4 DEF env
  <2>11. WatcherFits'
    BY <1>1, <1>3, <1>4, <2>1, <2>2, <2>4, <2>5, <2>6, <2>7, <2>8, <2>9, <2>10, StepFits
  <2> QED
    BY <1>2, <2>11, QuietKeeps
<1> QED
  BY <1>5, <1>7, <1>8, <1>9

LEMMA StillAtFile ==
  ASSUME WatcherFits, w.pc \in AtFile, NEW pc, NEW more, At(pc, more),
         DOMAIN more \cap {"pc", "todo", "level", "name", "sig"} = {}
  PROVE  /\ {"name", "sig"} \subseteq DOMAIN w' /\ w'.name = w.name /\ w'.sig = w.sig /\ w'.level = w.level
         /\ w.name \in Names /\ Used(w.sig[1])
         /\ DOMAIN more \subseteq DOMAIN w' /\ \A k \in DOMAIN more : w'[k] = more[k]
<1>1. {"pc", "level", "name", "sig"} \subseteq DOMAIN w /\ w.name \in Names /\ Used(w.sig[1])
  BY DEF WatcherFits, AtFile, Scanning
<1>2. /\ DOMAIN w' = DOMAIN more \cup DOMAIN w
      /\ \A k \in DOMAIN more : w'[k] = more[k]
      /\ \A k \in DOMAIN w \ (DOMAIN more \cup {"pc"}) : w'[k] = w[k]
  BY <1>1, AtMerges
<1>3. {"level", "name", "sig"} \subseteq DOMAIN w \ (DOMAIN more \cup {"pc"})
  BY <1>1
<1> QED
  BY <1>1, <1>2, <1>3

LEMMA WaitingKeeps ==
  ASSUME FolderInv, Waiting
  PROVE  FolderInv'
<1>1. FolderSane /\ w.pc \in Scanning /\ UNCHANGED <<hf, mode, level>> /\ UNCHANGED env /\ UNCHANGED <<side, dest, cursor>>
      /\ \E times : ScanAt(Restrict(w.todo, Others), times)
  BY DEF FolderInv, Waiting, Scanning, disk
<1>2. Onward
  BY <1>1, StillOnward DEF FolderSane, env
<1> QED
  BY <1>1, <1>2, ScanFits, QuietKeeps

LEMMA TimedOutKeeps ==
  ASSUME FolderInv, TimedOut
  PROVE  FolderInv'
<1> DEFINE r == _missing_facts_report
           more == [report |-> r, digest |-> ""]
<1>1. FolderSane /\ WatcherFits /\ w.pc \in AtFile /\ w.pc \in Scanning /\ UNCHANGED <<hf, mode, level>>
      /\ UNCHANGED env /\ UNCHANGED <<side, dest, cursor>>
  BY DEF FolderInv, TimedOut, Scanning, AtFile, disk
<1>2. Onward
  BY <1>1, StillOnward DEF FolderSane, env
<1>3. r.grader = "media" /\ plain_gate({r}) # "pass"
  <2> DEFINE i == Issue("error", "medium", "_no_facts")
  <2>1. i \in r.issues /\ i.sev = "error" /\ r.grader = "media"
    BY DEF _missing_facts_report, Report, Issue
  <2> HIDE DEF r, i
  <2> QED
    BY <2>1, IssueBlocks
<1> HIDE DEF r
<1>4. DOMAIN more = {"report", "digest"} /\ more.report = r /\ At("record", more)
  BY DEF TimedOut, r
<1> HIDE DEF more
<1>5. /\ {"name", "sig"} \subseteq DOMAIN w' /\ w'.name = w.name /\ w'.sig = w.sig
      /\ w.name \in Names /\ Used(w.sig[1])
      /\ "report" \in DOMAIN w' /\ w'.report = r
  BY <1>1, <1>4, StillAtFile
<1>6. Used(w.sig[1])'
  BY <1>1, <1>2, <1>5, NumbersLast DEF Used
<1>7. "record" \in AtFile /\ "record" \notin HasVerdict
  BY DEF AtFile, Scanning, HasVerdict
<1>8. WatcherFits'
  BY <1>1, <1>2, <1>3, <1>4, <1>5, <1>6, <1>7, StepFits
<1> QED
  BY <1>1, <1>8, QuietKeeps

LEMMA GradeKeeps ==
  ASSUME FolderInv, Grade
  PROVE  FolderInv'
<1> DEFINE c == inc[w.name].content
           r == grade_media(facts[w.name], c)
           more == [report |-> r, digest |-> c]
<1>1. FolderSane /\ WatcherFits /\ w.pc \in AtFile /\ w.pc \in Scanning /\ UNCHANGED <<hf, mode, level>>
      /\ UNCHANGED env /\ UNCHANGED <<side, dest, cursor>> /\ facts[w.name] # Nothing /\ w.name \in Names
  BY DEF FolderInv, Grade, Scanning, AtFile, disk, WatcherFits
<1>2. Onward
  BY <1>1, StillOnward DEF FolderSane, env
<1>3. r.grader = "media" /\ (RequireBinding = TRUE /\ plain_gate({r}) = "pass" => c \in Good)
  <2>1. r.grader = "media"
    BY DEF grade_media, Report
  <2>3. PICK fa : fa = facts[w.name]
    OBVIOUS
  <2>2. AreTrue(fa)
    BY <1>1, <2>3 DEF FolderSane, AreTrue
  <2> HIDE DEF c
  <2>4. ASSUME RequireBinding = TRUE, plain_gate({grade_media(fa, c)}) = "pass" PROVE c \in Good
    BY <2>2, <2>4, PassIsMeasured
  <2> QED
    BY <2>1, <2>3, <2>4
<1> HIDE DEF r
<1>4. NextFile \/ At("record", more)
  BY DEF Grade, r
<1>5. DOMAIN more = {"report", "digest"} /\ more.report = r
  OBVIOUS
<1> HIDE DEF more
<1>6. CASE NextFile
  BY <1>1, <1>2, <1>6, NextFileFits, QuietKeeps
<1>7. CASE At("record", more)
  <2>1. /\ {"name", "sig"} \subseteq DOMAIN w' /\ w'.name = w.name /\ w'.sig = w.sig
        /\ w.name \in Names /\ Used(w.sig[1])
        /\ "report" \in DOMAIN w' /\ w'.report = r
    BY <1>1, <1>5, <1>7, StillAtFile
  <2>2. Used(w.sig[1])'
    BY <1>1, <1>2, <2>1, NumbersLast DEF Used
  <2>3. "record" \in AtFile /\ "record" \notin HasVerdict
    BY DEF AtFile, Scanning, HasVerdict
  <2>4. plain_gate({w'.report}) = "pass" => GoodFor(w.name, w.sig[1])'
    BY <1>1, <1>3, <2>1 DEF GoodFor, env
  <2>5. WatcherFits'
    BY <1>1, <1>2, <1>3, <1>5, <1>7, <2>1, <2>2, <2>3, <2>4, StepFits
  <2> QED
    BY <1>1, <2>5, QuietKeeps
<1> QED
  BY <1>4, <1>6, <1>7

LEMMA DecideKeeps ==
  ASSUME FolderInv, Decide
  PROVE  FolderInv'
<1> DEFINE e == Enforced
           more == [enforced |-> e, killed |-> switch]
<1>1. FolderSane /\ WatcherFits /\ w.pc = "record" /\ w.pc \in AtFile /\ w.pc \in Scanning
      /\ UNCHANGED <<hf, mode, level>> /\ UNCHANGED env /\ UNCHANGED <<side, dest, cursor>>
  BY DEF FolderInv, Decide, Scanning, AtFile
<1>2. Onward
  BY <1>1, StillOnward DEF FolderSane, env
<1>3. Bites(mode, w.level) => e \in Verdict /\ (e = "pass" /\ ~switch => GoodFor(w.name, w.sig[1]))
  <2> DEFINE r == w.report
             l == w.level
  <2>1. r.grader = "media" /\ (plain_gate({r}) = "pass" => GoodFor(w.name, w.sig[1]))
    BY <1>1 DEF WatcherFits
  <2>2. e = run_pilot({r}, mode, Policy(l), switch, FALSE)
    BY DEF Enforced
  <2> HIDE DEF e, r
  <2>3. Bites(mode, l) => e \in Verdict
    BY <2>2, BiteIsVerdict
  <2>4. ASSUME Bites(mode, l), e = "pass", ~switch PROVE plain_gate({r}) = "pass"
    <3>1. run_pilot({r}, mode, Policy(l), switch, FALSE) = run_pilot({r}, mode, Policy(l), FALSE, FALSE)
      BY <2>4 DEF run_pilot
    <3>2. run_pilot({r}, mode, Policy(l), FALSE, FALSE) = "pass"
      BY <2>2, <2>4, <3>1
    <3> QED
      BY <2>1, <2>4, <3>2, BiteMeansGate
  <2> QED
    BY <2>1, <2>3, <2>4
<1>4. NextFile \/ At("sidecar", more)
  BY DEF Decide
<1> HIDE DEF e
<1>5. DOMAIN more = {"enforced", "killed"} /\ more.enforced = e /\ more.killed = switch
  OBVIOUS
<1> HIDE DEF more
<1>6. CASE NextFile
  BY <1>1, <1>2, <1>6, NextFileFits, QuietKeeps
<1>7. CASE At("sidecar", more)
  <2>1. /\ {"name", "sig"} \subseteq DOMAIN w' /\ w'.name = w.name /\ w'.sig = w.sig /\ w'.level = w.level
        /\ w.name \in Names /\ Used(w.sig[1])
        /\ {"enforced", "killed"} \subseteq DOMAIN w' /\ w'.enforced = e /\ w'.killed = switch
    BY <1>1, <1>5, <1>7, StillAtFile
  <2>2. Used(w.sig[1])'
    BY <1>1, <1>2, <2>1, NumbersLast DEF Used
  <2>3. "sidecar" \in AtFile /\ "sidecar" \in HasVerdict
    BY DEF AtFile, Scanning, HasVerdict
  <2>4. (Bites(mode, w.level)' => Bites(mode, w.level)) /\ (GoodFor(w.name, w.sig[1]) => GoodFor(w.name, w.sig[1])')
    BY <1>1, <2>1 DEF Bites, Steady, GoodFor, env
  <2>5. WatcherFits'
    BY <1>1, <1>2, <1>3, <1>5, <1>7, <2>1, <2>2, <2>3, <2>4, StepFits
  <2> QED
    BY <1>1, <2>5, QuietKeeps
<1> QED
  BY <1>4, <1>6, <1>7

\* What the verdict the watcher holds says of its file.
LEMMA VerdictAtHand ==
  ASSUME FolderInv, w.pc \in HasVerdict
  PROVE  /\ FolderSane /\ WatcherFits /\ w.pc \in AtFile /\ w.pc \in Scanning /\ w.pc # "idle"
         /\ w.name \in Names /\ w.level \in hf.levels /\ Used(w.sig[1])
         /\ Bites(mode, w.level) => w.enforced \in Verdict
         /\ w.enforced = "pass" /\ ~w.killed /\ Bites(mode, w.level) => GoodFor(w.name, w.sig[1])
BY DEF FolderInv, WatcherFits, AtFile, HasVerdict, Scanning

LEMMA WriteSidecarKeeps ==
  ASSUME FolderInv, WriteSidecar
  PROVE  FolderInv'
<1>1. w.pc = "sidecar" /\ w.pc \in HasVerdict /\ UNCHANGED <<hf, mode, level>> /\ UNCHANGED env
      /\ UNCHANGED <<dest, cursor>>
  BY DEF WriteSidecar, HasVerdict
<1>2. FolderSane /\ w.pc \in Scanning /\ w.name \in Names /\ w.level \in hf.levels /\ Used(w.sig[1])
      /\ DOMAIN side = Names /\ level \in hf.levels
  BY <1>1, VerdictAtHand DEF FolderSane
<1>3. /\ DOMAIN side' = Names /\ \A n \in Names \ {w.name} : side'[n] = side[n]
      /\ side'[w.name] = [sig |-> w.sig, enforced |-> w.enforced, mode |-> mode, killed |-> w.killed]
  BY <1>2 DEF WriteSidecar
<1>4. Onward
  BY <1>1, <1>2, <1>3, StillOnward DEF env
<1>5. ASSUME NEW n \in Names PROVE side'[n] = side[n] \/ SidecarFits(n)'
  <2>1. SUFFICES ASSUME n = w.name PROVE SidecarFits(n)'
    BY <1>3
  <2>2. side'[n].sig = w.sig /\ side'[n].enforced = w.enforced /\ side'[n].mode = mode /\ side'[n].killed = w.killed
    BY <1>3, <2>1
  <2>3. Bites(mode, level) => Bites(mode, w.level)
    BY <1>2 DEF Bites, Steady
  <2>4. Bites(mode, level) => w.enforced \in Verdict /\ (w.enforced = "pass" /\ ~w.killed => GoodFor(n, w.sig[1]))
    BY <1>1, <2>1, <2>3, VerdictAtHand
  <2>5. Bites(side[n].mode, level)' => Bites(mode, level)
    BY <1>1, <2>2 DEF Bites, Steady
  <2>6. Used(side[n].sig[1])' /\ (GoodFor(n, w.sig[1]) => GoodFor(n, side[n].sig[1])')
    BY <1>1, <1>2, <2>2 DEF Used, GoodFor, env
  <2> QED
    BY <2>2, <2>4, <2>5, <2>6 DEF SidecarFits
<1>6. WatcherFits'
  <2>1. CASE NextFile
    BY <1>2, <1>4, <2>1, NextFileFits
  <2>2. CASE At("restat", <<>>)
    <3>1. "restat" \in HasVerdict /\ DOMAIN <<>> \subseteq {"base"}
      BY DEF HasVerdict
    <3> QED
      BY <1>1, <1>4, <2>2, <3>1, VerdictKept
  <2> QED
    BY <2>1, <2>2 DEF WriteSidecar
<1> QED
  BY <1>1, <1>3, <1>4, <1>5, <1>6, FolderKept DEF FolderInv

LEMMA RestatKeeps ==
  ASSUME FolderInv, Restat \/ ChooseBase
  PROVE  FolderInv'
<1>1. w.pc \in {"restat", "base"} /\ w.pc \in HasVerdict /\ UNCHANGED <<hf, mode, level>> /\ UNCHANGED env
      /\ UNCHANGED <<side, dest, cursor>>
  BY DEF Restat, ChooseBase, HasVerdict, disk
<1>2. FolderSane /\ w.pc \in Scanning /\ WatcherFits /\ DOMAIN side' = Names
  BY <1>1, VerdictAtHand DEF FolderSane
<1>3. Onward
  BY <1>1, <1>2, StillOnward DEF env
<1>4. WatcherFits'
  <2>1. CASE NextFile
    BY <1>2, <1>3, <2>1, NextFileFits
  <2>2. CASE w.pc = "restat" /\ Unchanged(w.name) /\ At("base", <<>>)
    <3>1. "base" \in HasVerdict /\ DOMAIN <<>> \subseteq {"base"}
      BY DEF HasVerdict
    <3>2. inc'[w.name].version = w.sig[1]
      BY <1>1, <2>2 DEF Unchanged, _sig, env
    <3> QED
      BY <1>1, <1>3, <2>2, <3>1, <3>2, VerdictKept
  <2>3. ASSUME w.pc = "base", NEW b, At("rename", [base |-> b]) PROVE WatcherFits'
    <3> DEFINE more == [base |-> b]
    <3>1. "rename" \in HasVerdict /\ DOMAIN more \subseteq {"base"} /\ At("rename", more)
      BY <2>3 DEF HasVerdict
    <3> HIDE DEF more
    <3>2. inc'[w.name] # Nothing => inc'[w.name].late = TRUE \/ inc'[w.name].version = w.sig[1]
      BY <1>1, <1>2, <2>3 DEF WatcherFits, env
    <3> QED
      BY <1>1, <1>3, <3>1, <3>2, VerdictKept
  <2> QED
    BY <2>1, <2>2, <2>3 DEF Restat, ChooseBase
<1> QED
  BY <1>1, <1>4, QuietKeeps

\* What is put into a destination is what was put there, and the rest was there.
LEMMA PutAdds ==
  ASSUME NEW k, NEW what, NEW x \in Put(k, what)
  PROVE  x \in dest \/ (x.kind = k /\ x.what = what /\ x.dir = DEST[w.enforced])
BY DEF Put

LEMMA RenameAssetKeeps ==
  ASSUME FolderInv, RenameAsset
  PROVE  FolderInv'
<1> DEFINE f == inc[w.name]
<1>1. w.pc = "rename" /\ w.pc \in HasVerdict /\ UNCHANGED <<hf, mode, level, facts, side, cursor>>
  BY DEF RenameAsset, HasVerdict
<1>2. FolderSane /\ WatcherFits /\ w.pc \in Scanning /\ w.name \in Names /\ hf.writes \in Nat
  BY <1>1, VerdictAtHand DEF FolderSane, Bounds
<1>3. CASE f = Nothing /\ NextFile /\ UNCHANGED <<dest, inc>>
  <2>1. Onward
    BY <1>1, <1>2, <1>3, StillOnward DEF FolderSane
  <2> QED
    BY <1>1, <1>2, <1>3, <2>1, NextFileFits, QuietKeeps DEF env
<1>4. CASE f # Nothing /\ dest' = Put("asset", [file |-> f, mode |-> mode, level |-> w.level, killed |-> w.killed])
           /\ inc' = [inc EXCEPT ![w.name] = Nothing] /\ At("facts", <<>>)
  <2>1. DOMAIN inc' = Names /\ inc'[w.name] = Nothing /\ \A n \in Names \ {w.name} : inc'[n] = inc[n]
    BY <1>2, <1>4 DEF FolderSane
  <2>2. FolderSane'
    BY <1>1, <1>2, <2>1 DEF FolderSane, Used
  <2>3. Onward
    BY <1>1, <1>2, <2>1, <2>2 DEF Onward, FileStays
  <2>4. WatcherFits'
    <3>1. "facts" \in HasVerdict /\ DOMAIN <<>> \subseteq {"base"}
      BY DEF HasVerdict
    <3> QED
      BY <1>1, <1>4, <2>3, <3>1, VerdictKept
  <2>5. ASSUME NEW x \in dest', x \notin dest PROVE Released(x)'
    <3> DEFINE what == [file |-> f, mode |-> mode, level |-> w.level, killed |-> w.killed]
    <3>1. what.file = f /\ what.mode = mode /\ what.level = w.level /\ what.killed = w.killed
      OBVIOUS
    <3>2. x.what = what /\ x.dir = DEST[w.enforced]
      BY <1>4, <2>5, PutAdds
    <3> HIDE DEF what
    <3>3. ASSUME RequireBinding = TRUE, x.dir = "passed", ~f.late, ~w.killed, Bites(mode, w.level) PROVE f.content \in Good
      <4>1. w.enforced \in Verdict /\ (w.enforced = "pass" /\ ~w.killed => GoodFor(w.name, w.sig[1]))
        BY <1>1, <3>3, VerdictAtHand
      <4>2. w.enforced = "pass"
        BY <3>2, <3>3, <4>1 DEF DEST, Verdict
      <4>3. f.version = w.sig[1]
        BY <1>1, <1>2, <1>4, <3>3 DEF WatcherFits
      <4> QED
        BY <1>4, <3>3, <4>1, <4>2, <4>3 DEF GoodFor
    <3>4. Bites(x.what.mode, x.what.level)' => Bites(mode, w.level)
      BY <1>1, <3>1, <3>2 DEF Bites, Steady
    <3> QED
      BY <3>1, <3>2, <3>3, <3>4 DEF Released
  <2> QED
    BY <1>1, <2>3, <2>4, <2>5, FolderKept DEF FolderInv
<1> QED
  BY <1>3, <1>4 DEF RenameAsset

LEMMA RenameFactsKeeps ==
  ASSUME FolderInv, RenameFacts
  PROVE  FolderInv'
<1>1. w.pc = "facts" /\ w.pc \in HasVerdict /\ UNCHANGED <<hf, mode, level, inc, side, cursor>>
  BY DEF RenameFacts, HasVerdict
<1>2. FolderSane /\ WatcherFits /\ w.pc \in Scanning /\ w.name \in Names /\ hf.writes \in Nat
  BY <1>1, VerdictAtHand DEF FolderSane, Bounds
<1>3. DOMAIN facts' = Names /\ \A n \in Names : facts'[n] = facts[n] \/ facts'[n] = Nothing
  BY <1>2 DEF RenameFacts, FolderSane
<1>4. FolderSane'
  BY <1>1, <1>2, <1>3 DEF FolderSane, Used
<1>5. Onward
  BY <1>1, <1>2, <1>4 DEF Onward, FileStays
<1>6. WatcherFits'
  <2>1. CASE NextFile
    BY <1>2, <1>5, <2>1, NextFileFits
  <2>2. CASE At("side", <<>>)
    <3>1. "side" \in HasVerdict /\ DOMAIN <<>> \subseteq {"base"}
      BY DEF HasVerdict
    <3> QED
      BY <1>1, <1>5, <2>2, <3>1, VerdictKept
  <2> QED
    BY <2>1, <2>2 DEF RenameFacts
<1>7. ASSUME NEW x \in dest', x \notin dest PROVE Released(x)'
  <2>1. x.kind = "facts"
    BY <1>7, PutAdds DEF RenameFacts
  <2> QED
    BY <2>1 DEF Released
<1> QED
  BY <1>1, <1>5, <1>6, <1>7, FolderKept DEF FolderInv

LEMMA RenameSideKeeps ==
  ASSUME FolderInv, RenameSide
  PROVE  FolderInv'
<1>1. w.pc = "side" /\ w.pc \in HasVerdict /\ UNCHANGED <<hf, mode, level, inc, facts, cursor>> /\ NextFile
  BY DEF RenameSide, HasVerdict
<1>2. FolderSane /\ w.pc \in Scanning /\ w.name \in Names
  BY <1>1, VerdictAtHand
<1>3. DOMAIN side' = Names /\ \A n \in Names : side'[n] = side[n] \/ side'[n] = Nothing
  BY <1>2 DEF RenameSide, FolderSane
<1>4. Onward
  BY <1>1, <1>2, <1>3, StillOnward
<1>5. WatcherFits'
  BY <1>1, <1>2, <1>4, NextFileFits
<1>6. ASSUME NEW x \in dest', x \notin dest PROVE Released(x)'
  <2>1. x.kind = "side"
    BY <1>6, PutAdds DEF RenameSide
  <2> QED
    BY <2>1 DEF Released
<1> QED
  BY <1>1, <1>3, <1>4, <1>5, <1>6, FolderKept DEF FolderInv

LEMMA SaveSeenKeeps ==
  ASSUME FolderInv, SaveSeen
  PROVE  FolderInv'
<1>1. UNCHANGED <<hf, mode, level>> /\ UNCHANGED env /\ UNCHANGED <<side, dest, cursor>> /\ w' = Idle
  BY DEF SaveSeen
<1>2. WatcherFits'
  BY <1>1 DEF WatcherFits, Idle, AtFile, HasVerdict, Scanning
<1> QED
  BY <1>1, <1>2, QuietKeeps

LEMMA FolderStart == FolderInit => FolderInv
<1> SUFFICES ASSUME FolderInit PROVE FolderInv
  OBVIOUS
<1>1. hf \in Bounds /\ level \in hf.levels
  BY FolderScenariosAreSane DEF FolderInit
<1>2. FolderSane
  BY <1>1 DEF FolderSane, FolderInit
<1>3. WatcherFits
  BY DEF WatcherFits, FolderInit, Idle, AtFile, HasVerdict, Scanning
<1>4. \A n \in Names : SidecarFits(n)
  BY DEF SidecarFits, FolderInit
<1> QED
  BY <1>2, <1>3, <1>4 DEF FolderInv, FolderInit

LEMMA FolderStep == FolderInv /\ [FolderNext]_folderVars => FolderInv'
<1> SUFFICES ASSUME FolderInv, [FolderNext]_folderVars PROVE FolderInv'
  OBVIOUS
<1>1. CASE scan_once
  <2>1. CASE BeginScan
    BY <2>1, BeginScanKeeps
  <2>2. CASE Examine
    BY <2>2, LookKeeps, WaitingKeeps, TimedOutKeeps, GradeKeeps DEF Examine
  <2>3. CASE Finish
    BY <2>3, DecideKeeps, WriteSidecarKeeps, RestatKeeps, RenameAssetKeeps, RenameFactsKeeps, RenameSideKeeps DEF Finish
  <2> QED
    BY <1>1, <2>1, <2>2, <2>3, SaveSeenKeeps DEF scan_once
<1>2. CASE Sender
  BY <1>2, DropKeeps, MeasureKeeps, TouchKeeps DEF Sender
<1>3. CASE (\E l \in Levels : SetLevel(l)) \/ ArchiveDecisions
  BY <1>3, OutsideKeeps
<1>4. CASE \E m \in Levels \cup {"policy"}, k \in BOOLEAN : Crash(m, k)
  BY <1>4, CrashKeeps
<1>5. CASE UNCHANGED folderVars
  <2>1. FolderSane
    BY DEF FolderInv
  <2>2. Onward
    BY <1>5, <2>1, StillOnward DEF folderVars, FolderSane
  <2>3. WatcherFits'
    BY <1>5, <2>2, WatcherRests DEF folderVars, FolderInv, WatcherFits, AtFile, Scanning
  <2> QED
    BY <1>5, <2>3, QuietKeeps DEF folderVars, env
<1> QED
  BY <1>1, <1>2, <1>3, <1>4, <1>5 DEF FolderNext

\* A hot folder whose facts must name their bytes (hotfolder.py, require_binding)
\* releases nothing undeserved where a pass bites: for any number of files, sizes of
\* scans, deaths, rewrites, touches and measurements.
THEOREM OnlyGoodIsReleased == RequireBinding = TRUE => (FolderSpec => []OnlyGoodPasses)
<1> SUFFICES ASSUME RequireBinding = TRUE PROVE FolderSpec => []OnlyGoodPasses
  OBVIOUS
<1>1. FolderInv => OnlyGoodPasses
  BY DEF FolderInv, OnlyGoodPasses, Assets, Released, Bites
<1>2. FolderInv /\ [FolderNext]_folderVars => FolderInv'
  BY FolderStep
<1> QED
  BY FolderStart, <1>1, <1>2, PTL DEF FolderSpec

-----------------------------------------------------------------------------
(* What a watcher moves.  Its decision was recorded before it had a        *)
(* verdict, a sidecar was written of a decision, and the name it chose     *)
(* stays free until it uses it: nobody else writes the destinations.       *)

Told(n, v) == \E a \in log : a[1] = n /\ a[2] = v
SideTold(n) == side[n] # Nothing => Told(n, side[n].sig[1])
MoveTold(x) == x.kind = "asset" /\ ~x.what.file.late => Told(x.base[1], x.what.file.version)
Moving == {"restat", "base", "rename", "facts", "side"}
WatcherMoves ==
  /\ w.pc \in {"grade", "record"} => "st" \in DOMAIN w /\ w.st.version = w.sig[1]
  /\ w.pc \in HasVerdict => Told(w.name, w.sig[1])
  /\ w.pc \in Moving => mode # "shadow"
  /\ w.pc = "rename" => w.base[1] = w.name /\ ~Holds(DEST[w.enforced], w.base, "asset")
MoveInv ==
  /\ IsFiniteSet(dest)
  /\ \A n \in Names : SideTold(n)
  /\ \A x \in dest : MoveTold(x)
  /\ WatcherMoves

\* There is a base name left in every destination: one of the first Cardinality(dest) + 1.
LEMMA SomeNameIsFree ==
  ASSUME IsFiniteSet(dest), NEW d, NEW n
  PROVE  _unique(d, n)[1] = n /\ ~Holds(d, _unique(d, n), "asset")
<1> DEFINE N == Cardinality(dest)
           free == {i \in 0..N : ~Holds(d, <<n, i>>, "asset")}
           f == [i \in 0..N |-> CHOOSE x \in dest : x.dir = d /\ x.base = <<n, i>> /\ x.kind = "asset"]
           T == {f[i] : i \in 0..N}
           R == OpToRel(<, Nat)
<1>1. N \in Nat
  BY FS_CardinalityType
<1>2. free # {}
  <2>1. SUFFICES ASSUME \A i \in 0..N : Holds(d, <<n, i>>, "asset") PROVE FALSE
    OBVIOUS
  <2>2. ASSUME NEW i \in 0..N PROVE f[i] \in dest /\ f[i].base = <<n, i>>
    BY <2>1 DEF Holds
  <2>3. ASSUME NEW i \in 0..N, NEW j \in 0..N, f[i] = f[j] PROVE i = j
    <3>1. f[i].base = <<n, i>> /\ f[j].base = <<n, j>>
      BY <2>2
    <3> HIDE DEF f
    <3> QED
      BY <2>3, <3>1
  <2>4. T \in SUBSET dest
    BY <2>2
  <2>5. IsFiniteSet(T) /\ Cardinality(T) \in Nat /\ Cardinality(T) <= N
    BY <2>4, FS_Subset, FS_CardinalityType
  <2>6. f \in Injection(0..N, T)
    BY <2>3 DEF Injection, IsInjective
  <2>7. IsFiniteSet(0..N) /\ Cardinality(0..N) = N + 1
    BY <1>1, FS_Interval
  <2> HIDE DEF f, T, N
  <2>8. Cardinality(0..N) <= Cardinality(T)
    BY <2>5, <2>6, FS_Injection
  <2> QED
    BY <1>1, <2>5, <2>7, <2>8
<1>3. free \in SUBSET Nat
  BY <1>1
<1>4. IsWellFoundedOn(R, Nat)
  BY NatLessThanWellFounded
<1>5. \A i, j \in Nat : i < j => <<i, j>> \in R
  BY DEF OpToRel
<1>6. _unique(d, n) = <<n, Min(free)>>
  BY DEF _unique
<1> HIDE DEF R, free
<1>7. PICK i \in free : \A j \in free : ~(<<j, i>> \in R)
  BY <1>2, <1>3, <1>4, WFMin
<1>8. \A j \in free : i <= j
  <2> TAKE j \in free
  <2>1. i \in Nat /\ j \in Nat /\ ~(j < i)
    BY <1>3, <1>5, <1>7
  <2> QED
    BY <2>1
<1>9. Min(free) \in free
  BY <1>8 DEF Min
<1>10. ~Holds(d, <<n, Min(free)>>, "asset")
  BY <1>9 DEF free
<1> QED
  BY <1>6, <1>10

\* A decision stays one (run_pilot appends), and what was moved stays told of.
LEMMA MovesKept ==
  ASSUME MoveInv, log \subseteq log', IsFiniteSet(dest'), WatcherMoves',
         \A n \in Names : side'[n] = side[n] \/ side'[n] = Nothing \/ SideTold(n)',
         \A x \in dest' : x \in dest \/ MoveTold(x)'
  PROVE  MoveInv'
<1>1. \A n \in Names : SideTold(n)'
  BY DEF MoveInv, SideTold, Told
<1>2. \A x \in dest' : MoveTold(x)'
  BY DEF MoveInv, MoveTold, Told
<1> QED
  BY <1>1, <1>2 DEF MoveInv

LEMMA MovesRest ==
  ASSUME MoveInv, log \subseteq log', UNCHANGED <<mode, side, dest, w>>
  PROVE  MoveInv'
<1>1. WatcherMoves'
  <2>1. WatcherMoves
    BY DEF MoveInv
  <2>2. w.pc \in HasVerdict => Told(w.name, w.sig[1])'
    BY <2>1 DEF WatcherMoves, Told
  <2>3. w.pc = "rename" => w.base[1] = w.name /\ ~Holds(DEST[w.enforced], w.base, "asset")'
    BY <2>1 DEF WatcherMoves, Holds
  <2> QED
    BY <2>1, <2>2, <2>3 DEF WatcherMoves, Told, Holds
<1>2. IsFiniteSet(dest')
  BY DEF MoveInv
<1> QED
  BY <1>1, <1>2, MovesKept

\* Between two files the watcher has nothing in hand.
LEMMA NextFileMoves ==
  ASSUME NextFile \/ (\E todo, times : ScanAt(todo, times)) \/ w' = Idle \/ w'.pc \in {"save", "next"}
  PROVE  WatcherMoves'
<1>1. w'.pc \in {"idle", "save", "next"}
  BY DEF NextFile, ScanAt, Idle
<1> QED
  BY <1>1 DEF WatcherMoves, HasVerdict, Moving

\* A watcher that goes on with a file goes on with the same one.
LEMMA GoesOn ==
  ASSUME WatcherFits, w.pc \in AtFile, NEW pc, NEW more, At(pc, more),
         DOMAIN more \cap {"pc", "todo", "level", "name", "sig"} = {}
  PROVE  /\ w'.pc = pc /\ w'.name = w.name /\ w'.sig = w.sig /\ w.name \in Names
         /\ \A k \in DOMAIN more : w'[k] = more[k]
         /\ "enforced" \in DOMAIN w \ DOMAIN more => w'.enforced = w.enforced
<1>1. {"pc", "name", "sig"} \subseteq DOMAIN w /\ w.name \in Names
  BY DEF WatcherFits, AtFile, Scanning
<1>2. w'["pc"] = pc /\ \A k \in DOMAIN more : w'[k] = more[k]
  BY <1>1, AtMerges
<1>3. \A k \in DOMAIN w \ (DOMAIN more \cup {"pc"}) : w'[k] = w[k]
  BY <1>1, AtMerges
<1>4. {"name", "sig"} \subseteq DOMAIN w \ (DOMAIN more \cup {"pc"})
  BY <1>1
<1> QED
  BY <1>1, <1>2, <1>3, <1>4

LEMMA LookMoves ==
  ASSUME FolderInv, MoveInv, Look
  PROVE  WatcherMoves'
<1> DEFINE n == FirstOf(w.todo)
           f == inc[n]
<1>1. WatcherFits /\ w.pc = "next" /\ mode' = mode /\ log' = log /\ dest' = dest
  BY DEF FolderInv, Look, disk
<1>2. n \in Names /\ "pc" \in DOMAIN w
  <2>1. DOMAIN w.todo \subseteq Names /\ DOMAIN w.todo # {} /\ \A k \in DOMAIN w.todo : w.todo[k] \in Nat
    BY <1>1 DEF WatcherFits
  <2> QED
    BY <1>1, <2>1, FirstIsThere DEF WatcherFits
<1>3. \/ NextFile
      \/ At("grade", [name |-> n, st |-> f, sig |-> _sig(f)])
      \/ SideOf(n, f) # Nothing /\ MayFinish(SideOf(n, f))
           /\ At("base", [name |-> n, st |-> f, sig |-> _sig(f), enforced |-> SideOf(n, f).enforced,
                        killed |-> SideOf(n, f).killed])
  BY DEF Look
<1>4. _sig(f)[1] = f.version
  BY DEF _sig
<1> HIDE DEF n, f
<1>5. CASE NextFile
  BY <1>5, NextFileMoves
<1>6. CASE At("grade", [name |-> n, st |-> f, sig |-> _sig(f)])
  <2> DEFINE more == [name |-> n, st |-> f, sig |-> _sig(f)]
  <2>1. DOMAIN more = {"name", "st", "sig"} /\ more.st = f /\ more.sig = _sig(f) /\ At("grade", more)
    BY <1>6
  <2> HIDE DEF more
  <2>2. w'["pc"] = "grade" /\ DOMAIN w' = DOMAIN more \cup DOMAIN w
    BY <1>2, <2>1, AtMerges
  <2>4. \A k \in DOMAIN more : w'[k] = more[k]
    BY <1>2, <2>1, AtMerges
  <2>3. "st" \in DOMAIN w' /\ w'.st = f /\ w'.sig = _sig(f)
    BY <2>1, <2>2, <2>4
  <2> QED
    BY <1>4, <2>2, <2>3 DEF WatcherMoves, HasVerdict, Moving
<1>7. ASSUME SideOf(n, f) # Nothing, MayFinish(SideOf(n, f)), NEW e, NEW q,
             At("base", [name |-> n, st |-> f, sig |-> _sig(f), enforced |-> e, killed |-> q])
      PROVE  WatcherMoves'
  <2> DEFINE more == [name |-> n, st |-> f, sig |-> _sig(f), enforced |-> e, killed |-> q]
  <2>1. DOMAIN more = {"name", "st", "sig", "enforced", "killed"} /\ more.name = n /\ more.sig = _sig(f) /\ At("base", more)
    BY <1>7
  <2> HIDE DEF more
  <2>2. w'["pc"] = "base" /\ \A k \in DOMAIN more : w'[k] = more[k]
    BY <1>2, <2>1, AtMerges, ZenonT(60)
  <2>3. w'.name = n /\ w'.sig = _sig(f)
    BY <2>1, <2>2
  <2>4. side[n] # Nothing /\ side[n].sig = _sig(f) /\ mode # "shadow"
    BY <1>7 DEF SideOf, MayFinish
  <2>5. Told(n, _sig(f)[1])
    BY <1>2, <2>4 DEF MoveInv, SideTold
  <2>6. Told(w.name, w.sig[1])'
    BY <1>1, <2>3, <2>5 DEF Told
  <2> QED
    BY <1>1, <2>2, <2>4, <2>6 DEF WatcherMoves
<1> QED
  BY <1>3, <1>5, <1>6, <1>7

LEMMA GradeMoves ==
  ASSUME FolderInv, MoveInv, TimedOut \/ Grade
  PROVE  WatcherMoves'
<1>1. WatcherFits /\ WatcherMoves /\ w.pc = "grade" /\ w.pc \in AtFile
  BY DEF FolderInv, MoveInv, TimedOut, Grade, AtFile, Scanning
<1>2. CASE NextFile
  BY <1>2, NextFileMoves
<1>3. ASSUME NEW r, NEW d, At("record", [report |-> r, digest |-> d]) PROVE WatcherMoves'
  <2> DEFINE more == [report |-> r, digest |-> d]
  <2>1. DOMAIN more = {"report", "digest"} /\ At("record", more)
    BY <1>3
  <2> HIDE DEF more
  <2>2. w'.pc = "record" /\ w'.sig = w.sig
    BY <1>1, <2>1, GoesOn
  <2>3. "pc" \in DOMAIN w /\ "st" \in DOMAIN w /\ w.st.version = w.sig[1]
    BY <1>1 DEF WatcherFits, WatcherMoves
  <2>4. DOMAIN w' = DOMAIN more \cup DOMAIN w /\ \A k \in DOMAIN w \ (DOMAIN more \cup {"pc"}) : w'[k] = w[k]
    BY <2>1, <2>3, AtMerges
  <2>5. "st" \in DOMAIN w' /\ w'.st = w.st
    BY <2>1, <2>3, <2>4
  <2> QED
    BY <2>2, <2>3, <2>5 DEF WatcherMoves, HasVerdict, Moving
<1> QED
  BY <1>2, <1>3 DEF TimedOut, Grade

LEMMA DecideMoves ==
  ASSUME FolderInv, MoveInv, Decide
  PROVE  MoveInv'
<1> DEFINE a == _aid(w.name, w.st, w.digest)
           e == Enforced
           more == [enforced |-> e, killed |-> switch]
<1>1. WatcherFits /\ WatcherMoves /\ w.pc = "record" /\ w.pc \in AtFile /\ log' = log \cup {a}
      /\ UNCHANGED <<mode, side, dest>>
  BY DEF FolderInv, MoveInv, Decide, AtFile, Scanning
<1>2. NextFile \/ At("sidecar", more)
  BY DEF Decide
<1>3. a[1] = w.name /\ a[2] = w.sig[1]
  BY <1>1 DEF _aid, WatcherMoves
<1> HIDE DEF e, a
<1>4. DOMAIN more = {"enforced", "killed"}
  OBVIOUS
<1> HIDE DEF more
<1>5. WatcherMoves'
  <2>1. CASE NextFile
    BY <2>1, NextFileMoves
  <2>2. CASE At("sidecar", more)
    <3>1. w'.pc = "sidecar" /\ w'.name = w.name /\ w'.sig = w.sig
      BY <1>1, <1>4, <2>2, GoesOn
    <3>2. Told(w.name, w.sig[1])'
      BY <1>1, <1>3, <3>1 DEF Told
    <3> QED
      BY <3>1, <3>2 DEF WatcherMoves, Moving
  <2> QED
    BY <1>2, <2>1, <2>2
<1>6. IsFiniteSet(dest')
  BY <1>1 DEF MoveInv
<1> QED
  BY <1>1, <1>5, <1>6, MovesKept

\* What any step under a verdict, to another such step, has to show.
LEMMA VerdictMoves ==
  ASSUME FolderInv, MoveInv, w.pc \in HasVerdict, NEW pc \in {"restat", "base", "facts", "side"}, At(pc, <<>>),
         log' = log, mode' = mode, mode # "shadow"
  PROVE  WatcherMoves'
<1>1. WatcherFits /\ WatcherMoves /\ w.pc \in AtFile
  BY DEF FolderInv, MoveInv, AtFile, HasVerdict, Scanning
<1> DEFINE more == <<>>
<1>2. DOMAIN more = {} /\ At(pc, more)
  OBVIOUS
<1> HIDE DEF more
<1>3. w'.pc = pc /\ w'.name = w.name /\ w'.sig = w.sig
  BY <1>1, <1>2, GoesOn
<1>4. Told(w.name, w.sig[1])'
  BY <1>1, <1>3 DEF WatcherMoves, Told
<1> QED
  BY <1>3, <1>4 DEF WatcherMoves

LEMMA WriteSidecarMoves ==
  ASSUME FolderInv, MoveInv, WriteSidecar
  PROVE  MoveInv'
<1>1. WatcherFits /\ WatcherMoves /\ w.pc = "sidecar" /\ w.pc \in HasVerdict /\ UNCHANGED <<mode, dest, log>>
      /\ w.name \in Names /\ DOMAIN side = Names
  BY DEF FolderInv, MoveInv, WriteSidecar, HasVerdict, WatcherFits, AtFile, Scanning, FolderSane
<1>2. WatcherMoves'
  <2>1. CASE NextFile
    BY <2>1, NextFileMoves
  <2>2. CASE mode # "shadow" /\ At("restat", <<>>)
    BY <1>1, <2>2, VerdictMoves
  <2> QED
    BY <2>1, <2>2 DEF WriteSidecar
<1>3. ASSUME NEW n \in Names PROVE side'[n] = side[n] \/ SideTold(n)'
  <2>1. n # w.name => side'[n] = side[n]
    BY <1>1 DEF WriteSidecar
  <2>2. n = w.name => side'[n].sig = w.sig
    BY <1>1 DEF WriteSidecar
  <2>3. Told(w.name, w.sig[1])
    BY <1>1 DEF WatcherMoves
  <2> QED
    BY <1>1, <2>1, <2>2, <2>3 DEF SideTold, Told
<1>4. IsFiniteSet(dest')
  BY <1>1 DEF MoveInv
<1> QED
  BY <1>1, <1>2, <1>3, <1>4, MovesKept

LEMMA ChooseBaseMoves ==
  ASSUME FolderInv, MoveInv, Restat \/ ChooseBase
  PROVE  MoveInv'
<1>1. WatcherFits /\ WatcherMoves /\ w.pc \in {"restat", "base"} /\ w.pc \in HasVerdict /\ w.pc \in AtFile
      /\ UNCHANGED <<mode, side, dest, log>> /\ IsFiniteSet(dest) /\ mode # "shadow"
  BY DEF FolderInv, MoveInv, Restat, ChooseBase, disk, HasVerdict, AtFile, Scanning, WatcherMoves, Moving
<1>2. WatcherMoves'
  <2>1. CASE NextFile
    BY <2>1, NextFileMoves
  <2>2. CASE At("base", <<>>)
    BY <1>1, <2>2, VerdictMoves
  <2>3. ASSUME NEW b, b = _unique(DEST[w.enforced], w.name), At("rename", [base |-> b]) PROVE WatcherMoves'
    <3> DEFINE more == [base |-> b]
    <3>1. DOMAIN more = {"base"} /\ more.base = b /\ At("rename", more)
      BY <2>3
    <3> HIDE DEF more
    <3>2. "enforced" \in DOMAIN w
      BY <1>1 DEF WatcherFits
    <3>3. w'.pc = "rename" /\ w'.name = w.name /\ w'.sig = w.sig /\ w'.enforced = w.enforced /\ w'.base = b
      BY <1>1, <3>1, <3>2, GoesOn
    <3>4. b[1] = w.name /\ ~Holds(DEST[w.enforced], b, "asset")
      BY <1>1, <2>3, SomeNameIsFree
    <3>5. Told(w.name, w.sig[1])'
      BY <1>1, <3>3 DEF WatcherMoves, Told
    <3> QED
      BY <1>1, <3>3, <3>4, <3>5 DEF WatcherMoves, Holds
  <2> QED
    BY <2>1, <2>2, <2>3 DEF Restat, ChooseBase
<1> QED
  BY <1>1, <1>2, MovesKept

\* A rename under a name nobody uses there replaces nothing.
LEMMA PutReplacesNothing ==
  ASSUME IsFiniteSet(dest), NEW k, NEW what, ~Holds(DEST[w.enforced], w.base, k)
  PROVE  LET x == [dir |-> DEST[w.enforced], base |-> w.base, kind |-> k, what |-> what]
         IN  Put(k, what) = dest \cup {x} /\ x \notin dest /\ IsFiniteSet(Put(k, what))
<1> DEFINE x == [dir |-> DEST[w.enforced], base |-> w.base, kind |-> k, what |-> what]
<1>1. Put(k, what) = dest \cup {x}
  BY DEF Put, Holds
<1>2. x \notin dest
  BY DEF Holds
<1>3. IsFiniteSet(dest \cup {x})
  BY FS_AddElement
<1> QED
  BY <1>1, <1>2, <1>3

LEMMA RenameAssetMoves ==
  ASSUME FolderInv, MoveInv, RenameAsset
  PROVE  MoveInv'
<1>1. WatcherFits /\ WatcherMoves /\ w.pc = "rename" /\ w.pc \in HasVerdict /\ UNCHANGED <<mode, side, log>>
      /\ IsFiniteSet(dest) /\ mode # "shadow"
  BY DEF FolderInv, MoveInv, RenameAsset, HasVerdict, WatcherMoves, Moving
<1>2. CASE NextFile /\ UNCHANGED <<dest, inc>>
  BY <1>1, <1>2, NextFileMoves, MovesKept
<1>3. ASSUME NEW f, f = inc[w.name], f # Nothing, At("facts", <<>>), NEW what, what.file = f,
             dest' = Put("asset", what)
      PROVE  MoveInv'
  <2>0. PICK x : x = [dir |-> DEST[w.enforced], base |-> w.base, kind |-> "asset", what |-> what]
    OBVIOUS
  <2>1. dest' = dest \cup {x} /\ IsFiniteSet(dest')
    BY <1>1, <1>3, <2>0, PutReplacesNothing DEF WatcherMoves
  <2>2. x.base = w.base /\ x.what.file = f
    BY <1>3, <2>0
  <2>3. w.base[1] = w.name /\ Told(w.name, w.sig[1]) /\ (f.late = TRUE \/ f.version = w.sig[1])
    BY <1>1, <1>3 DEF WatcherMoves, WatcherFits
  <2>4. MoveTold(x)'
    BY <1>1, <2>2, <2>3 DEF MoveTold, Told
  <2>5. WatcherMoves'
    BY <1>1, <1>3, VerdictMoves
  <2> QED
    BY <1>1, <2>1, <2>4, <2>5, MovesKept
<1>4. CASE inc[w.name] # Nothing /\ At("facts", <<>>)
             /\ dest' = Put("asset", [file |-> inc[w.name], mode |-> mode, level |-> w.level, killed |-> w.killed])
  BY <1>3, <1>4
<1> QED
  BY <1>2, <1>4 DEF RenameAsset

\* The two companions of an asset go where their names are free, or not at all.
LEMMA CompanionsMove ==
  ASSUME FolderInv, MoveInv, RenameFacts \/ RenameSide
  PROVE  MoveInv' /\ dest \subseteq dest' /\ inc' = inc
<1>1. WatcherMoves /\ w.pc \in {"facts", "side"} /\ w.pc \in HasVerdict /\ UNCHANGED <<mode, log, inc>>
      /\ IsFiniteSet(dest) /\ mode # "shadow" /\ DOMAIN side = Names
  BY DEF FolderInv, FolderSane, MoveInv, RenameFacts, RenameSide, HasVerdict, WatcherMoves, Moving
<1>2. WatcherMoves'
  <2>1. NextFile \/ At("side", <<>>)
    BY DEF RenameFacts, RenameSide
  <2> QED
    BY <1>1, <2>1, NextFileMoves, VerdictMoves
<1>3. \A n \in Names : side'[n] = side[n] \/ side'[n] = Nothing
  BY <1>1 DEF RenameFacts, RenameSide
<1>4. \/ dest' = dest
      \/ \E k \in {"facts", "side"} : \E what : dest' = Put(k, what) /\ ~Holds(DEST[w.enforced], w.base, k)
  BY DEF RenameFacts, RenameSide
<1>5. CASE dest' = dest
  BY <1>1, <1>2, <1>3, <1>5, MovesKept
<1>6. ASSUME NEW k \in {"facts", "side"}, NEW what, dest' = Put(k, what), ~Holds(DEST[w.enforced], w.base, k)
      PROVE  MoveInv' /\ dest \subseteq dest'
  <2>0. PICK x : x = [dir |-> DEST[w.enforced], base |-> w.base, kind |-> k, what |-> what]
    OBVIOUS
  <2>1. dest' = dest \cup {x} /\ IsFiniteSet(dest')
    BY <1>1, <1>6, <2>0, PutReplacesNothing
  <2>2. x.kind \in {"facts", "side"}
    BY <2>0
  <2>3. MoveTold(x)'
    BY <2>2 DEF MoveTold
  <2> QED
    BY <1>1, <1>2, <1>3, <2>1, <2>3, MovesKept
<1> QED
  BY <1>1, <1>4, <1>5, <1>6

LEMMA MoveStart == FolderInit => MoveInv
<1> SUFFICES ASSUME FolderInit PROVE MoveInv
  OBVIOUS
<1>1. WatcherMoves
  BY DEF WatcherMoves, FolderInit, Idle, HasVerdict, Moving
<1>2. IsFiniteSet(dest)
  BY FS_EmptySet DEF FolderInit
<1> QED
  BY <1>1, <1>2 DEF MoveInv, SideTold, FolderInit

\* Steps of the watcher that only look.
LEMMA ExamineMoves ==
  ASSUME FolderInv, MoveInv, BeginScan \/ Examine \/ SaveSeen
  PROVE  MoveInv'
<1>1. UNCHANGED <<mode, side, dest, log>> /\ IsFiniteSet(dest)
  BY DEF BeginScan, Examine, Look, Waiting, TimedOut, Grade, SaveSeen, disk, MoveInv
<1>2. WatcherMoves'
  <2>1. CASE BeginScan
    <3>1. w'.pc \in {"save", "next"}
      BY <2>1 DEF BeginScan
    <3> QED
      BY <3>1, NextFileMoves
  <2>2. CASE Waiting
    BY <2>2, NextFileMoves DEF Waiting
  <2>3. CASE Look \/ TimedOut \/ Grade
    BY <2>3, LookMoves, GradeMoves
  <2>4. CASE SaveSeen
    BY <2>4, NextFileMoves DEF SaveSeen
  <2> QED
    BY <2>1, <2>2, <2>3, <2>4 DEF Examine
<1> QED
  BY <1>1, <1>2, MovesKept

LEMMA OutsideMoves ==
  ASSUME FolderInv, MoveInv,
         Sender \/ (\E l \in Levels : SetLevel(l)) \/ ArchiveDecisions \/ (\E m, k : Crash(m, k)) \/ UNCHANGED folderVars
  PROVE  MoveInv' /\ dest' = dest
<1>1. UNCHANGED <<side, dest, log>>
  BY DEF Sender, Drop, Measure, Touch, Settle, SetLevel, ArchiveDecisions, Crash, disk, folderVars
<1>2. CASE \E m, k : Crash(m, k)
  <2>1. w' = Idle
    BY <1>2 DEF Crash
  <2>2. IsFiniteSet(dest')
    BY <1>1 DEF MoveInv
  <2> QED
    BY <1>1, <2>1, <2>2, NextFileMoves, MovesKept
<1>3. CASE Sender \/ (\E l \in Levels : SetLevel(l)) \/ ArchiveDecisions \/ UNCHANGED folderVars
  <2>1. UNCHANGED <<mode, w>>
    BY <1>3 DEF Sender, Drop, Measure, Touch, Settle, SetLevel, ArchiveDecisions, folderVars
  <2> QED
    BY <1>1, <2>1, MovesRest
<1> QED
  BY <1>1, <1>2, <1>3

LEMMA MoveStep == FolderInv /\ MoveInv /\ [FolderNext]_folderVars => MoveInv'
<1> SUFFICES ASSUME FolderInv, MoveInv, [FolderNext]_folderVars PROVE MoveInv'
  OBVIOUS
<1>1. CASE scan_once
  BY <1>1, ExamineMoves, DecideMoves, WriteSidecarMoves, ChooseBaseMoves, RenameAssetMoves, CompanionsMove
     DEF scan_once, Finish
<1>2. CASE ~scan_once
  BY <1>2, OutsideMoves DEF FolderNext
<1> QED
  BY <1>1, <1>2

\* The sender writes and touches files, and takes none away.
LEMMA SenderTakesNothing ==
  ASSUME FolderInv, Sender, NEW n \in Names, inc[n] # Nothing
  PROVE  inc'[n] # Nothing
<1>1. FolderSane /\ hf.names \subseteq Names /\ DOMAIN inc = Names
  BY DEF FolderInv, FolderSane, Bounds
<1>2. DOMAIN inc[n] = {"content", "version", "ctime", "young", "late"}
  BY <1>1 DEF FolderSane
<1>3. DOMAIN Nothing = {"none"}
  BY DEF Nothing
<1>4. ASSUME NEW m \in hf.names, NEW c \in Contents, Drop(m, c) PROVE inc'[n] # Nothing
  <2>1. m # n => inc'[n] = inc[n]
    BY <1>1, <1>4 DEF Drop
  <2>2. m = n => "content" \in DOMAIN inc'[n]
    BY <1>1, <1>4 DEF Drop
  <2> QED
    BY <1>3, <2>1, <2>2
<1>5. ASSUME NEW m \in hf.names, Touch(m) \/ Settle(m) PROVE inc'[n] # Nothing
  <2>1. m # n => inc'[n] = inc[n]
    BY <1>1, <1>5 DEF Touch, Settle
  <2>2. m = n => DOMAIN inc'[n] = DOMAIN inc[n]
    BY <1>1, <1>5 DEF Touch, Settle
  <2> QED
    BY <1>2, <1>3, <2>1, <2>2
<1>6. ASSUME NEW m \in hf.names, NEW c \in Contents, NEW named \in BOOLEAN, Measure(m, c, named) PROVE inc'[n] # Nothing
  BY <1>6 DEF Measure
<1> QED
  BY <1>4, <1>5, <1>6 DEF Sender

LEMMA OnlyRenames ==
  ASSUME FolderNext, ~Sender, ~RenameAsset
  PROVE  inc' = inc
BY DEF FolderNext, scan_once, Examine, Finish, BeginScan, SaveSeen, Look, Waiting, TimedOut, Grade, Decide, WriteSidecar,
       Restat, ChooseBase, RenameFacts, RenameSide, SetLevel, ArchiveDecisions, Crash, env

LEMMA OnlyRenamesMove ==
  ASSUME FolderInv, MoveInv, FolderNext, ~RenameAsset, ~RenameFacts, ~RenameSide
  PROVE  dest' = dest
<1>1. CASE scan_once
  BY <1>1 DEF scan_once, Examine, Finish, BeginScan, SaveSeen, Look, Waiting, TimedOut, Grade, Decide, WriteSidecar,
              Restat, ChooseBase, disk
<1>2. CASE ~scan_once
  BY <1>2, OutsideMoves DEF FolderNext
<1> QED
  BY <1>1, <1>2

\* _move and os.replace (hotfolder.py): a file that leaves incoming/ is in a
\* destination, and nothing there is replaced, for any files, deaths and rewrites.
THEOREM NothingIsLost == FolderSpec => NothingLost
<1> DEFINE Kept == /\ dest \subseteq dest'
                   /\ \A n \in Names : (inc[n] # Nothing /\ inc'[n] = Nothing) =>
                         \E x \in dest' \ dest : x.kind = "asset" /\ x.what.file = inc[n]
<1>1. ASSUME FolderInv, MoveInv, [FolderNext]_folderVars PROVE [Kept]_folderVars
  <2>1. SUFFICES ASSUME FolderNext PROVE Kept
    BY <1>1
  <2>2. CASE RenameAsset
    <3>1. w.pc = "rename" /\ w.name \in Names /\ IsFiniteSet(dest) /\ DOMAIN inc = Names
          /\ ~Holds(DEST[w.enforced], w.base, "asset")
      BY <1>1, <2>2 DEF RenameAsset, FolderInv, FolderSane, WatcherFits, AtFile, Scanning, MoveInv, WatcherMoves
    <3>2. CASE UNCHANGED <<dest, inc>>
      BY <3>2
    <3>3. ASSUME NEW f, f = inc[w.name], NEW what, what.file = f, dest' = Put("asset", what),
                 inc' = [inc EXCEPT ![w.name] = Nothing]
          PROVE  Kept
      <4> DEFINE x == [dir |-> DEST[w.enforced], base |-> w.base, kind |-> "asset", what |-> what]
      <4>1. dest' = dest \cup {x} /\ x \notin dest
        BY <3>1, <3>3, PutReplacesNothing
      <4>2. x.kind = "asset" /\ x.what.file = f
        BY <3>3
      <4> HIDE DEF x
      <4>3. \A n \in Names \ {w.name} : inc'[n] = inc[n]
        BY <3>1, <3>3
      <4> QED
        BY <3>3, <4>1, <4>2, <4>3
    <3>4. CASE dest' = Put("asset", [file |-> inc[w.name], mode |-> mode, level |-> w.level, killed |-> w.killed])
                 /\ inc' = [inc EXCEPT ![w.name] = Nothing]
      BY <3>3, <3>4
    <3> QED
      BY <2>2, <3>2, <3>4 DEF RenameAsset
  <2>3. CASE RenameFacts \/ RenameSide
    BY <1>1, <2>3, CompanionsMove
  <2>4. CASE Sender
    BY <1>1, <2>4, SenderTakesNothing, OutsideMoves
  <2>5. CASE ~RenameAsset /\ ~RenameFacts /\ ~RenameSide /\ ~Sender
    BY <1>1, <2>1, <2>5, OnlyRenames, OnlyRenamesMove
  <2> QED
    BY <2>2, <2>3, <2>4, <2>5
<1>2. FolderInit => FolderInv /\ MoveInv
  BY FolderStart, MoveStart
<1>3. FolderInv /\ MoveInv /\ [FolderNext]_folderVars => (FolderInv /\ MoveInv)'
  BY FolderStep, MoveStep
<1>4. FolderInv /\ MoveInv /\ [FolderNext]_folderVars => [Kept]_folderVars
  BY <1>1
<1> QED
  BY <1>2, <1>3, <1>4, PTL DEF FolderSpec, NothingLost

\* Every asset in a destination was decided about in the pilot's log, in the version
\* it has, also when the watcher died between the record and the renames.
THEOREM MovesAreRecorded == FolderSpec => []MovedIsRecorded
<1>1. MoveInv => MovedIsRecorded
  BY DEF MoveInv, MovedIsRecorded, Assets, MoveTold, Told
<1> QED
  BY FolderStart, FolderStep, MoveStart, MoveStep, <1>1, PTL DEF FolderSpec

\* "grade and record, never move anything" (hotfolder.py:11): whatever another mode left
\* half done before the watcher was restarted in shadow mode.
THEOREM ShadowStaysOut == FolderSpec => ShadowMovesNothing
<1>1. FolderInv /\ MoveInv /\ [FolderNext]_folderVars => [mode = "shadow" => inc' = inc \/ Sender]_folderVars
  <2> SUFFICES ASSUME MoveInv, FolderNext, mode = "shadow", ~Sender PROVE inc' = inc
    OBVIOUS
  <2>1. ~RenameAsset
    BY DEF MoveInv, WatcherMoves, Moving, RenameAsset
  <2> QED
    BY <2>1, OnlyRenames
<1> QED
  BY FolderStart, FolderStep, MoveStart, MoveStep, <1>1, PTL DEF FolderSpec, ShadowMovesNothing

=============================================================================
