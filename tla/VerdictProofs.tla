---------------------------- MODULE VerdictProofs ----------------------------
(***************************************************************************)
(* The properties of the verdict path, for any constants: the receipts, the *)
(* loops and their ledger, CI, the graders of a stage.  One section per    *)
(* component, each with its inductive invariant.                           *)
(***************************************************************************)
EXTENDS ReceiptStore, AgentLoop, AgentCI, Graders, Attestation,
        FiniteSetTheorems, TLAPS

-----------------------------------------------------------------------------
(* ReceiptStore.  A receipt is numbered when HEAD is read, so all that is   *)
(* in a store is older; nothing leaves an untampered store, and a process   *)
(* moves HEAD to the receipt it has just written.                           *)

Envelope == [id : Nat, prev : Nat, ts : Nat]
Ids == {r.id : r \in receipts}
StepAt == {"idle", "grading", "write", "head", "clear"}

StoreType ==
  /\ receipts \subseteq Envelope /\ head \in Nat /\ made \in Nat
  /\ proc \in [Procs -> [at : StepAt, env : Envelope]]

\* An envelope names an older receipt that is there, or none.
Follows(env) == env.prev < env.id /\ env.id <= made /\ env.prev \in Ids \cup {_GENESIS}

StoreInv ==
  /\ StoreType
  /\ ~tampered =>
       /\ head \in Ids \cup {_GENESIS}
       /\ \A r \in receipts : Follows(r)
       /\ \A p \in Procs :
            /\ Committing(p) => Follows(proc[p].env)
            /\ proc[p].at = "head" => proc[p].env \in receipts

LEMMA StoreStep == StoreInv /\ [StoreNext]_storeVars => StoreInv'
<1> SUFFICES ASSUME StoreInv, [StoreNext]_storeVars PROVE StoreInv'
  OBVIOUS
<1> USE DEF StoreInv, StoreType, StepAt, Envelope, Ids, Follows, Committing, _GENESIS
<1>1. ASSUME NEW p \in Procs, begin(p) PROVE StoreInv'
  BY <1>1 DEF begin
<1>2. ASSUME NEW p \in Procs, ReadHead(p) PROVE StoreInv'
  BY <1>2 DEF ReadHead
<1>3. ASSUME NEW p \in Procs, Persist(p) PROVE StoreInv'
  BY <1>3 DEF Persist, Writes
<1>4. ASSUME NEW p \in Procs, ClearWal(p) PROVE StoreInv'
  BY <1>4 DEF ClearWal, NoWork
<1>5. ASSUME NEW p \in Procs, CrashWriter(p) PROVE StoreInv'
  BY <1>5 DEF CrashWriter, NoWork
<1>6. CASE Tamper
  BY <1>6 DEF Tamper
<1>7. CASE UNCHANGED storeVars
  BY <1>7 DEF storeVars
<1> QED
  BY <1>1, <1>2, <1>3, <1>4, <1>5, <1>6, <1>7 DEF StoreNext

\* Whatever the number of processes and receipts, and wherever processes die:
\* HEAD and every receipt name an older receipt that exists, until one is
\* removed (verdict/store.py commit: the file first, HEAD after it).
THEOREM ReceiptsAreRooted == StoreInit /\ [][StoreNext]_storeVars => []ChainIsRooted
<1>1. StoreInit => StoreInv
  BY DEF StoreInit, StoreInv, StoreType, StepAt, Envelope, Ids, Follows, Committing, NoWork, _GENESIS
<1>2. StoreInv => ChainIsRooted
  BY DEF StoreInv, Follows, Ids, ChainIsRooted
<1> QED
  BY <1>1, <1>2, StoreStep, PTL

-----------------------------------------------------------------------------
(* AgentLoop.  Only a session that passes makes a failure fixed, and it is  *)
(* cured from then on: what check_regressions returns, then or later, is.   *)

Where == {"idle", "perceive", "check", "record", "mark", "fix"}
Outcome_ == {"none", "pass", "regression", "stuck", "fix_gave_up", "max_iter", "crashed"}
Session == [at : Where, n : Nat, obs : SUBSET Fps, seen : SUBSET Fps, regressions : SUBSET Fps,
            outcome : Outcome_, verdict : Verdict \cup {"none"}, flat : Nat]

\* What a session holds against the artifact, and what it ends with.
Sound(s) ==
  /\ s.regressions \subseteq cured
  /\ s.outcome = "regression" => s.at = "idle" /\ s.regressions # {}

FixedIsCured == ledger \in [Fps -> Entry] /\ \A f \in Fps : ledger[f].status = "fixed" => f \in cured

LoopInv ==
  /\ artifact \in [Loops -> SUBSET Real]
  /\ session \in [Loops -> Session]
  /\ FixedIsCured
  /\ \A l \in Loops : Sound(session[l])

\* The loops and the store's decay, and a ledger in which nothing is fixed yet.
LoopStart == LoopInit /\ ledger = [f \in Fps |-> Unknown]
LoopMove == LoopNext \/ ((\E f \in Fps : Forget(f)) /\ UNCHANGED loopVars)

LEMMA Ranks == Rank("info") = 1 /\ Rank("warning") = 2 /\ Rank("error") = 3 /\ Rank("critical") = 4
  BY DEF Rank, SEV_ORDER

LEMMA GateAnswers == ASSUME NEW reports PROVE plain_gate(reports) \in Verdict
  BY DEF plain_gate, gate, Verdict_, Verdict

LEMMA GatingFps ==
  ASSUME NEW reports, NEW S, \A r \in reports : \A i \in r.issues : i.fp \in S
  PROVE  _gating_issues(reports) \subseteq S
  BY DEF _gating_issues, gating_failures

\* A percept's reports name what is in the percept.
LEMMA SightFps == ASSUME NEW obs PROVE _gating_issues(from_agentvision(obs)) \subseteq obs
<1> DEFINE found == obs \ Synthetic
           kinds == {GraderOf[f] : f \in found}
           issues(g) == {Issue(SevOf[f], "high", f) : f \in {x \in found : GraderOf[x] = g}}
           of(g) == Report(g, FALSE, issues(g))
<1>1. from_agentvision(obs) = IF kinds = {} THEN {Report("dom", FALSE, {})} ELSE {of(g) : g \in kinds}
  BY DEF from_agentvision
<1>2. ASSUME NEW r \in from_agentvision(obs), NEW i \in r.issues PROVE i.fp \in obs
  <2>1. CASE kinds = {}
    BY <1>1, <1>2, <2>1 DEF Report
  <2>2. CASE kinds # {}
    <3>1. PICK g \in kinds : r = of(g)
      BY <1>1, <2>2
    <3>2. i \in issues(g)
      BY <3>1 DEF Report
    <3> QED
      BY <3>2 DEF Issue
  <2> QED
    BY <2>1, <2>2
<1> QED
  BY <1>2, GatingFps

LEMMA FlatFps == ASSUME NEW l, session[l].obs \subseteq Fps PROVE Flat(l) \subseteq Fps
  BY SightFps DEF Flat, Reports

LEMMA EndSession ==
  ASSUME NEW s \in Session, NEW how \in Outcome_, NEW v \in Verdict \cup {"none"}
  PROVE  /\ End(s, how, v) \in Session
         /\ End(s, how, v).regressions = s.regressions
         /\ End(s, how, v).outcome = how
         /\ End(s, how, v).at = "idle"
  BY DEF End, Session, Where

LEMMA DecideSession ==
  ASSUME NEW s \in Session, NEW v \in Verdict, NEW isStuck, NEW seen \in SUBSET Fps,
         Sound(s), s.at # "idle"
  PROVE  Decide(s, v, isStuck, seen) \in Session /\ Sound(Decide(s, v, isStuck, seen))
<1> DEFINE t == [s EXCEPT !.seen = seen, !.verdict = v]
<1>1. t \in Session /\ t.regressions = s.regressions /\ t.outcome = s.outcome
  BY DEF Session
<1>2. ASSUME NEW at \in {"mark", "fix"}
      PROVE  [t EXCEPT !.at = at] \in Session /\ Sound([t EXCEPT !.at = at])
  BY <1>1 DEF Session, Where, Sound
<1>3. Decide(s, v, isStuck, seen) =
        IF v = "pass" THEN IF seen # {} THEN [t EXCEPT !.at = "mark"] ELSE End(t, "pass", v)
        ELSE IF s.regressions # {} THEN End(t, "regression", v)
        ELSE IF isStuck THEN End(t, "stuck", v)
        ELSE [t EXCEPT !.at = "fix"]
  BY DEF Decide
<1> HIDE DEF t
<1>4. ASSUME NEW how \in Outcome_, how = "regression" => s.regressions # {}
      PROVE  End(t, how, v) \in Session /\ Sound(End(t, how, v))
  <2>1. v \in Verdict \cup {"none"}
    OBVIOUS
  <2> QED
    BY <1>1, <1>4, <2>1, EndSession DEF Sound
<1>5. \A how \in {"pass", "stuck"} : how \in Outcome_ /\ how # "regression"
  BY DEF Outcome_
<1>6. "regression" \in Outcome_
  BY DEF Outcome_
<1> QED
  BY <1>2, <1>3, <1>4, <1>5, <1>6

\* Writing failures to the ledger fixes none, nor does the store's decay.
LEMMA RecordFixesNone ==
  ASSUME NEW F, NEW flaky, NEW same, ledger \in [Fps -> Entry], ledger' = record(F, flaky, same)
  PROVE  ledger' \in [Fps -> Entry] /\ \A f \in Fps : ledger'[f].status = "fixed" => ledger[f].status = "fixed"
<1>1. ASSUME NEW e \in Entry, NEW x \in BOOLEAN, NEW y \in BOOLEAN
      PROVE  Written(e, x, y) \in Entry /\ Written(e, x, y).status # "fixed"
  BY DEF Written, Entry, Status
<1>2. \A f \in Fps : ledger'[f] = IF f \in F THEN Written(ledger[f], f \in flaky, f \in same) ELSE ledger[f]
  BY DEF record
<1>3. ledger' = [f \in Fps |-> ledger'[f]] /\ \A f \in Fps : ledger[f] \in Entry
  BY DEF record
<1>4. ASSUME NEW f \in Fps
      PROVE  ledger'[f] \in Entry /\ (ledger'[f].status = "fixed" => ledger[f].status = "fixed")
  <2>1. (f \in flaky) \in BOOLEAN /\ (f \in same) \in BOOLEAN
    OBVIOUS
  <2> QED
    BY <1>1, <1>2, <1>3, <2>1, ZenonT(60)
<1> QED
  BY <1>3, <1>4

LEMMA ForgetFixesNone ==
  ASSUME NEW f \in Fps, ledger \in [Fps -> Entry], Forget(f)
  PROVE  ledger' \in [Fps -> Entry] /\ \A g \in Fps : ledger'[g].status = "fixed" => ledger[g].status = "fixed"
  BY DEF Forget, Unknown, Entry, Status

\* One session moves, and the rest is as it was.
LEMMA SessionMoves ==
  ASSUME LoopInv, NEW l \in Loops, NEW s, s \in Session, session' = [session EXCEPT ![l] = s],
         artifact' \in [Loops -> SUBSET Real], FixedIsCured', cured \subseteq cured',
         s.regressions \subseteq cured', s.outcome = "regression" => s.at = "idle" /\ s.regressions # {}
  PROVE  LoopInv'
  BY DEF LoopInv, Sound

LEMMA LoopStep == (LoopInv /\ [LoopMove]_<<loopVars, ledger>>) => LoopInv'
<1> SUFFICES ASSUME LoopInv, [LoopMove]_<<loopVars, ledger>> PROVE LoopInv'
  OBVIOUS
<1>0. \A l \in Loops : session[l] \in Session /\ Sound(session[l])
  BY DEF LoopInv
<1>a. Idle \in Session
  BY DEF Idle, Session, Where, Outcome_
<1>1. ASSUME NEW l \in Loops, Start(l) PROVE LoopInv'
  <2> DEFINE s == [Idle EXCEPT !.at = "perceive", !.n = 1]
  <2>1. s \in Session /\ s.regressions = {} /\ s.outcome = "none"
    BY DEF Idle, Session, Where, Outcome_
  <2>2. session' = [session EXCEPT ![l] = s] /\ UNCHANGED <<ledger, cured>> /\ artifact' \in [Loops -> SUBSET Real]
    BY <1>1 DEF Start, LoopInv
  <2>3. FixedIsCured'
    BY <2>2 DEF LoopInv, FixedIsCured
  <2> QED
    BY <2>1, <2>2, <2>3, SessionMoves
<1>2. ASSUME NEW l \in Loops, Perceive(l) PROVE LoopInv'
  <2>1. PICK o \in SUBSET (Opinions \cup Synthetic), flat \in Nat :
          session' = [session EXCEPT ![l] = [@ EXCEPT !.at = "check", !.obs = artifact[l] \cup o, !.flat = flat]]
    <3>1. session[l].flat + 1 \in Nat /\ 0 \in Nat
      BY <1>0 DEF Session
    <3>2. \E o \in SUBSET (Opinions \cup Synthetic) :
            \E flat \in {session[l].flat + 1, 0} :
              session' = [session EXCEPT ![l] = [@ EXCEPT !.at = "check", !.obs = artifact[l] \cup o, !.flat = flat]]
      BY <1>2, Zenon DEF Perceive
    <3> QED
      BY <3>1, <3>2
  <2> DEFINE s == [session[l] EXCEPT !.at = "check", !.obs = artifact[l] \cup o, !.flat = flat]
  <2>2. session' = [session EXCEPT ![l] = s]
    BY <2>1
  <2>3. artifact[l] \cup o \subseteq Fps
    BY LoopAssumption DEF LoopInv
  <2>4. s \in Session /\ s.regressions = session[l].regressions /\ s.outcome = session[l].outcome
    BY <1>0, <2>3 DEF Session, Where
  <2>5. session[l].at # "idle" /\ UNCHANGED <<artifact, ledger, cured>>
    BY <1>2 DEF Perceive
  <2>6. FixedIsCured'
    BY <2>5 DEF LoopInv, FixedIsCured
  <2> HIDE DEF s
  <2> QED
    BY <1>0, <2>2, <2>4, <2>5, <2>6, SessionMoves DEF LoopInv, Sound
<1>3. ASSUME NEW l \in Loops, Check(l) PROVE LoopInv'
  <2> DEFINE R == check_regressions(Flat(l))
             s == [session[l] EXCEPT !.at = "record", !.regressions = R]
  <2>1. session' = [session EXCEPT ![l] = s] /\ session[l].at # "idle" /\ UNCHANGED <<artifact, ledger, cured>>
    BY <1>3 DEF Check
  <2>2. Flat(l) \subseteq Fps
    BY <1>0, FlatFps DEF Session
  <2>3. R \subseteq Fps /\ R \subseteq cured
    BY <2>2 DEF check_regressions, LoopInv, FixedIsCured
  <2> HIDE DEF R
  <2>4. s \in Session /\ s.regressions = R /\ s.outcome = session[l].outcome
    BY <1>0, <2>3 DEF Session, Where
  <2>5. FixedIsCured'
    BY <2>1 DEF LoopInv, FixedIsCured
  <2> HIDE DEF s
  <2> QED
    BY <1>0, <2>1, <2>3, <2>4, <2>5, SessionMoves DEF LoopInv, Sound
<1>4. ASSUME NEW l \in Loops, Record(l) PROVE LoopInv'
  <2> DEFINE v == plain_gate(Reports(l) \cup Remembered(session[l].regressions))
             s == Decide(session[l], v, stuck(percepts[l]), session[l].seen \cup Flat(l))
  <2>1. /\ session' = [session EXCEPT ![l] = s]
        /\ session[l].at # "idle"
        /\ UNCHANGED <<artifact, cured>>
        /\ \E same \in SUBSET Flat(l) : ledger' = record(Flat(l), {}, same)
    BY <1>4 DEF Record
  <2>2. session[l].seen \cup Flat(l) \in SUBSET Fps
    BY <1>0, FlatFps DEF Session
  <2>3. s \in Session /\ Sound(s)
    BY <1>0, <2>1, <2>2, GateAnswers, DecideSession
  <2>4. FixedIsCured'
    <3>1. PICK same : ledger' = record(Flat(l), {}, same)
      BY <2>1
    <3> QED
      BY <2>1, <3>1, RecordFixesNone DEF LoopInv, FixedIsCured
  <2> HIDE DEF s
  <2> QED
    BY <2>1, <2>3, <2>4, SessionMoves DEF LoopInv, Sound
<1>5. ASSUME NEW l \in Loops, Mark(l) PROVE LoopInv'
  <2> DEFINE s == End(session[l], "pass", "pass")
  <2>1. /\ session' = [session EXCEPT ![l] = s]
        /\ ledger' = mark_fixed(session[l].seen) /\ cured' = cured \cup session[l].seen
        /\ UNCHANGED artifact
    BY <1>5 DEF Mark
  <2>2. s \in Session /\ s.regressions = session[l].regressions /\ s.outcome = "pass"
    BY <1>0, EndSession DEF Outcome_, Verdict
  <2>3. FixedIsCured'
    BY <2>1 DEF LoopInv, FixedIsCured, mark_fixed, Entry, Status
  <2> HIDE DEF s
  <2> QED
    BY <1>0, <2>1, <2>2, <2>3, SessionMoves DEF LoopInv, Sound
<1>6. ASSUME NEW l \in Loops, Fix(l) PROVE LoopInv'
  <2>1. PICK s : /\ session' = [session EXCEPT ![l] = s]
                 /\ \/ s = End(session[l], "fix_gave_up", session[l].verdict)
                    \/ s = End(session[l], "max_iter", session[l].verdict)
                    \/ s = [session[l] EXCEPT !.at = "perceive", !.n = session[l].n + 1]
    BY <1>6 DEF Fix
  <2>2. session[l].at # "idle" /\ artifact' \in [Loops -> SUBSET Real] /\ UNCHANGED <<ledger, cured>>
    BY <1>6 DEF Fix, LoopInv
  <2>3. s \in Session /\ s.regressions = session[l].regressions /\ s.outcome # "regression"
    <3>1. /\ session[l] \in Session /\ session[l].verdict \in Verdict \cup {"none"}
          /\ session[l].outcome # "regression"
      BY <1>0, <2>2 DEF Session, Sound
    <3>2. \A how \in {"fix_gave_up", "max_iter"} : how \in Outcome_ /\ how # "regression"
      BY DEF Outcome_
    <3>3. ASSUME NEW how \in {"fix_gave_up", "max_iter"}, s = End(session[l], how, session[l].verdict)
          PROVE  s \in Session /\ s.regressions = session[l].regressions /\ s.outcome # "regression"
      BY <3>1, <3>2, <3>3, EndSession
    <3>4. CASE s = [session[l] EXCEPT !.at = "perceive", !.n = session[l].n + 1]
      <4> DEFINE n == session[l].n + 1
      <4>1. n \in Nat
        BY <3>1 DEF Session
      <4>2. s = [session[l] EXCEPT !.at = "perceive", !.n = n]
        BY <3>4
      <4> HIDE DEF n
      <4> QED
        BY <3>1, <4>1, <4>2 DEF Session, Where
    <3> QED
      BY <2>1, <3>3, <3>4
  <2>4. FixedIsCured'
    BY <2>2 DEF LoopInv, FixedIsCured
  <2> QED
    BY <1>0, <2>1, <2>2, <2>3, <2>4, SessionMoves DEF LoopInv, Sound
<1>7. ASSUME NEW l \in Loops, Crash(l) PROVE LoopInv'
  <2> DEFINE s == [Idle EXCEPT !.outcome = "crashed"]
  <2>1. s \in Session /\ s.regressions = {} /\ s.outcome = "crashed"
    BY DEF Idle, Session, Where, Outcome_
  <2>2. session' = [session EXCEPT ![l] = s] /\ UNCHANGED <<artifact, ledger, cured>>
    BY <1>7 DEF Crash
  <2>3. FixedIsCured'
    BY <2>2 DEF LoopInv, FixedIsCured
  <2> QED
    BY <2>1, <2>2, <2>3, SessionMoves DEF LoopInv
<1>8. ASSUME NEW f \in Fps, Forget(f), UNCHANGED loopVars PROVE LoopInv'
  BY <1>8, ForgetFixesNone DEF loopVars, LoopInv, FixedIsCured, Sound
<1>9. CASE UNCHANGED <<loopVars, ledger>>
  BY <1>9 DEF loopVars, LoopInv, FixedIsCured, Sound
<1> QED
  BY <1>1, <1>2, <1>3, <1>4, <1>5, <1>6, <1>7, <1>8, <1>9 DEF LoopMove, LoopNext

\* Whatever the loops, the artifacts and the opinions: a session that ends on a
\* regression saw a failure that a session before it had seen and passed without
\* (failure_ledger.py check_regressions, mark_fixed), also when other loops write
\* to the ledger between the two, and when the store forgets.
THEOREM RegressionsAreReal == LoopStart /\ [][LoopMove]_<<loopVars, ledger>> => []RegressionIsReal
<1>1. LoopStart => LoopInv
  BY DEF LoopStart, LoopInit, LoopInv, FixedIsCured, Sound, Idle, Session, Where, Outcome_, Unknown, Entry, Status
<1>2. LoopInv => RegressionIsReal
  BY DEF LoopInv, Sound, RegressionIsReal
<1> QED
  BY <1>1, <1>2, LoopStep, PTL

-----------------------------------------------------------------------------
(* When a loop stops.  The percept log holds the last W percepts, of every   *)
(* session; those that did not shrink one after the other are its last      *)
(* ones, so W - 1 of them in a row are all the log shows.                   *)

FlatFits(S, s) ==
  /\ S \in Seq(SUBSET Fps) /\ Len(S) <= W
  /\ s.flat > 0 => Len(S) > s.flat \/ Len(S) = W
  /\ \A i \in 2..Len(S) : i > Len(S) - s.flat => ~Shrank(S[i], S[i-1])
  /\ s.at \in {"check", "record", "fix"} \/ (s.at = "perceive" /\ s.n > 1) => Len(S) > 0
  /\ s.at \in {"check", "record"} /\ s.flat > 0 => S[Len(S)] # {}
  /\ s.at = "fix" => s.flat <= W - 2
FlatInv == LoopInv /\ DOMAIN percepts = Loops /\ \A l \in Loops : FlatFits(percepts[l], session[l])

\* The log is a window: a percept comes in at its end, and the oldest leaves.
SlidOn(S, x, new, T) ==
  /\ new \in Seq(T) /\ Len(new) = (IF Len(S) < W THEN Len(S) + 1 ELSE W)
  /\ new[Len(new)] = x
  /\ \A i \in 1..(Len(new) - 1) : new[i] = S[i + (Len(S) + 1 - Len(new))]
LEMMA WindowMoves ==
  ASSUME NEW T, NEW S \in Seq(T), Len(S) <= W, NEW x \in T, NEW new, new = LastOnes(Append(S, x), W)
  PROVE  SlidOn(S, x, new, T)
<1> DEFINE all == Append(S, x)
<1>1. /\ all \in Seq(T) /\ Len(all) = Len(S) + 1 /\ Len(S) \in Nat /\ W \in Nat \ {0, 1}
      /\ all[Len(S) + 1] = x /\ \A i \in 1..Len(S) : all[i] = S[i]
  BY LoopAssumption
<1> HIDE DEF all
<1>2. CASE Len(S) < W
  <2>1. new = all
    BY <1>1, <1>2 DEF LastOnes, all
  <2>2. \A i \in 1..(Len(all) - 1) : all[i] = S[i + (Len(S) + 1 - Len(all))]
    BY <1>1
  <2> QED
    BY <1>1, <1>2, <2>1, <2>2 DEF SlidOn
<1>3. CASE Len(S) = W
  <2>1. new = SubSeq(all, 2, W + 1)
    BY <1>1, <1>3 DEF LastOnes, all
  <2>2. new \in Seq(T) /\ Len(new) = W /\ \A i \in 1..W : new[i] = all[i + 1]
    BY <1>1, <1>3, <2>1
  <2>3. new[Len(new)] = x
    BY <1>1, <1>3, <2>2
  <2>4. \A i \in 1..(Len(new) - 1) : new[i] = S[i + (Len(S) + 1 - Len(new))]
    <3> TAKE i \in 1..(Len(new) - 1)
    <3>1. i \in 1..W /\ i + 1 \in 1..Len(S) /\ Len(S) + 1 - Len(new) = 1
      BY <1>1, <1>3, <2>2
    <3> QED
      BY <1>1, <2>2, <3>1
  <2> QED
    BY <1>3, <2>2, <2>3, <2>4 DEF SlidOn
<1> QED
  BY <1>1, <1>2, <1>3

\* A session without a run of percepts, or with none to show yet.
LEMMA FlatRests ==
  ASSUME NEW S, NEW s, FlatFits(S, s), NEW t, t.flat = 0, t.at \notin {"check", "record", "fix"}, t.at # "perceive" \/ ~(t.n > 1)
  PROVE  FlatFits(S, t)
<1>1. Len(S) \in Nat
  BY DEF FlatFits
<1>2. ~(t.flat > 0) /\ ~(\E i \in 2..Len(S) : i > Len(S) - t.flat)
  BY <1>1
<1> QED
  BY <1>1, <1>2 DEF FlatFits

LEMMA PerceiveFlat ==
  ASSUME NEW S, NEW s \in Session, FlatFits(S, s), s.at = "perceive", NEW set \in SUBSET Fps,
         NEW k, k = (IF s.n > 1 /\ set # {} /\ ~Shrank(set, Last(S)) THEN s.flat + 1 ELSE 0),
         NEW t, t.flat = k, t.at = "check"
  PROVE  FlatFits(LastOnes(Append(S, set), W), t)
<1>1. PICK new : new = LastOnes(Append(S, set), W)
  OBVIOUS
<1>2. S \in Seq(SUBSET Fps) /\ Len(S) <= W /\ Len(S) \in Nat /\ W \in Nat \ {0, 1} /\ s.flat \in Nat
  BY LoopAssumption DEF FlatFits, Session
<1>3. /\ new \in Seq(SUBSET Fps) /\ Len(new) = (IF Len(S) < W THEN Len(S) + 1 ELSE W)
      /\ new[Len(new)] = set
      /\ \A i \in 1..(Len(new) - 1) : new[i] = S[i + (Len(S) + 1 - Len(new))]
  <2>1. SlidOn(S, set, new, SUBSET Fps)
    BY <1>1, <1>2, WindowMoves, Zenon
  <2> QED
    BY <2>1 DEF SlidOn
<1>4. CASE k = 0
  <2>1. ~(t.flat > 0) /\ \A i \in 2..Len(new) : ~(i > Len(new) - t.flat)
    BY <1>2, <1>3, <1>4
  <2>2. Len(new) <= W /\ Len(new) > 0
    BY <1>2, <1>3
  <2> QED
    BY <1>1, <1>3, <2>1, <2>2 DEF FlatFits
<1>5. CASE s.n > 1 /\ set # {} /\ ~Shrank(set, Last(S)) /\ k = s.flat + 1
  <2>1. Len(S) > 0 /\ (s.flat > 0 => Len(S) > s.flat \/ Len(S) = W)
    BY <1>5 DEF FlatFits
  <2>2. Len(new) <= W /\ Len(new) > 0 /\ (Len(new) > k \/ Len(new) = W)
    BY <1>2, <1>3, <1>5, <2>1
  <2>4. Len(new) \in Nat /\ Len(new) <= Len(S) + 1
    BY <1>2, <1>3
  <2>3. ASSUME NEW i \in 2..Len(new), i > Len(new) - k PROVE ~Shrank(new[i], new[i-1])
    <3>1. CASE i = Len(new)
      <4>1. i - 1 \in 1..(Len(new) - 1) /\ i - 1 + (Len(S) + 1 - Len(new)) = Len(S)
        BY <1>2, <2>4, <3>1
      <4>2. new[i-1] = S[Len(S)]
        BY <1>3, <4>1
      <4>3. S[Len(S)] = Last(S)
        BY DEF Last
      <4> QED
        BY <1>3, <1>5, <3>1, <4>2, <4>3
    <3>2. CASE i < Len(new)
      <4>1. PICK j : j = i + (Len(S) + 1 - Len(new))
        OBVIOUS
      <4>2. /\ i \in 1..(Len(new) - 1) /\ i - 1 \in 1..(Len(new) - 1) /\ j \in 2..Len(S) /\ j > Len(S) - s.flat
            /\ i - 1 + (Len(S) + 1 - Len(new)) = j - 1
        <5>1. PICK m, n, f : m = Len(new) /\ n = Len(S) /\ f = s.flat
          OBVIOUS
        <5>2. m \in Nat /\ n \in Nat /\ f \in Nat /\ n > 0 /\ m <= n + 1 /\ i \in 2..m /\ i > m - (f + 1) /\ i < m
          BY <1>2, <1>5, <2>1, <2>3, <2>4, <3>2, <5>1
        <5>3. j = i + (n + 1 - m)
          BY <4>1, <5>1
        <5>4. i \in 1..(m - 1) /\ i - 1 \in 1..(m - 1) /\ j \in 2..n /\ j > n - f /\ i - 1 + (n + 1 - m) = j - 1
          BY <5>2, <5>3
        <5> QED
          BY <5>1, <5>4
      <4>3. new[i] = S[j] /\ new[i-1] = S[j-1]
        BY <1>3, <4>1, <4>2
      <4> QED
        BY <4>2, <4>3 DEF FlatFits
    <3> QED
      BY <1>2, <1>3, <3>1, <3>2
  <2> QED
    BY <1>1, <1>3, <1>5, <2>2, <2>3 DEF FlatFits
<1> QED
  BY <1>4, <1>5

\* W - 1 percepts in a row fill the window: the log says stuck.
LEMMA FlatIsStuck ==
  ASSUME NEW S, NEW s \in Session, FlatFits(S, s), s.at = "record", ~stuck(S)
  PROVE  s.flat <= W - 2
<1>1. S \in Seq(SUBSET Fps) /\ Len(S) \in Nat /\ W \in Nat \ {0, 1} /\ s.flat \in Nat /\ Len(S) <= W
  BY LoopAssumption DEF FlatFits, Session
<1>2. SUFFICES ASSUME s.flat >= W - 1 PROVE stuck(S)
  BY <1>1
<1>3. s.flat > 0 /\ Len(S) = W
  BY <1>1, <1>2 DEF FlatFits
<1>4. S # <<>> /\ Last(S) # {} /\ Len(S) >= 2
  BY <1>1, <1>3 DEF FlatFits, Last
<1>5. ASSUME NEW i \in 2..Len(S) PROVE ~Shrank(S[i], S[i-1])
  <2>1. i > Len(S) - s.flat
    BY <1>1, <1>2, <1>3
  <2> QED
    BY <2>1 DEF FlatFits
<1> QED
  BY <1>4, <1>5 DEF stuck

\* The same percepts under another step of the session.
LEMMA FlatStays ==
  ASSUME NEW S, NEW s, FlatFits(S, s), s.at \in {"check", "record", "fix"}, NEW t, t.flat = s.flat,
         (t.at = "record" /\ s.at = "check") \/ t.at \in {"mark", "perceive"} \/ (t.at = "fix" /\ s.flat <= W - 2)
  PROVE  FlatFits(S, t)
BY DEF FlatFits

LEMMA DecideFlat ==
  ASSUME NEW s \in Session, NEW v, NEW isStuck, NEW seen
  PROVE  LET d == Decide(s, v, isStuck, seen)
         IN  \/ d.at = "idle" /\ d.flat = 0
             \/ d.at = "mark" /\ d.flat = s.flat
             \/ d.at = "fix" /\ d.flat = s.flat /\ ~isStuck
<1> DEFINE t == [s EXCEPT !.seen = seen, !.verdict = v]
<1>1. t.flat = s.flat /\ DOMAIN t = DOMAIN s /\ {"at", "flat"} \subseteq DOMAIN s
  BY DEF Session
<1>2. Decide(s, v, isStuck, seen) =
        IF v = "pass" THEN IF seen # {} THEN [t EXCEPT !.at = "mark"] ELSE End(t, "pass", v)
        ELSE IF s.regressions # {} THEN End(t, "regression", v)
        ELSE IF isStuck THEN End(t, "stuck", v)
        ELSE [t EXCEPT !.at = "fix"]
  BY DEF Decide
<1> HIDE DEF t
<1>3. ASSUME NEW how PROVE End(t, how, v).at = "idle" /\ End(t, how, v).flat = 0
  BY <1>1 DEF End
<1>4. ASSUME NEW at PROVE [t EXCEPT !.at = at].at = at /\ [t EXCEPT !.at = at].flat = s.flat
  BY <1>1
<1> QED
  BY <1>2, <1>3, <1>4

LEMMA FlatStep == FlatInv /\ [LoopMove]_<<loopVars, ledger>> => FlatInv'
<1> SUFFICES ASSUME FlatInv, [LoopMove]_<<loopVars, ledger>> PROVE FlatInv'
  OBVIOUS
<1>0. LoopInv /\ LoopInv' /\ DOMAIN percepts = Loops /\ session \in [Loops -> Session]
  BY LoopStep DEF FlatInv, LoopInv
<1>a. ASSUME NEW l \in Loops, NEW t, session' = [session EXCEPT ![l] = t], percepts' = percepts, FlatFits(percepts[l], t)
      PROVE  FlatInv'
  BY <1>0, <1>a DEF FlatInv
<1>b. \A l \in Loops : session[l] \in Session /\ FlatFits(percepts[l], session[l])
  BY <1>0 DEF FlatInv
<1>1. ASSUME NEW l \in Loops, Start(l) \/ Crash(l) PROVE FlatInv'
  <2>1. PICK t : /\ session' = [session EXCEPT ![l] = t] /\ t.flat = 0 /\ t.at \in {"perceive", "idle"} /\ ~(t.n > 1)
    <3>1. PICK t : /\ session' = [session EXCEPT ![l] = t]
                   /\ t = [Idle EXCEPT !.at = "perceive", !.n = 1] \/ t = [Idle EXCEPT !.outcome = "crashed"]
      BY <1>1 DEF Start, Crash
    <3>2. t.flat = 0 /\ t.at \in {"perceive", "idle"} /\ t.n \in {0, 1}
      BY <3>1 DEF Idle
    <3>3. ~(t.n > 1)
      BY <3>2
    <3> QED
      BY <3>1, <3>2, <3>3
  <2>2. FlatFits(percepts[l], t)
    BY <1>b, <2>1, FlatRests
  <2> QED
    BY <1>1, <1>a, <2>1, <2>2 DEF Start, Crash
<1>2. ASSUME NEW l \in Loops, Perceive(l) PROVE FlatInv'
  <2> DEFINE s == session[l]
             old == percepts[l]
  <2>1. PICK o \in SUBSET (Opinions \cup Synthetic) :
          LET obs == artifact[l] \cup o
              set == _gating_set(obs)
              flat == IF s.n > 1 /\ set # {} /\ ~Shrank(set, Last(old)) THEN s.flat + 1 ELSE 0
          IN  /\ session' = [session EXCEPT ![l] = [@ EXCEPT !.at = "check", !.obs = obs, !.flat = flat]]
              /\ percepts' = [percepts EXCEPT ![l] = LastOnes(Append(old, set), W)]
    BY <1>2 DEF Perceive
  <2>2. PICK obs : obs = artifact[l] \cup o
    OBVIOUS
  <2>3. PICK set : set = _gating_set(obs)
    OBVIOUS
  <2>4. PICK k : k = IF s.n > 1 /\ set # {} /\ ~Shrank(set, Last(old)) THEN s.flat + 1 ELSE 0
    OBVIOUS
  <2>5. PICK t : t = [s EXCEPT !.at = "check", !.obs = obs, !.flat = k]
    OBVIOUS
  <2>6. session' = [session EXCEPT ![l] = t] /\ percepts' = [percepts EXCEPT ![l] = LastOnes(Append(old, set), W)]
    BY <2>1, <2>2, <2>3, <2>4, <2>5
  <2>7. set \in SUBSET Fps
    <3>1. artifact[l] \in SUBSET Real
      BY <1>0 DEF LoopInv
    <3>2. obs \subseteq Fps
      BY <2>2, <3>1, LoopAssumption
    <3> QED
      BY <2>3, <3>2 DEF _gating_set
  <2>8. t.flat = k /\ t.at = "check"
    BY <1>b, <2>5 DEF Session
  <2>9. FlatFits(LastOnes(Append(old, set), W), t)
    BY <1>2, <1>b, <2>4, <2>7, <2>8, PerceiveFlat DEF Perceive
  <2>10. /\ DOMAIN percepts' = Loops /\ percepts'[l] = LastOnes(Append(old, set), W) /\ session'[l] = t
         /\ \A m \in Loops \ {l} : percepts'[m] = percepts[m] /\ session'[m] = session[m]
    BY <1>0, <2>6
  <2> QED
    BY <1>0, <1>b, <2>9, <2>10 DEF FlatInv
<1>3. ASSUME NEW l \in Loops, Check(l) PROVE FlatInv'
  <2>1. PICK t : t = [session[l] EXCEPT !.at = "record", !.regressions = check_regressions(Flat(l))]
    OBVIOUS
  <2>2. session' = [session EXCEPT ![l] = t] /\ percepts' = percepts /\ session[l].at = "check"
    BY <1>3, <2>1 DEF Check
  <2>3. t.at = "record" /\ t.flat = session[l].flat
    BY <1>b, <2>1 DEF Session
  <2>4. FlatFits(percepts[l], t)
    BY <1>b, <2>2, <2>3, FlatStays
  <2> QED
    BY <1>a, <2>2, <2>4
<1>4. ASSUME NEW l \in Loops, Record(l) PROVE FlatInv'
  <2>1. PICK v, seen, t : t = Decide(session[l], v, stuck(percepts[l]), seen) /\ session' = [session EXCEPT ![l] = t]
    BY <1>4 DEF Record
  <2>2. percepts' = percepts /\ session[l].at = "record"
    BY <1>4 DEF Record
  <2>3. \/ t.at = "idle" /\ t.flat = 0
        \/ t.at = "mark" /\ t.flat = session[l].flat
        \/ t.at = "fix" /\ t.flat = session[l].flat /\ ~stuck(percepts[l])
    BY <1>b, <2>1, DecideFlat
  <2>4. FlatFits(percepts[l], t)
    BY <1>b, <2>2, <2>3, FlatRests, FlatStays, FlatIsStuck
  <2> QED
    BY <1>a, <2>1, <2>2, <2>4
<1>5. ASSUME NEW l \in Loops, Mark(l) \/ Fix(l) PROVE FlatInv'
  <2>1. PICK t : /\ session' = [session EXCEPT ![l] = t]
                 /\ \/ \E how, v : t = End(session[l], how, v)
                    \/ session[l].at = "fix" /\ t = [session[l] EXCEPT !.at = "perceive", !.n = session[l].n + 1]
    BY <1>5 DEF Mark, Fix
  <2>2. percepts' = percepts
    BY <1>5 DEF Mark, Fix
  <2>3. CASE \E how, v : t = End(session[l], how, v)
    <3>1. t.at = "idle" /\ t.flat = 0
      BY <1>b, <2>3 DEF End, Session
    <3>2. FlatFits(percepts[l], t)
      BY <1>b, <3>1, FlatRests
    <3> QED
      BY <1>a, <2>1, <2>2, <3>2
  <2>4. CASE session[l].at = "fix" /\ t = [session[l] EXCEPT !.at = "perceive", !.n = session[l].n + 1]
    <3>1. t.at = "perceive" /\ t.flat = session[l].flat
      BY <1>b, <2>4 DEF Session
    <3>2. FlatFits(percepts[l], t)
      BY <1>b, <2>4, <3>1, FlatStays
    <3> QED
      BY <1>a, <2>1, <2>2, <3>2
  <2> QED
    BY <2>1, <2>3, <2>4
<1>6. CASE UNCHANGED loopVars
  BY <1>0, <1>6 DEF loopVars, FlatInv
<1> QED
  BY <1>1, <1>2, <1>3, <1>4, <1>5, <1>6 DEF LoopMove, LoopNext

\* percept_log.py's stuck and the loop's order: the agent is not called again once
\* the last W percepts did not shrink, for any window, loops and artifacts, also
\* when sessions crash and leave their percepts in the log.
THEOREM ThrashingIsStopped == LoopStart /\ [][LoopMove]_<<loopVars, ledger>> => []ThrashingStops
<1>1. LoopStart => FlatInv
  <2> SUFFICES ASSUME LoopStart PROVE FlatInv
    OBVIOUS
  <2>1. LoopInv
    BY DEF LoopStart, LoopInit, LoopInv, FixedIsCured, Sound, Idle, Session, Where, Outcome_, Unknown, Entry, Status
  <2>2. FlatFits(<<>>, Idle)
    <3>1. <<>> \in Seq(SUBSET Fps) /\ Len(<<>>) = 0 /\ W \in Nat
      BY LoopAssumption
    <3> QED
      BY <3>1 DEF FlatFits, Idle
  <2> QED
    BY <2>1, <2>2 DEF LoopStart, LoopInit, FlatInv
<1>2. FlatInv => ThrashingStops
  BY DEF FlatInv, FlatFits, ThrashingStops
<1> QED
  BY <1>1, <1>2, FlatStep, PTL

-----------------------------------------------------------------------------
(* AgentCI.  A canary reverts on reports of which one that is not advisory  *)
(* gates.  The regression guard's own report is not advisory whoever found  *)
(* the failure, so what is asked of the ledger is that nothing only an      *)
(* advisory grader reports was ever marked as fixed.                        *)

StageKinds == ToSet(Stage)
Hard == {f \in Fps : \A g \in StageKinds \cap ADVISORY_GRADERS : f \notin Finds[g]}

JobFields == {"kind", "at", "i", "reports", "found", "errored", "torn", "tree", "regressions", "work", "nonce",
              "round", "sigs", "start", "head", "verdict", "result"}

\* Reports of the stage's graders, each with what it can find.
OfStage(reports) == \A r \in reports : r.grader \in StageKinds /\ gating_failures(r) \subseteq Finds[r.grader]
Earned_(reports) == \E r \in reports : r.grader \in PRECISE_GRADERS /\ gating_failures(r) # {}

JobInv(s) ==
  /\ DOMAIN s = JobFields
  /\ s.at \in {"run", "seal"} => s.i \in 1..Len(Stage)
  /\ IF s.at = "seal" THEN s.found \subseteq Finds[Stage[s.i]] ELSE s.found = {}
  /\ s.at \in {"idle", "run", "seal", "gate", "record"} => OfStage(s.reports)
  /\ s.at = "record" => s.regressions \subseteq Hard \cap _gating_issues(s.reports)
  /\ s.at = "decide" => (decide(s.reports) => Earned_(s.reports))
  /\ s.at = "revert" => Earned_(s.reports)
  /\ s.result = "reverted" => s.at = "done" /\ Earned_(s.reports)

HardOnly == ledger \in [Fps -> Entry] /\ \A f \in Fps : ledger[f].status = "fixed" => f \in Hard

CIInv == HardOnly /\ DOMAIN jobs = Jobs /\ \A j \in Jobs : JobInv(jobs[j])

CIStart == CIInit /\ HardOnly
CIMove == CINext \/ ((\E f \in Fps : Forget(f)) /\ UNCHANGED ciVars)

LEMMA StageFacts ==
  /\ \A i \in 1..Len(Stage) : Stage[i] \in StageKinds
  /\ \A g \in StageKinds : Finds[g] \subseteq Fps
  /\ 1 \in 1..Len(Stage) /\ Len(Stage) \in Nat
<1>1. Stage \in Seq(DOMAIN Finds) /\ Stage # <<>>
  BY CIAssumption
<1> QED
  BY <1>1, CIAssumption DEF StageKinds, ToSet

LEMMA JobMoves ==
  ASSUME CIInv, NEW j \in Jobs, NEW s, JobInv(s), Update(j, s), HardOnly'
  PROVE  CIInv'
<1>1. \A k \in Jobs : jobs'[k] = IF k = j THEN s ELSE jobs[k]
  BY DEF Update, CIInv
<1>2. DOMAIN jobs' = Jobs
  BY DEF Update, CIInv
<1> QED
  BY <1>1, <1>2 DEF CIInv, JobInv

LEMMA NoJobInv == JobInv(NoJob)
  BY DEF NoJob, JobInv, JobFields, OfStage, Earned_, gating_failures

\* A report is added and the next grader's turn comes.
LEMMA AdvanceInv ==
  ASSUME NEW s, JobInv(s), s.at \in {"run", "seal"}, NEW r, OfStage({r}), s.i \in 1..Len(Stage)
  PROVE  JobInv(Advance(s, r))
<1>1. /\ DOMAIN Advance(s, r) = JobFields
      /\ Advance(s, r).reports = s.reports \cup {r}
      /\ Advance(s, r).i = s.i + 1
      /\ Advance(s, r).at = (IF s.i = Len(Stage) THEN "gate" ELSE "run")
      /\ Advance(s, r).result = s.result /\ Advance(s, r).found = {}
  BY DEF Advance, JobInv, JobFields
<1>2. OfStage(s.reports \cup {r}) /\ s.result # "reverted"
  BY DEF JobInv, OfStage
<1>3. Advance(s, r).at = "run" => Advance(s, r).i \in 1..Len(Stage)
  BY <1>1, StageFacts, SMTT(60)
<1> QED
  BY <1>1, <1>2, <1>3 DEF JobInv

LEMMA RunInv ==
  ASSUME CIInv, NEW j \in Jobs, Run(j)
  PROVE  \E s : JobInv(s) /\ Update(j, s)
<1> DEFINE s == jobs[j]
           g == Stage[s.i]
<1>1. s.at = "run" /\ JobInv(s) /\ s.i \in 1..Len(Stage) /\ g \in StageKinds
  BY StageFacts DEF Run, CIInv, JobInv
<1>2. CASE Update(j, Advance(s, Report(g, TRUE, {})))
  <2>1. OfStage({Report(g, TRUE, {})})
    BY <1>1 DEF OfStage, Report, gating_failures
  <2> QED
    BY <1>1, <1>2, <2>1, AdvanceInv
<1>3. JobInv([s EXCEPT !.at = "seal", !.errored = TRUE])
  BY <1>1 DEF JobInv, JobFields
<1>4. ASSUME NEW w \in SUBSET (Weather \cap Finds[g])
      PROVE  JobInv([s EXCEPT !.at = "seal", !.found = (Finds[g] \cap Tree(j)) \cup w])
  <2> DEFINE x == (Finds[g] \cap Tree(j)) \cup w
  <2>1. x \subseteq Finds[g]
    BY SMTT(60)
  <2> HIDE DEF x
  <2> QED
    BY <1>1, <2>1 DEF JobInv, JobFields
<1>5. \/ Update(j, [s EXCEPT !.at = "seal", !.errored = TRUE])
      \/ \E w \in SUBSET (Weather \cap Finds[g]) :
           Update(j, [s EXCEPT !.at = "seal", !.found = (Finds[g] \cap Tree(j)) \cup w])
      \/ Update(j, Advance(s, Report(g, TRUE, {})))
  BY ZenonT(60) DEF Run
<1> QED
  BY <1>2, <1>3, <1>4, <1>5, ZenonT(60)

LEMMA SealInv ==
  ASSUME CIInv, NEW j \in Jobs, Seal(j)
  PROVE  \E s : JobInv(s) /\ Update(j, s)
<1> DEFINE s == jobs[j]
           g == Stage[s.i]
           r == Report(g, s.errored, {Issue("error", Confidence[f], f) : f \in s.found})
           signed == [r EXCEPT !.receipt = _receipt(g, Tree(j), s.nonce, r)]
<1>1. /\ s.at = "seal" /\ JobInv(s) /\ s.i \in 1..Len(Stage) /\ g \in StageKinds
      /\ s.found \subseteq Finds[g] /\ Update(j, Advance(s, signed))
  BY StageFacts DEF Seal, CIInv, JobInv
<1>2. signed.grader = g /\ signed.issues = {Issue("error", Confidence[f], f) : f \in s.found}
  BY DEF Report
<1>3. gating_failures(signed) \subseteq s.found
  BY <1>2 DEF gating_failures, Issue
<1>4. OfStage({signed})
  BY <1>1, <1>2, <1>3 DEF OfStage
<1> HIDE DEF signed
<1> QED
  BY <1>1, <1>4, AdvanceInv

LEMMA RecallInv ==
  ASSUME CIInv, NEW j \in Jobs, Recall(j)
  PROVE  \E s : JobInv(s) /\ Update(j, s)
<1> DEFINE R == check_regressions(_gating_issues(jobs[j].reports))
           s == [jobs[j] EXCEPT !.at = "record", !.tree = Tree(j), !.regressions = R]
<1>1. JobInv(jobs[j]) /\ jobs[j].at = "gate" /\ Update(j, s)
  BY DEF Recall, CIInv
<1>2. OfStage(jobs[j].reports)
  BY <1>1 DEF JobInv
<1>3. _gating_issues(jobs[j].reports) \subseteq Fps
  BY <1>2, StageFacts DEF OfStage, _gating_issues
<1>4. R \subseteq Hard \cap _gating_issues(jobs[j].reports)
  BY <1>3 DEF check_regressions, CIInv, HardOnly
<1> HIDE DEF R
<1>5. JobInv(s)
  BY <1>1, <1>4 DEF JobInv, JobFields
<1> HIDE DEF s
<1> QED
  BY <1>1, <1>5

\* What the regression guard adds is earned: the failure is in a report of the
\* stage, and a grader that found what was fixed before is not advisory.
LEMMA GuardIsEarned ==
  ASSUME NEW reports, OfStage(reports), NEW R, R \subseteq Hard \cap _gating_issues(reports),
         StageKinds \subseteq PRECISE_GRADERS \cup ADVISORY_GRADERS,
         decide(reports \cup Remembered(R))
  PROVE  Earned_(reports \cup Remembered(R))
<1>1. PICK r \in reports \cup Remembered(R) : r.grader \notin ADVISORY_GRADERS /\ gating_failures(r) # {}
  BY DEF decide
<1>2. CASE r \in reports
  BY <1>1, <1>2 DEF OfStage, Earned_
<1>3. CASE r \in Remembered(R)
  <2>1. PICK f : f \in R
    BY <1>3 DEF Remembered
  <2>2. PICK q \in reports : f \in gating_failures(q)
    BY <2>1 DEF _gating_issues
  <2>3. q.grader \notin ADVISORY_GRADERS
    BY <2>1, <2>2 DEF OfStage, Hard
  <2> QED
    BY <2>2, <2>3 DEF OfStage, Earned_
<1> QED
  BY <1>2, <1>3

LEMMA GatedInv ==
  ASSUME CIInv, NEW j \in Jobs, Gated(j), StageKinds \subseteq PRECISE_GRADERS \cup ADVISORY_GRADERS
  PROVE  (\E s : JobInv(s) /\ Update(j, s)) /\ HardOnly'
<1> DEFINE s == jobs[j]
           v == StageVerdict(j)
           all == s.reports \cup Remembered(s.regressions)
           t == [s EXCEPT !.verdict = v, !.reports = all, !.result = IF v = "pass" THEN "passed" ELSE s.result,
                          !.at = IF v = "pass" THEN "done" ELSE IF s.kind = "heal" THEN "triage" ELSE "decide"]
<1>1. JobInv(s) /\ s.at = "record" /\ Update(j, t)
  BY DEF Gated, CIInv
<1>2. decide(all) => Earned_(all)
  BY <1>1, GuardIsEarned DEF JobInv
<1>3. JobInv(t)
  <2>1. /\ DOMAIN t = JobFields /\ t.reports = all /\ t.at \in {"done", "triage", "decide"}
        /\ t.result # "reverted" /\ t.found = {}
    <3> HIDE DEF all, v
    <3> QED
      BY <1>1 DEF JobInv, JobFields
  <2> HIDE DEF t, all
  <2> QED
    BY <1>2, <2>1 DEF JobInv
<1>4. HardOnly'
  BY RecordFixesNone DEF Gated, CIInv, HardOnly
<1> HIDE DEF t
<1> QED
  BY <1>1, <1>3, <1>4

LEMMA NextRoundInv ==
  ASSUME NEW s, JobInv(s), s.at = "triage"
  PROVE  JobInv(NextRound(s))
<1>1. CASE s.round = MaxRounds
  BY <1>1 DEF NextRound, JobInv, JobFields
<1>2. CASE s.round # MaxRounds
  BY <1>2, StageFacts DEF NextRound, JobInv, JobFields, OfStage
<1> QED
  BY <1>1, <1>2

LEMMA HealInv ==
  ASSUME CIInv, NEW j \in Jobs, Heal(j)
  PROVE  \E s : JobInv(s) /\ Update(j, s)
<1> DEFINE s == jobs[j]
<1>1. JobInv(s) /\ s.at = "triage"
  BY DEF Heal, CIInv
<1>2. /\ JobInv([s EXCEPT !.at = "done", !.result = "escalate"])
      /\ JobInv([s EXCEPT !.at = "done", !.result = "no_progress"])
  BY <1>1 DEF JobInv, JobFields
<1>3. ASSUME NEW w PROVE JobInv([s EXCEPT !.work = w]) /\ [s EXCEPT !.work = w].at = "triage"
  BY <1>1 DEF JobInv, JobFields
<1>4. JobInv(NextRound(s)) /\ \A w : JobInv(NextRound([s EXCEPT !.work = w]))
  BY <1>1, <1>3, NextRoundInv
<1>5. \/ Update(j, [s EXCEPT !.at = "done", !.result = "escalate"])
      \/ Update(j, [s EXCEPT !.at = "done", !.result = "no_progress"])
      \/ Update(j, NextRound(s))
      \/ \E w : Update(j, NextRound([s EXCEPT !.work = w]))
  BY DEF Heal
<1> QED
  BY <1>2, <1>4, <1>5

LEMMA ProposeInv ==
  ASSUME CIInv, NEW j \in Jobs, Propose(j)
  PROVE  \E s : JobInv(s) /\ Update(j, s)
<1> DEFINE s == jobs[j]
<1>1. JobInv(s) /\ s.at = "decide"
  BY DEF Propose, CIInv
<1>2. decide(s.reports) => JobInv([s EXCEPT !.at = "revert", !.head = Len(main)])
  BY <1>1 DEF JobInv, JobFields
<1>3. JobInv([s EXCEPT !.at = "done", !.result = "denied"])
  BY <1>1 DEF JobInv, JobFields
<1>4. \/ decide(s.reports) /\ Update(j, [s EXCEPT !.at = "revert", !.head = Len(main)])
      \/ Update(j, [s EXCEPT !.at = "done", !.result = "denied"])
  BY DEF Propose
<1> QED
  BY <1>2, <1>3, <1>4

LEMMA OvertakenInv == ASSUME NEW s, JobInv(s) PROVE JobInv(Overtaken(s))
<1>1. PICK x : x = (s.torn \/ (s.kind = "canary" /\ s.at = "seal"))
  OBVIOUS
<1>2. Overtaken(s) = [s EXCEPT !.torn = x]
  BY <1>1 DEF Overtaken
<1> QED
  BY <1>2 DEF JobInv, JobFields

LEMMA RevertInv ==
  ASSUME CIInv, NEW j \in Jobs, Revert(j)
  PROVE  CIInv'
<1> DEFINE s == jobs[j]
<1>1. JobInv(s) /\ s.at = "revert" /\ UNCHANGED ledger
  BY DEF Revert, CIInv
<1>2. HardOnly'
  BY <1>1 DEF CIInv, HardOnly, Hard, StageKinds
<1>3. JobInv([s EXCEPT !.at = "done", !.result = "reverted"])
  BY <1>1 DEF JobInv, JobFields
<1>4. JobInv([s EXCEPT !.at = "done", !.result = "revert_failed"])
  BY <1>1 DEF JobInv, JobFields
<1>5. CASE jobs' = [k \in Jobs |-> IF k = j THEN [s EXCEPT !.at = "done", !.result = "reverted"] ELSE Overtaken(jobs[k])]
  <2>1. DOMAIN jobs' = Jobs /\ \A k \in Jobs : jobs'[k] = [s EXCEPT !.at = "done", !.result = "reverted"] \/ jobs'[k] = Overtaken(jobs[k])
    BY <1>5
  <2>2. \A k \in Jobs : JobInv(jobs'[k])
    BY <1>3, <2>1, OvertakenInv DEF CIInv
  <2> QED
    BY <1>2, <2>1, <2>2 DEF CIInv, JobInv
<1>6. CASE Update(j, [s EXCEPT !.at = "done", !.result = "revert_failed"])
  BY <1>2, <1>4, <1>6, JobMoves
<1> QED
  BY <1>5, <1>6 DEF Revert

LEMMA BeginInv ==
  ASSUME CIInv, NEW j \in Jobs, Begin(j)
  PROVE  \E s : JobInv(s) /\ Update(j, s)
<1>1. ASSUME NEW s, s.at = "run", s.i = 1, s.reports = {}, s.found = {}, s.result = "none", DOMAIN s = JobFields
      PROVE  JobInv(s)
  BY <1>1, StageFacts DEF JobInv, OfStage
<1>2. JobInv([NoJob EXCEPT !.kind = "canary", !.at = "run", !.nonce = 1, !.start = Len(main)])
  BY <1>1 DEF NoJob, JobFields
<1>3. ASSUME NEW w
      PROVE  JobInv([NoJob EXCEPT !.kind = "heal", !.at = "run", !.nonce = 1, !.round = 1, !.work = w])
  BY <1>1 DEF NoJob, JobFields
<1> QED
  BY <1>2, <1>3 DEF Begin

LEMMA CIStep ==
  ASSUME StageKinds \subseteq PRECISE_GRADERS \cup ADVISORY_GRADERS, CIInv, [CIMove]_<<ciVars, ledger>>
  PROVE  CIInv'
<1>1. ASSUME NEW j \in Jobs,
             Begin(j) \/ Run(j) \/ Seal(j) \/ Recall(j) \/ Heal(j) \/ Propose(j)
      PROVE  CIInv'
  <2>1. UNCHANGED ledger
    BY <1>1, ZenonT(60) DEF Begin, Run, Seal, Recall, Heal, Propose
  <2>2. HardOnly'
    BY <2>1 DEF CIInv, HardOnly, Hard, StageKinds
  <2>3. PICK s : JobInv(s) /\ Update(j, s)
    BY <1>1, BeginInv, RunInv, SealInv, RecallInv, HealInv, ProposeInv
  <2> QED
    BY <2>2, <2>3, JobMoves, SMTT(60)
<1>2. ASSUME NEW j \in Jobs, Gated(j) PROVE CIInv'
  BY <1>2, GatedInv, JobMoves
<1>6. ASSUME NEW j \in Jobs, Revert(j) PROVE CIInv'
  BY <1>6, RevertInv
<1>3. CASE Merge
  <2>1. /\ DOMAIN jobs' = Jobs /\ UNCHANGED ledger
        /\ \A j \in Jobs : jobs'[j] = Overtaken(jobs[j])
    BY <1>3 DEF Merge
  <2>3. \A j \in Jobs : JobInv(jobs'[j])
    BY <2>1, OvertakenInv DEF CIInv
  <2> QED
    BY <2>1, <2>3 DEF CIInv, HardOnly, JobInv
<1>4. ASSUME NEW f \in Fps, Forget(f), UNCHANGED ciVars PROVE CIInv'
  BY <1>4, ForgetFixesNone DEF ciVars, CIInv, HardOnly
<1>5. CASE UNCHANGED <<ciVars, ledger>>
  BY <1>5 DEF ciVars, CIInv, HardOnly
<1> QED
  BY <1>1, <1>2, <1>3, <1>4, <1>5, <1>6 DEF CIMove, CINext

\* "A destructive action NEVER depends on an advisory grader" (ci/rollback.py:3),
\* for any stage of graders that are each precise or advisory, and whatever people
\* merge: as long as no failure that an advisory grader of the stage can report
\* was ever marked as fixed.  Without that the regression guard turns the opinion
\* into a failure of its own, which the policy takes for evidence.
THEOREM RevertsAreEarned ==
  ASSUME StageKinds \subseteq PRECISE_GRADERS \cup ADVISORY_GRADERS
  PROVE  CIStart /\ [][CIMove]_<<ciVars, ledger>> => []RevertIsEarned
<1>1. CIStart => CIInv
  BY NoJobInv DEF CIStart, CIInit, CIInv
<1>2. CIInv /\ [CIMove]_<<ciVars, ledger>> => CIInv'
  BY CIStep
<1>3. CIInv => RevertIsEarned
  BY DEF CIInv, JobInv, Earned_, RevertIsEarned
<1> QED
  BY <1>1, <1>2, <1>3, PTL

-----------------------------------------------------------------------------
(* What a passed stage says of its tree.  A receipt that was sealed over    *)
(* the tree a grader ran on reports all the grader finds there; the gate    *)
(* asks for the tree it pinned, so a pass rests on reports of that tree.    *)

TreeOf(s, m) == IF s.kind = "heal" THEN s.work ELSE Last(m)
Truthful(r) ==
  r.receipt # NoReceipt /\ ~r.errored /\ r.grader \in Bound =>
    \A f \in Finds[r.grader] \cap r.receipt.inputs_digest.content : Issue("error", Confidence[f], f) \in r.issues
CleanTree(s) == \A g \in Required \cap Bound : Finds[g] \cap s.tree = {}

RunFits(s, m) ==
  /\ DOMAIN s = JobFields /\ s.torn \in BOOLEAN /\ s.errored \in BOOLEAN
  /\ s.at # "idle" => s.kind \in {"canary", "heal"}
  /\ s.at \in {"run", "seal"} => s.i \in 1..Len(Stage)
  /\ s.at # "seal" => s.errored = FALSE
  /\ s.at = "seal" /\ s.torn = FALSE /\ s.errored = FALSE => Finds[Stage[s.i]] \cap TreeOf(s, m) \subseteq s.found
  /\ s.at \in {"idle", "run", "seal", "gate", "record"} =>
       \A r \in s.reports : r.grader \in StageKinds /\ (s.torn = FALSE => Truthful(r))
  /\ s.result = "passed" => s.at = "done" /\ (s.torn = FALSE => CleanTree(s))

PassInv == DOMAIN jobs = Jobs /\ \A j \in Jobs : RunFits(jobs[j], main)

\* A pass of the gate: every required grader reported, attested what was asked of
\* it, and found nothing.
LEMMA GatePasses ==
  ASSUME NEW reports, NEW required, NEW ask, gate(reports, required, ask) = "pass", NEW g \in required
  PROVE  \E r \in reports : /\ r.grader = g /\ ~r.errored /\ Attests(r, ask[g])
                            /\ \A i \in r.issues : i.sev # "error"
<1>1. Absent(reports, required) = {} /\ Hollow(reports, required, ask) = {}
      /\ Verdict_(Severities(reports)) = "pass"
  BY DEF gate
<1>2. PICK r \in reports : r.grader = g /\ ~r.errored
  BY <1>1 DEF Absent
<1>3. Attests(r, ask[g])
  BY <1>1, <1>2 DEF Hollow
<1>4. ASSUME NEW i \in r.issues, i.sev = "error" PROVE FALSE
  <2>1. Effective(r, i) \in {"warning", "error"}
    BY <1>4, Ranks DEF Effective, clamp_ceiling
  <2>2. Effective(r, i) \in Severities(reports)
    BY DEF Severities
  <2> QED
    BY <1>1, <2>1, <2>2, Ranks DEF Verdict_, AtLeast
<1> QED
  BY <1>2, <1>3, <1>4

LEMMA FitMoves ==
  ASSUME PassInv, NEW j \in Jobs, NEW s, RunFits(s, main), Update(j, s), main' = main
  PROVE  PassInv'
<1>1. DOMAIN jobs' = Jobs /\ \A k \in Jobs : jobs'[k] = IF k = j THEN s ELSE jobs[k]
  BY DEF Update, PassInv
<1>2. \A k \in Jobs : RunFits(jobs'[k], main)
  BY <1>1 DEF PassInv
<1> QED
  BY <1>1, <1>2 DEF PassInv

\* Whatever main becomes, a canary that was reading it is torn.
LEMMA OvertakenFits ==
  ASSUME NEW s, NEW m, NEW n, RunFits(s, m)
  PROVE  RunFits(Overtaken(s), n)
<1>1. PICK x : x = (s.torn \/ (s.kind = "canary" /\ s.at = "seal"))
  OBVIOUS
<1>2. Overtaken(s) = [s EXCEPT !.torn = x] /\ DOMAIN s = JobFields
  BY <1>1 DEF Overtaken, RunFits
<1>3. x \in BOOLEAN
  <2>1. (s.torn \/ (s.kind = "canary" /\ s.at = "seal")) \in BOOLEAN
    OBVIOUS
  <2> QED
    BY <1>1, <2>1, Zenon
<1>4. x = FALSE => s.torn = FALSE /\ ~(s.kind = "canary" /\ s.at = "seal")
  <2>1. s.torn \in BOOLEAN
    BY DEF RunFits
  <2> QED
    BY <1>1, <2>1, Zenon
<1>5. /\ DOMAIN Overtaken(s) = JobFields /\ Overtaken(s).torn = x
      /\ \A k \in JobFields \ {"torn"} : Overtaken(s)[k] = s[k]
  BY <1>2 DEF JobFields
<1>6. PICK t : t = Overtaken(s)
  OBVIOUS
<1>7. /\ t.errored = s.errored /\ t.at = s.at /\ t.kind = s.kind /\ t.i = s.i /\ t.found = s.found /\ t.work = s.work
      /\ t.reports = s.reports /\ t.result = s.result /\ t.tree = s.tree /\ t.torn = x /\ DOMAIN t = JobFields
  BY <1>5, <1>6 DEF JobFields
<1>8. t.at = "seal" /\ x = FALSE => t.kind = "heal" /\ TreeOf(t, n) = TreeOf(s, m)
  BY <1>4, <1>7 DEF RunFits, TreeOf
<1>9. RunFits(t, n)
  BY <1>3, <1>4, <1>7, <1>8 DEF RunFits, CleanTree
<1> QED
  BY <1>6, <1>9

LEMMA AdvanceFits ==
  ASSUME NEW s, NEW m, RunFits(s, m), s.at \in {"run", "seal"}, NEW r, r.grader \in StageKinds,
         s.torn = FALSE => Truthful(r)
  PROVE  RunFits(Advance(s, r), m)
<1>0. PICK t : t = Advance(s, r)
  OBVIOUS
<1>1. /\ DOMAIN t = JobFields /\ t.reports = s.reports \cup {r} /\ t.i = s.i + 1 /\ t.errored = FALSE
      /\ t.at = (IF s.i = Len(Stage) THEN "gate" ELSE "run")
      /\ t.result = s.result /\ t.torn = s.torn /\ t.kind = s.kind
  BY <1>0 DEF Advance, RunFits, JobFields
<1>2. t.at = "run" => t.i \in 1..Len(Stage)
  <2>1. s.i \in 1..Len(Stage) /\ Len(Stage) \in Nat
    BY StageFacts DEF RunFits
  <2> QED
    BY <1>1, <2>1
<1>3. t.at \in {"gate", "run"} /\ s.result # "passed" /\ s.kind \in {"canary", "heal"}
  BY <1>1 DEF RunFits
<1>4. \A q \in t.reports : q.grader \in StageKinds /\ (t.torn = FALSE => Truthful(q))
  BY <1>1 DEF RunFits
<1>5. t.torn \in BOOLEAN /\ t.errored \in BOOLEAN
  BY <1>1 DEF RunFits
<1>6. RunFits(t, m)
  BY <1>1, <1>2, <1>3, <1>4, <1>5 DEF RunFits
<1> QED
  BY <1>0, <1>6

LEMMA RunStillFits ==
  ASSUME PassInv, NEW j \in Jobs, Run(j)
  PROVE  \E s : RunFits(s, main) /\ Update(j, s)
<1> DEFINE s == jobs[j]
           g == Stage[s.i]
<1>1. s.at = "run" /\ RunFits(s, main) /\ s.i \in 1..Len(Stage) /\ g \in StageKinds /\ DOMAIN s = JobFields
  BY StageFacts DEF Run, PassInv, RunFits
<1>2. RunFits(Advance(s, Report(g, TRUE, {})), main)
  <2>1. Truthful(Report(g, TRUE, {})) /\ Report(g, TRUE, {}).grader = g
    BY DEF Truthful, Report
  <2> QED
    BY <1>1, <2>1, AdvanceFits
<1>3. RunFits([s EXCEPT !.at = "seal", !.errored = TRUE], main)
  <2>0. PICK t : t = [s EXCEPT !.at = "seal", !.errored = TRUE]
    OBVIOUS
  <2>1. /\ DOMAIN t = JobFields /\ t.at = "seal" /\ t.errored = TRUE /\ t.torn = s.torn /\ t.i = s.i /\ t.kind = s.kind
        /\ t.reports = s.reports /\ t.result = s.result
    BY <1>1, <2>0 DEF JobFields
  <2>2. RunFits(t, main)
    BY <1>1, <2>1 DEF RunFits
  <2> QED
    BY <2>0, <2>2
<1>4. ASSUME NEW w PROVE RunFits([s EXCEPT !.at = "seal", !.found = (Finds[g] \cap Tree(j)) \cup w], main)
  <2>0. PICK t : t = [s EXCEPT !.at = "seal", !.found = (Finds[g] \cap Tree(j)) \cup w]
    OBVIOUS
  <2>1. /\ DOMAIN t = JobFields /\ t.at = "seal" /\ t.errored = s.errored /\ t.torn = s.torn /\ t.i = s.i /\ t.kind = s.kind
        /\ t.reports = s.reports /\ t.result = s.result /\ t.work = s.work /\ t.found = (Finds[g] \cap Tree(j)) \cup w
    BY <1>1, <2>0 DEF JobFields
  <2>2. TreeOf(t, main) = Tree(j)
    BY <2>1 DEF TreeOf, Tree
  <2>3. RunFits(t, main)
    BY <1>1, <2>1, <2>2 DEF RunFits
  <2> QED
    BY <2>0, <2>3
<1>5. \/ Update(j, [s EXCEPT !.at = "seal", !.errored = TRUE])
      \/ \E w : Update(j, [s EXCEPT !.at = "seal", !.found = (Finds[g] \cap Tree(j)) \cup w])
      \/ Update(j, Advance(s, Report(g, TRUE, {})))
  BY ZenonT(60) DEF Run
<1> QED
  BY <1>2, <1>3, <1>4, <1>5, ZenonT(60)

LEMMA SealStillFits ==
  ASSUME PassInv, NEW j \in Jobs, Seal(j)
  PROVE  \E s : RunFits(s, main) /\ Update(j, s)
<1> DEFINE s == jobs[j]
           g == Stage[s.i]
           r == Report(g, s.errored, {Issue("error", Confidence[f], f) : f \in s.found})
           signed == [r EXCEPT !.receipt = _receipt(g, Tree(j), s.nonce, r)]
<1>1. s.at = "seal" /\ RunFits(s, main) /\ s.i \in 1..Len(Stage) /\ g \in StageKinds /\ Update(j, Advance(s, signed))
  BY StageFacts DEF Seal, PassInv, RunFits
<1>2. /\ signed.grader = g /\ signed.issues = {Issue("error", Confidence[f], f) : f \in s.found}
      /\ signed.errored = s.errored /\ signed.receipt = _receipt(g, Tree(j), s.nonce, r)
  BY DEF Report
<1>3. signed.receipt.inputs_digest.content = IF g \in Bound THEN Tree(j) ELSE {}
  BY <1>2 DEF _receipt, bound_input_digest
<1>4. Tree(j) = TreeOf(s, main)
  BY DEF Tree, TreeOf
<1> HIDE DEF signed
<1>5. s.torn = FALSE => Truthful(signed)
  <2>1. ~signed.errored => s.errored = FALSE
    BY <1>1, <1>2 DEF RunFits
  <2> QED
    BY <1>1, <1>2, <1>3, <1>4, <2>1 DEF Truthful, RunFits
<1>6. RunFits(Advance(s, signed), main)
  BY <1>1, <1>2, <1>5, AdvanceFits
<1> QED
  BY <1>1, <1>6

LEMMA RecallStillFits ==
  ASSUME PassInv, NEW j \in Jobs, Recall(j)
  PROVE  \E s : RunFits(s, main) /\ Update(j, s)
<1> DEFINE R == check_regressions(_gating_issues(jobs[j].reports))
           s == jobs[j]
<1>1. RunFits(s, main) /\ s.at = "gate" /\ Update(j, [s EXCEPT !.at = "record", !.tree = Tree(j), !.regressions = R])
  BY DEF Recall, PassInv
<1>2. PICK t : t = [s EXCEPT !.at = "record", !.tree = Tree(j), !.regressions = R]
  OBVIOUS
<1>3. /\ DOMAIN t = JobFields /\ t.at = "record" /\ t.errored = s.errored /\ t.torn = s.torn /\ t.kind = s.kind
      /\ t.reports = s.reports /\ t.result = s.result
  BY <1>1, <1>2 DEF RunFits, JobFields
<1>4. RunFits(t, main)
  BY <1>1, <1>3 DEF RunFits
<1> QED
  BY <1>1, <1>2, <1>4

\* The gate's pass is about the tree that was read before it.
LEMMA PassMeansClean ==
  ASSUME PassInv, NEW j \in Jobs, jobs[j].at = "record", jobs[j].torn = FALSE, StageVerdict(j) = "pass"
  PROVE  CleanTree(jobs[j])
<1> DEFINE s == jobs[j]
           all == s.reports \cup Remembered(s.regressions)
<1>1. SUFFICES ASSUME NEW g \in Required \cap Bound PROVE Finds[g] \cap s.tree = {}
  BY DEF CleanTree
<1>2. gate(all, Required, Pinned(j)) = "pass"
  BY DEF StageVerdict
<1>3. PICK r \in all : /\ r.grader = g /\ ~r.errored /\ Attests(r, Pinned(j)[g])
                       /\ \A i \in r.issues : i.sev # "error"
  BY <1>1, <1>2, GatePasses
<1>4. r.receipt # NoReceipt
  BY <1>3 DEF Attests, verify_signature
<1>5. r \in s.reports
  <2>1. ASSUME r \in Remembered(s.regressions) PROVE FALSE
    <3>1. r = regression_report(s.regressions)
      BY <2>1 DEF Remembered
    <3> QED
      BY <1>4, <3>1 DEF regression_report, Report
  <2> QED
    BY <1>3, <2>1
<1>6. g \in StageKinds /\ Truthful(r)
  BY <1>3, <1>5 DEF PassInv, RunFits
<1>7. Pinned(j)[g].inputs = [content |-> s.tree, nonce |-> s.nonce]
  BY <1>1, <1>6 DEF Pinned, StageKinds, bound_input_digest
<1>8. CASE Pinned(j)[g].inputs = Unbound
  BY <1>7, <1>8 DEF Unbound
<1>9. CASE r.receipt.inputs_digest = Pinned(j)[g].inputs
  <2>1. r.receipt.inputs_digest.content = s.tree
    BY <1>7, <1>9
  <2>3. ASSUME NEW f \in Finds[g] \cap s.tree PROVE FALSE
    <3>1. Issue("error", Confidence[f], f) \in r.issues
      BY <1>1, <1>3, <1>4, <1>6, <2>1, <2>3 DEF Truthful
    <3>2. Issue("error", Confidence[f], f).sev = "error"
      BY DEF Issue
    <3> QED
      BY <1>3, <3>1, <3>2
  <2> QED
    BY <2>3
<1> QED
  BY <1>3, <1>8, <1>9 DEF Attests

LEMMA GatedStillFits ==
  ASSUME PassInv, NEW j \in Jobs, Gated(j)
  PROVE  \E s : RunFits(s, main) /\ Update(j, s)
<1> DEFINE s == jobs[j]
           v == StageVerdict(j)
           all == s.reports \cup Remembered(s.regressions)
<1>1. /\ RunFits(s, main) /\ s.at = "record"
      /\ Update(j, [s EXCEPT !.verdict = v, !.reports = all, !.result = IF v = "pass" THEN "passed" ELSE s.result,
                             !.at = IF v = "pass" THEN "done" ELSE IF s.kind = "heal" THEN "triage" ELSE "decide"])
  BY DEF Gated, PassInv
<1>2. s.torn = FALSE /\ v = "pass" => CleanTree(s)
  BY <1>1, PassMeansClean
<1> HIDE DEF v, all
<1>3. PICK t : t = [s EXCEPT !.verdict = v, !.reports = all, !.result = IF v = "pass" THEN "passed" ELSE s.result,
                             !.at = IF v = "pass" THEN "done" ELSE IF s.kind = "heal" THEN "triage" ELSE "decide"]
  OBVIOUS
<1>4. /\ DOMAIN t = JobFields /\ t.errored = s.errored /\ t.torn = s.torn /\ t.kind = s.kind /\ t.tree = s.tree
      /\ t.at = (IF v = "pass" THEN "done" ELSE IF s.kind = "heal" THEN "triage" ELSE "decide")
      /\ t.result = (IF v = "pass" THEN "passed" ELSE s.result)
  BY <1>1, <1>3 DEF RunFits, JobFields
<1>5. t.at \in {"done", "triage", "decide"} /\ s.result # "passed" /\ s.kind \in {"canary", "heal"}
  BY <1>1, <1>4 DEF RunFits
<1>6. t.result = "passed" => t.at = "done" /\ (t.torn = FALSE => CleanTree(t))
  BY <1>2, <1>4, <1>5 DEF CleanTree
<1>7. RunFits(t, main)
  BY <1>1, <1>4, <1>5, <1>6 DEF RunFits
<1> QED
  BY <1>1, <1>3, <1>7

\* A job that was not passed and is at no grader's work fits as it is.
LEMMA RestFits ==
  ASSUME NEW s, NEW m, RunFits(s, m), s.at # "seal", NEW t, DOMAIN t = JobFields, t.errored = s.errored, t.torn = s.torn,
         t.kind \in {"canary", "heal"}, t.at \in {"triage", "revert", "done"}, t.result # "passed"
  PROVE  RunFits(t, m)
BY DEF RunFits

LEMMA NextRoundFits ==
  ASSUME NEW s, NEW m, RunFits(s, m), s.at = "triage"
  PROVE  RunFits(NextRound(s), m)
<1>0. PICK t : t = NextRound(s)
  OBVIOUS
<1>1. s.kind \in {"canary", "heal"} /\ s.result # "passed" /\ DOMAIN s = JobFields
  BY DEF RunFits
<1>2. CASE s.round = MaxRounds
  <2>1. DOMAIN t = JobFields /\ t.errored = s.errored /\ t.torn = s.torn /\ t.kind = s.kind /\ t.at = "done" /\ t.result = "escalate"
    BY <1>0, <1>1, <1>2 DEF NextRound, JobFields
  <2> QED
    BY <1>0, <1>1, <2>1, RestFits
<1>3. CASE s.round # MaxRounds
  <2>1. /\ DOMAIN t = JobFields /\ t.errored = s.errored /\ t.torn = FALSE /\ t.kind = s.kind /\ t.at = "run"
        /\ t.result = s.result /\ t.i = 1 /\ t.reports = {}
    BY <1>0, <1>1, <1>3 DEF NextRound, JobFields
  <2>2. RunFits(t, m)
    BY <1>1, <2>1, StageFacts DEF RunFits
  <2> QED
    BY <1>0, <2>2
<1> QED
  BY <1>2, <1>3

LEMMA HealStillFits ==
  ASSUME PassInv, NEW j \in Jobs, Heal(j) \/ Propose(j)
  PROVE  \E s : RunFits(s, main) /\ Update(j, s)
<1> DEFINE s == jobs[j]
<1>1. RunFits(s, main) /\ s.at \in {"triage", "decide"} /\ DOMAIN s = JobFields /\ s.kind \in {"canary", "heal"}
      /\ s.result # "passed"
  BY DEF Heal, Propose, PassInv, RunFits
<1>2. ASSUME NEW how \in {"escalate", "no_progress", "denied"}
      PROVE  RunFits([s EXCEPT !.at = "done", !.result = how], main)
  <2>0. PICK t : t = [s EXCEPT !.at = "done", !.result = how]
    OBVIOUS
  <2>1. DOMAIN t = JobFields /\ t.errored = s.errored /\ t.torn = s.torn /\ t.kind = s.kind /\ t.at = "done" /\ t.result # "passed"
    BY <1>1, <2>0 DEF JobFields
  <2> QED
    BY <1>1, <2>0, <2>1, RestFits
<1>3. RunFits([s EXCEPT !.at = "revert", !.head = Len(main)], main)
  <2>0. PICK t : t = [s EXCEPT !.at = "revert", !.head = Len(main)]
    OBVIOUS
  <2>1. /\ DOMAIN t = JobFields /\ t.errored = s.errored /\ t.torn = s.torn /\ t.kind = s.kind /\ t.at = "revert"
        /\ t.result = s.result
    BY <1>1, <2>0 DEF JobFields
  <2> QED
    BY <1>1, <2>0, <2>1, RestFits
<1>4. ASSUME s.at = "triage" PROVE RunFits(NextRound(s), main) /\ \A w : RunFits(NextRound([s EXCEPT !.work = w]), main)
  <2>1. RunFits(NextRound(s), main)
    BY <1>1, <1>4, NextRoundFits
  <2>2. ASSUME NEW w PROVE RunFits(NextRound([s EXCEPT !.work = w]), main)
    <3>0. PICK t : t = [s EXCEPT !.work = w]
      OBVIOUS
    <3>1. /\ DOMAIN t = JobFields /\ t.errored = s.errored /\ t.torn = s.torn /\ t.kind = s.kind /\ t.at = "triage"
          /\ t.result = s.result
      BY <1>1, <1>4, <3>0 DEF JobFields
    <3>2. RunFits(t, main)
      BY <1>1, <3>1, RestFits
    <3> QED
      BY <3>0, <3>1, <3>2, NextRoundFits
  <2> QED
    BY <2>1, <2>2
<1>5. \/ \E how \in {"escalate", "no_progress", "denied"} : Update(j, [s EXCEPT !.at = "done", !.result = how])
      \/ s.at = "triage" /\ (Update(j, NextRound(s)) \/ \E w : Update(j, NextRound([s EXCEPT !.work = w])))
      \/ Update(j, [s EXCEPT !.at = "revert", !.head = Len(main)])
  BY DEF Heal, Propose
<1> QED
  BY <1>2, <1>3, <1>4, <1>5

LEMMA BeginStillFits ==
  ASSUME PassInv, NEW j \in Jobs, Begin(j)
  PROVE  \E s : RunFits(s, main) /\ Update(j, s)
<1>1. ASSUME NEW s, s.at = "run", s.i = 1, s.reports = {}, s.errored = FALSE, s.torn = FALSE, s.result = "none",
             s.kind \in {"canary", "heal"}, DOMAIN s = JobFields
      PROVE  RunFits(s, main)
  BY <1>1, StageFacts DEF RunFits
<1>2. RunFits([NoJob EXCEPT !.kind = "canary", !.at = "run", !.nonce = 1, !.start = Len(main)], main)
  BY <1>1 DEF NoJob, JobFields
<1>3. ASSUME NEW w
      PROVE  RunFits([NoJob EXCEPT !.kind = "heal", !.at = "run", !.nonce = 1, !.round = 1, !.work = w], main)
  BY <1>1 DEF NoJob, JobFields
<1> QED
  BY <1>2, <1>3 DEF Begin

\* main moves, by a merge or a revert.
LEMMA MainMoves ==
  ASSUME PassInv, Merge \/ \E j \in Jobs : Revert(j)
  PROVE  PassInv'
<1>1. CASE Merge
  <2>1. DOMAIN jobs' = Jobs /\ \A j \in Jobs : jobs'[j] = Overtaken(jobs[j])
    BY <1>1 DEF Merge
  <2>2. \A j \in Jobs : RunFits(jobs'[j], main')
    BY <2>1, OvertakenFits DEF PassInv
  <2> QED
    BY <2>1, <2>2 DEF PassInv
<1>2. ASSUME NEW j \in Jobs, Revert(j) PROVE PassInv'
  <2> DEFINE s == jobs[j]
  <2>1. RunFits(s, main) /\ s.at = "revert" /\ DOMAIN s = JobFields /\ s.kind \in {"canary", "heal"}
    BY <1>2 DEF PassInv, Revert, RunFits
  <2>2. ASSUME NEW how \in {"reverted", "revert_failed"}, NEW m
        PROVE  RunFits([s EXCEPT !.at = "done", !.result = how], m)
    <3>0. PICK t : t = [s EXCEPT !.at = "done", !.result = how]
      OBVIOUS
    <3>1. DOMAIN t = JobFields /\ t.errored = s.errored /\ t.torn = s.torn /\ t.kind = s.kind /\ t.at = "done" /\ t.result # "passed"
      BY <2>1, <3>0 DEF JobFields
    <3>2. RunFits(t, m)
      BY <2>1, <3>1 DEF RunFits
    <3> QED
      BY <3>0, <3>2
  <2>3. CASE jobs' = [k \in Jobs |-> IF k = j THEN [s EXCEPT !.at = "done", !.result = "reverted"] ELSE Overtaken(jobs[k])]
    <3>1. /\ DOMAIN jobs' = Jobs
          /\ \A k \in Jobs : jobs'[k] = [s EXCEPT !.at = "done", !.result = "reverted"] \/ jobs'[k] = Overtaken(jobs[k])
      BY <2>3
    <3>2. \A k \in Jobs : RunFits(jobs'[k], main')
      BY <2>2, <3>1, OvertakenFits DEF PassInv
    <3> QED
      BY <3>1, <3>2 DEF PassInv
  <2>4. CASE Update(j, [s EXCEPT !.at = "done", !.result = "revert_failed"]) /\ main' = main
    BY <2>2, <2>4, FitMoves
  <2> QED
    BY <1>2, <2>3, <2>4 DEF Revert
<1> QED
  BY <1>1, <1>2

LEMMA PassStep == PassInv /\ [CIMove]_<<ciVars, ledger>> => PassInv'
<1> SUFFICES ASSUME PassInv, [CIMove]_<<ciVars, ledger>> PROVE PassInv'
  OBVIOUS
<1>1. ASSUME NEW j \in Jobs,
             Begin(j) \/ Run(j) \/ Seal(j) \/ Recall(j) \/ Gated(j) \/ Heal(j) \/ Propose(j)
      PROVE  PassInv'
  <2>1. main' = main
    BY <1>1, ZenonT(60) DEF Begin, Run, Seal, Recall, Gated, Heal, Propose
  <2>2. PICK s : RunFits(s, main) /\ Update(j, s)
    BY <1>1, BeginStillFits, RunStillFits, SealStillFits, RecallStillFits, GatedStillFits, HealStillFits
  <2> QED
    BY <2>1, <2>2, FitMoves
<1>2. CASE Merge \/ \E j \in Jobs : Revert(j)
  BY <1>2, MainMoves
<1>3. CASE UNCHANGED ciVars
  BY <1>3 DEF ciVars, PassInv
<1> QED
  BY <1>1, <1>2, <1>3 DEF CIMove, CINext

\* run_stage (pipeline.py:51-74) with bound receipts: whoever merges or reverts when,
\* a stage passes only a tree in which no required grader that names its files finds
\* anything, for any stages, jobs, healing rounds and weather.
THEOREM PassesAreClean == CIInit /\ [][CIMove]_<<ciVars, ledger>> => []PassIsClean
<1>1. CIInit => PassInv
  <2> SUFFICES ASSUME CIInit PROVE PassInv
    OBVIOUS
  <2>1. RunFits(NoJob, main)
    BY DEF NoJob, RunFits, JobFields
  <2> QED
    BY <2>1 DEF CIInit, PassInv
<1>2. PassInv => PassIsClean
  <2> SUFFICES ASSUME PassInv, NEW j \in Jobs, jobs[j].result = "passed", ~jobs[j].torn PROVE CleanTree(jobs[j])
    BY DEF PassIsClean, CleanTree
  <2>1. RunFits(jobs[j], main)
    BY DEF PassInv
  <2>2. jobs[j].torn = FALSE
    BY <2>1 DEF RunFits
  <2> QED
    BY <2>1, <2>2 DEF RunFits
<1> QED
  BY <1>1, <1>2, PassStep, PTL

-----------------------------------------------------------------------------
(* Graders.  The reports of a stage are those of the tools that were run,   *)
(* each with the suite it ran in its receipt; the gate pins one suite for   *)
(* each kind it requires, and asks for a report of the kind that is no error. *)

BenchFields == {"at", "stage", "left", "runs", "reports", "verdict"}

BenchInv ==
  /\ DOMAIN bench = BenchFields
  /\ bench.at = "new" => DOMAIN bench.runs = {} /\ bench.reports = {}
  /\ bench.at = "run" =>
       /\ bench.left \subseteq bench.stage.tools
       /\ DOMAIN bench.runs = bench.stage.tools \ bench.left
       /\ bench.reports = {run_grader(t, bench.runs[t]) : t \in DOMAIN bench.runs}
  /\ GreenStageRan

\* What the gate reads of a tool's report.
LEMMA GraderReports ==
  ASSUME NEW tool, NEW r
  PROVE  /\ run_grader(tool, r).grader = Kind(tool)
         /\ r.how # "ran" => run_grader(tool, r).receipt = NoReceipt
         /\ r.how = "ran" =>
              /\ run_grader(tool, r).receipt.suite_sha = tool
              /\ run_grader(tool, r).errored = Errored(r.rc, parse(tool, r.out))
<1> DEFINE is == parse(tool, r.out)
           rep == Report(Kind(tool), Errored(r.rc, is), is)
           receipt == _receipt_of(tool, rep)
<1>1. CASE r.how # "ran"
  BY <1>1 DEF run_grader, Report
<1>2. CASE r.how = "ran"
  <2>1. run_grader(tool, r) = [rep EXCEPT !.receipt = receipt]
    BY <1>2 DEF run_grader
  <2>2. receipt.suite_sha = tool
    BY DEF _receipt_of, suite_sha
  <2>3. rep = [grader |-> Kind(tool), errored |-> Errored(r.rc, is), issues |-> is, receipt |-> NoReceipt]
    BY DEF Report
  <2> HIDE DEF receipt, is
  <2>4. /\ run_grader(tool, r).grader = Kind(tool) /\ run_grader(tool, r).receipt = receipt
        /\ run_grader(tool, r).errored = Errored(r.rc, is)
    BY <2>1, <2>3
  <2> QED
    BY <1>2, <2>2, <2>4 DEF is
<1> QED
  BY <1>1, <1>2

\* A gate that does not fail had every kind it asks for, and every report of such
\* a kind attests to the suite that was pinned.
LEMMA GatePinsSuites ==
  ASSUME NEW reports, NEW required, NEW ask, gate(reports, required, ask) # "fail"
  PROVE  /\ \A k \in required : \E r \in reports : ~r.errored /\ r.grader = k
         /\ \A r \in reports : r.grader \in required =>
              r.receipt # NoReceipt /\ r.receipt.suite_sha = ask[r.grader].suite
  BY DEF gate, Absent, Hollow, Attests, verify_signature

LEMMA BenchStep == BenchInv /\ [BenchNext]_benchVars => BenchInv'
<1> SUFFICES ASSUME BenchInv, [BenchNext]_benchVars PROVE BenchInv'
  OBVIOUS
<1>1. CASE PickStage
  <2>1. PICK s : bench' = [bench EXCEPT !.at = "run", !.stage = s, !.left = s.tools]
    BY <1>1 DEF PickStage
  <2>2. bench.at = "new"
    BY <1>1 DEF PickStage
  <2> QED
    BY <2>1, <2>2 DEF BenchInv, BenchFields, GreenStageRan
<1>2. CASE GradeNextTool
  <2> DEFINE t == CHOOSE t \in bench.left : TRUE
  <2>1. PICK r \in Runs :
          bench' = [bench EXCEPT !.left = bench.left \ {t}, !.reports = bench.reports \cup {run_grader(t, r)},
                                 !.runs = [x \in DOMAIN bench.runs \cup {t} |-> IF x = t THEN r ELSE bench.runs[x]]]
    BY <1>2, ZenonT(60) DEF GradeNextTool
  <2>2. bench.at = "run" /\ t \in bench.left
    BY <1>2 DEF GradeNextTool
  <2> HIDE DEF t
  <2> DEFINE runs == [x \in DOMAIN bench.runs \cup {t} |-> IF x = t THEN r ELSE bench.runs[x]]
  <2>3. DOMAIN runs = DOMAIN bench.runs \cup {t} /\ runs[t] = r /\ \A x \in DOMAIN bench.runs : x # t => runs[x] = bench.runs[x]
    OBVIOUS
  <2>4. /\ DOMAIN bench' = BenchFields /\ bench'.at = "run" /\ bench'.stage = bench.stage
        /\ bench'.left = bench.left \ {t} /\ bench'.runs = runs
        /\ bench'.reports = bench.reports \cup {run_grader(t, r)}
    <3> HIDE DEF runs
    <3>1. bench' = [bench EXCEPT !.left = bench.left \ {t}, !.reports = bench.reports \cup {run_grader(t, r)}, !.runs = runs]
      BY <2>1 DEF runs
    <3> QED
      BY <2>2, <3>1 DEF BenchInv, BenchFields
  <2> HIDE DEF runs
  <2>5. t \notin DOMAIN bench.runs
    BY <2>2 DEF BenchInv
  <2>6. bench'.reports = {run_grader(x, runs[x]) : x \in DOMAIN runs}
    BY <2>2, <2>3, <2>4, <2>5 DEF BenchInv
  <2> QED
    BY <2>2, <2>3, <2>4, <2>6, SMTT(60) DEF BenchInv, GreenStageRan
<1>3. CASE GateStage
  <2> DEFINE ask == [k \in bench.stage.required |-> Pinned_(k)]
             v == gate(bench.reports, bench.stage.required, ask)
  <2>1. bench.at = "run" /\ bench.left = {} /\ bench' = [bench EXCEPT !.at = "done", !.verdict = v]
    BY <1>3 DEF GateStage
  <2>2. /\ DOMAIN bench' = BenchFields /\ bench'.at = "done" /\ bench'.verdict = v
        /\ bench'.stage = bench.stage /\ bench'.runs = bench.runs
    <3> HIDE DEF v
    <3> QED
      BY <2>1 DEF BenchInv, BenchFields
  <2>3. ASSUME v # "fail", NEW t \in bench.stage.tools, Kind(t) \in bench.stage.required
        PROVE  bench.runs[t].how = "ran" /\ (bench.runs[t].rc = 0 \/ parse(t, bench.runs[t].out) # {})
    <3> DEFINE r(x) == run_grader(x, bench.runs[x])
               k == Kind(t)
    <3>1. DOMAIN bench.runs = bench.stage.tools /\ bench.reports = {r(x) : x \in bench.stage.tools}
      BY <2>1 DEF BenchInv
    <3>2. ask[k].suite = ToolFor(k)
      BY <2>3 DEF Pinned_, suite_sha
    <3> HIDE DEF r, ask
    <3>3. PICK y \in bench.stage.tools : ~r(y).errored /\ r(y).grader = k
      BY <2>3, <3>1, GatePinsSuites
    <3>4. ASSUME NEW x \in bench.stage.tools, r(x).grader = k
          PROVE  bench.runs[x].how = "ran" /\ x = ToolFor(k)
      <4>1. r(x).receipt # NoReceipt /\ r(x).receipt.suite_sha = ask[k].suite
        BY <2>3, <3>1, <3>4, GatePinsSuites
      <4> QED
        BY <3>2, <4>1, GraderReports DEF r
    <3>5. r(t).grader = k
      BY GraderReports DEF r
    <3>6. bench.runs[t].how = "ran" /\ y = t
      BY <3>3, <3>4, <3>5
    <3> QED
      BY <3>3, <3>6, GraderReports DEF r, Errored
  <2> QED
    BY <2>2, <2>3 DEF BenchInv, GreenStageRan
<1>4. CASE UNCHANGED benchVars
  BY <1>4 DEF benchVars, BenchInv, GreenStageRan
<1> QED
  BY <1>1, <1>2, <1>3, <1>4 DEF BenchNext

\* "No silent green": in any stage, whatever the tools print and return, a verdict
\* that is not a failure means that every tool of a required kind ran to its end
\* and exited with zero or was understood (ci/graders.py run_grader, ci/pipeline.py
\* run_stage, verdict/gate.py), also where two tools are of one kind.
THEOREM GreenMeansRan == BenchInit /\ [][BenchNext]_benchVars => []GreenStageRan
<1>1. BenchInit => BenchInv
  BY DEF BenchInit, NoBench, Stage_, BenchInv, BenchFields, GreenStageRan
<1>2. BenchInv => GreenStageRan
  BY DEF BenchInv
<1> QED
  BY <1>1, <1>2, BenchStep, PTL

-----------------------------------------------------------------------------
(* Graders, specs.  A vote counts passes and failures of checks that were  *)
(* run, which nothing is where it cannot be confined; a criterion without  *)
(* a conclusive vote leaves a warning, so that the verdict is no pass.     *)

SpecFields == {"at", "source", "jail", "met", "todo", "extracted", "votes", "wrong", "verdict"}

\* A vote is finite, and no check passes out of the jail.
Ballot(outs, jail) ==
  /\ IsFiniteSet(DOMAIN outs)
  /\ \A k \in DOMAIN outs : outs[k] = "pass" => Confined(jail)

SpecInv ==
  /\ DOMAIN spec = SpecFields
  /\ spec.at = "vote" =>
       \A c \in spec.extracted \ spec.todo : c \in DOMAIN spec.votes /\ Ballot(spec.votes[c], spec.jail)
  /\ PassIsGrounded

\* What is at least a warning of its own keeps a report from passing, whoever
\* the grader and however unsure the finding.
LEMMA WarningsShow ==
  ASSUME NEW g, NEW issues, NEW i \in issues, i.sev \in {"warning", "error"}
  PROVE  plain_gate({Report(g, FALSE, issues)}) # "pass"
<1> DEFINE r == Report(g, FALSE, issues)
<1>1. r.issues = issues
  BY DEF Report
<1> HIDE DEF r
<1>2. Effective(r, i) \in {"warning", "error"}
  BY Ranks DEF Effective, clamp_ceiling
<1>3. Effective(r, i) \in Severities({r})
  BY <1>1 DEF Severities
<1>4. Verdict_(Severities({r})) # "pass"
  BY <1>2, <1>3, Ranks DEF Verdict_, AtLeast
<1> QED
  BY <1>4 DEF plain_gate, gate, r

LEMMA CountIsNat == ASSUME NEW outs, NEW what, IsFiniteSet(DOMAIN outs) PROVE Count(outs, what) \in Nat
<1>1. IsFiniteSet({k \in DOMAIN outs : outs[k] = what})
  BY FS_Subset
<1> QED
  BY <1>1, FS_CardinalityType DEF Count

\* A criterion is satisfied only by a check that passed.
LEMMA SatisfiedHasPass ==
  ASSUME NEW outs, NEW jail, Ballot(outs, jail), tally(outs) = "satisfied"
  PROVE  Count(outs, "pass") > 0 /\ Confined(jail)
<1>1. Count(outs, "pass") \in Nat /\ Count(outs, "fail") \in Nat
  BY CountIsNat DEF Ballot
<1>2. Count(outs, "pass") > 0
  BY <1>1 DEF tally
<1>3. \E k \in DOMAIN outs : outs[k] = "pass"
  <2> SUFFICES ASSUME {k \in DOMAIN outs : outs[k] = "pass"} = {} PROVE FALSE
    OBVIOUS
  <2> QED
    BY <1>2, FS_EmptySet DEF Count
<1> QED
  BY <1>2, <1>3 DEF Ballot

LEMMA OutcomesAreBallots ==
  ASSUME NEW replies \in [1..ChecksEach -> CheckKinds], NEW met, NEW jail
  PROVE  Ballot(Outcomes(replies, met, jail), jail)
<1> DEFINE outs == Outcomes(replies, met, jail)
<1>1. DOMAIN outs \subseteq 1..ChecksEach /\ \A k \in DOMAIN outs : outs[k] = run_check(replies[k], met, jail)
  BY DEF Outcomes, generate_checks
<1>2. IsFiniteSet(DOMAIN outs)
  BY <1>1, FS_Interval, FS_Subset, SpecAssumption
<1> QED
  BY <1>1, <1>2 DEF Ballot, run_check

LEMMA SpecStep == SpecInv /\ [SpecNext]_specVars => SpecInv'
<1> SUFFICES ASSUME SpecInv, [SpecNext]_specVars PROVE SpecInv'
  OBVIOUS
<1>1. CASE Extract
  <2>1. PICK src, j, m, e, plain :
          spec' = [NoSpec EXCEPT !.at = "vote", !.source = src, !.jail = j, !.met = m, !.extracted = e,
                     !.todo = e \ plain, !.votes = [c \in plain |-> <<>>], !.wrong = [c \in plain |-> 0]]
    BY <1>1, ZenonT(60) DEF Extract
  <2> DEFINE empty == [c \in plain |-> <<>>]
             none == [c \in plain |-> 0]
  <2>2. DOMAIN empty = plain /\ \A c \in plain : empty[c] = <<>>
    OBVIOUS
  <2>3. Ballot(<<>>, j)
    BY FS_EmptySet DEF Ballot
  <2> HIDE DEF empty, none
  <2>4. spec' = [NoSpec EXCEPT !.at = "vote", !.source = src, !.jail = j, !.met = m, !.extracted = e,
                   !.todo = e \ plain, !.votes = empty, !.wrong = none]
    BY <2>1 DEF empty, none
  <2>5. /\ DOMAIN spec' = SpecFields /\ spec'.at = "vote" /\ spec'.jail = j /\ spec'.extracted = e
        /\ spec'.todo = e \ plain /\ spec'.votes = empty
    BY <2>4 DEF NoSpec, SpecFields
  <2> QED
    BY <2>2, <2>3, <2>5 DEF SpecInv, PassIsGrounded
<1>2. CASE Vote
  <2> DEFINE c == CHOOSE c \in spec.todo : TRUE
  <2>1. PICK replies \in [1..ChecksEach -> CheckKinds] :
          spec' = [spec EXCEPT !.todo = spec.todo \ {c},
                     !.votes = Voted(spec.votes, c, Outcomes(replies, c \in spec.met, spec.jail)),
                     !.wrong = Voted(spec.wrong, c, Count(replies, "wrong"))]
    BY <1>2, ZenonT(60) DEF Vote
  <2>2. spec.at = "vote" /\ c \in spec.todo
    BY <1>2 DEF Vote
  <2> HIDE DEF c
  <2> DEFINE outs == Outcomes(replies, c \in spec.met, spec.jail)
  <2>3. Ballot(outs, spec.jail)
    BY OutcomesAreBallots
  <2> HIDE DEF outs
  <2>4. /\ DOMAIN spec' = SpecFields /\ spec'.at = "vote" /\ spec'.jail = spec.jail
        /\ spec'.extracted = spec.extracted /\ spec'.todo = spec.todo \ {c}
        /\ spec'.votes = Voted(spec.votes, c, outs)
    BY <2>1, <2>2 DEF SpecInv, SpecFields, outs
  <2>5. ASSUME NEW x \in spec'.extracted \ spec'.todo
        PROVE  x \in DOMAIN spec'.votes /\ Ballot(spec'.votes[x], spec'.jail)
    BY <2>2, <2>3, <2>4, <2>5 DEF SpecInv, Voted
  <2> QED
    BY <2>4, <2>5 DEF SpecInv, PassIsGrounded
<1>3. CASE Grade
  <2> DEFINE all == Findings(spec) \cup Suppressed(spec)
             v == plain_gate({Report("contract", FALSE, all)})
  <2>1. spec.at = "vote" /\ spec.todo = {} /\ spec' = [spec EXCEPT !.at = "done", !.verdict = v]
    BY <1>3 DEF Grade
  <2>2. ASSUME v = "pass", NEW c \in spec.extracted
        PROVE  Count(spec.votes[c], "pass") > 0 /\ Confined(spec.jail)
    <3>1. Ballot(spec.votes[c], spec.jail)
      BY <2>1 DEF SpecInv
    <3>2. tally(spec.votes[c]) # "violated"
      <4> SUFFICES ASSUME tally(spec.votes[c]) = "violated" PROVE FALSE
        OBVIOUS
      <4>1. Issue("error", "high", c) \in all
        BY DEF Findings
      <4> QED
        BY <2>2, <4>1, WarningsShow DEF Issue
    <3>3. tally(spec.votes[c]) # "unverified"
      <4> SUFFICES ASSUME tally(spec.votes[c]) = "unverified" PROVE FALSE
        OBVIOUS
      <4>1. _advisory(c) \in all
        BY DEF Findings
      <4> QED
        BY <2>2, <4>1, WarningsShow DEF _advisory, Issue
    <3>4. tally(spec.votes[c]) = "satisfied"
      BY <3>2, <3>3 DEF tally
    <3> QED
      BY <3>1, <3>4, SatisfiedHasPass
  <2>3. v = "pass" /\ spec.source = "ticket" => spec.extracted # {}
    <3> SUFFICES ASSUME v = "pass", spec.source = "ticket", spec.extracted = {} PROVE FALSE
      OBVIOUS
    <3>1. _advisory("criteria") \in all
      BY DEF Suppressed
    <3> QED
      BY <3>1, WarningsShow DEF _advisory, Issue
  <2> HIDE DEF v
  <2>4. /\ DOMAIN spec' = SpecFields /\ spec'.at = "done" /\ spec'.verdict = v /\ spec'.jail = spec.jail
        /\ spec'.extracted = spec.extracted /\ spec'.votes = spec.votes /\ spec'.source = spec.source
    BY <2>1 DEF SpecInv, SpecFields
  <2> QED
    BY <2>2, <2>3, <2>4 DEF SpecInv, PassIsGrounded
<1>4. CASE UNCHANGED specVars
  BY <1>4 DEF specVars, SpecInv, PassIsGrounded
<1> QED
  BY <1>1, <1>2, <1>3, <1>4 DEF SpecNext

\* Whatever the ticket asks, the model writes and the jail can do: a pass rests on
\* a check of every criterion that ran confined and passed, and a ticket did say
\* something (ci/spec.py tally, run_check, the advisory issues).
THEOREM PassesAreGrounded == SpecInit /\ [][SpecNext]_specVars => []PassIsGrounded
<1>1. SpecInit => SpecInv
  BY DEF SpecInit, NoSpec, SpecInv, SpecFields, PassIsGrounded
<1>2. SpecInv => PassIsGrounded
  BY DEF SpecInv
<1> QED
  BY <1>1, <1>2, SpecStep, PTL

-----------------------------------------------------------------------------
(* Attestation.  On its way a receipt keeps its signature, loses it or gets *)
(* one of a key nobody trusts, whatever becomes of its lines.  So a signature of *)
(* a trusted key is over what was minted under it, and the fingerprint in it *)
(* names every line that was minted and what ran for it.                     *)

GateFields == {"alg", "who", "public_key", "signature", "verdict", "graders", "fingerprint", "clamped", "subject", "kind"}
RunFields == {"alg", "who", "public_key", "signature", "ran", "result"}
LineFields == {"kind", "verdict", "precise", "receipt"}

SigningKey(k, alg) == IF alg = "ed25519" THEN k ELSE Secret(k)

\* A run receipt that nobody touched.
RunMinted(rr) == DOMAIN rr = RunFields /\ rr.signature = Signature(rr.signature.key, RunPayload(rr))

\* What Mint makes.
MintedWell(m) ==
  LET g == m.receipt IN
  /\ m.by \in Signers /\ DOMAIN g = GateFields
  /\ g.signature = Signature(SigningKey(m.by, g.alg), GatePayload(g))
  /\ g.fingerprint = _fingerprint(g.verdict, g.graders)
  /\ \A a \in g.graders :
       /\ DOMAIN a = LineFields
       /\ a.receipt = NoReceipt \/ RunMinted(a.receipt)

\* No key of the verifier's.
Foreign(key) == key # "shared" /\ resolve_trusted_key(key) = Absent_
Genuine(signature) ==
  \/ signature = Unsigned
  \/ Foreign(signature.key)
  \/ \E m \in wire.minted : m.receipt.signature = signature

\* A line has its fields, and its receipt, if any, has those of a receipt.
LineShaped(a) == DOMAIN a = LineFields /\ (a.receipt = NoReceipt \/ DOMAIN a.receipt = RunFields)

Carried(g) ==
  /\ DOMAIN g = GateFields /\ Genuine(g.signature)
  /\ \A a \in g.graders : LineShaped(a)

AttestInv ==
  /\ DOMAIN wire = {"at", "dir", "minted", "on", "changed"}
  /\ \A m \in wire.minted : MintedWell(m)
  /\ wire.at = "sent" => Carried(wire.on)

\* Signing changes four fields, and the signature is over the others and two of these.
LEMMA SignFields ==
  ASSUME NEW r, {"alg", "who", "public_key", "signature"} \subseteq DOMAIN r, NEW k, NEW alg
  PROVE  LET q == sign_receipt(r, k, alg) IN
         /\ DOMAIN q = DOMAIN r
         /\ q.alg = alg
         /\ \A f \in DOMAIN r \ {"alg", "who", "public_key", "signature"} : q[f] = r[f]
         /\ \E s : /\ DOMAIN s = DOMAIN r /\ s.alg = q.alg /\ s.who = q.who
                   /\ \A f \in DOMAIN r \ {"alg", "who", "public_key", "signature"} : s[f] = r[f]
                   /\ q.signature = Signature(SigningKey(k, alg), signing_payload(s))
<1> DEFINE who == IF alg = "ed25519" THEN k ELSE "runner"
           pk == IF alg = "ed25519" THEN k ELSE Absent_
           s == [r EXCEPT !.alg = alg, !.who = who, !.public_key = pk]
           sig == Signature(SigningKey(k, alg), signing_payload(s))
           q == [s EXCEPT !.signature = sig]
<1>1. sign_receipt(r, k, alg) = q
  BY DEF sign_receipt, Stamped, SigningKey
<1> HIDE DEF who, pk
<1>2. /\ DOMAIN s = DOMAIN r /\ s.alg = alg /\ s.who = who
      /\ \A f \in DOMAIN r \ {"alg", "who", "public_key", "signature"} : s[f] = r[f]
  OBVIOUS
<1> HIDE DEF sig, s
<1>3. /\ DOMAIN q = DOMAIN r /\ q.alg = alg /\ q.who = who /\ q.signature = sig
      /\ \A f \in DOMAIN r \ {"alg", "who", "public_key", "signature"} : q[f] = r[f]
  BY <1>2
<1> HIDE DEF q
<1> QED
  BY <1>1, <1>2, <1>3 DEF sig

LEMMA SignGate ==
  ASSUME NEW g, DOMAIN g = GateFields, NEW k, NEW alg
  PROVE  LET q == sign_receipt(g, k, alg) IN
         /\ DOMAIN q = GateFields /\ q.alg = alg
         /\ q.signature = Signature(SigningKey(k, alg), GatePayload(q))
         /\ q.verdict = g.verdict /\ q.graders = g.graders /\ q.fingerprint = g.fingerprint
         /\ q.clamped = g.clamped /\ q.subject = g.subject /\ q.kind = g.kind
<1> DEFINE q == sign_receipt(g, k, alg)
           rest == {"verdict", "graders", "fingerprint", "clamped", "subject", "kind"}
<1>1. DOMAIN g \ {"alg", "who", "public_key", "signature"} = rest
  BY DEF GateFields
<1>2. DOMAIN q = GateFields /\ q.alg = alg /\ \A f \in rest : q[f] = g[f]
  BY <1>1, SignFields DEF GateFields
<1>3. PICK s : /\ DOMAIN s = GateFields /\ s.alg = q.alg /\ s.who = q.who /\ \A f \in rest : s[f] = g[f]
               /\ q.signature = Signature(SigningKey(k, alg), signing_payload(s))
  BY <1>1, SignFields DEF GateFields
<1> HIDE DEF q
<1>4. signing_payload(s) = GatePayload(q)
  BY <1>2, <1>3 DEF signing_payload, GatePayload, GateFields
<1> QED
  BY <1>2, <1>3, <1>4 DEF q

LEMMA SignRun ==
  ASSUME NEW r, DOMAIN r = RunFields, NEW k, NEW alg
  PROVE  RunMinted(sign_receipt(r, k, alg))
<1> DEFINE q == sign_receipt(r, k, alg)
           rest == {"ran", "result"}
<1>1. DOMAIN r \ {"alg", "who", "public_key", "signature"} = rest
  BY DEF RunFields
<1>2. DOMAIN q = RunFields /\ \A f \in rest : q[f] = r[f]
  BY <1>1, SignFields DEF RunFields
<1>3. PICK s : /\ DOMAIN s = RunFields /\ s.alg = q.alg /\ s.who = q.who /\ \A f \in rest : s[f] = r[f]
               /\ q.signature = Signature(SigningKey(k, alg), signing_payload(s))
  BY <1>1, SignFields DEF RunFields
<1> HIDE DEF q
<1>4. signing_payload(s) = RunPayload(q)
  BY <1>2, <1>3 DEF signing_payload, RunPayload, RunFields
<1>5. q.signature = Signature(SigningKey(k, alg), RunPayload(q))
  BY <1>3, <1>4
<1>6. q.signature.key = SigningKey(k, alg)
  BY <1>5 DEF Signature
<1>7. RunMinted(q)
  BY <1>2, <1>5, <1>6 DEF RunMinted
<1> QED
  BY <1>7 DEF q

LEMMA MintIsWell ==
  ASSUME NEW v, NEW reports, NEW claim, NEW k \in Signers, NEW attest
  PROVE  MintedWell([by |-> k, receipt |-> build_gate_receipt(v, reports, claim, k, attest)])
<1> DEFINE graders == {Line(p, k, attest) : p \in reports}
           clamped == \E p \in reports : _was_clamped(p)
           g == [alg |-> "", who |-> "", public_key |-> Absent_, signature |-> Unsigned,
                 verdict |-> v, graders |-> graders, fingerprint |-> _fingerprint(v, graders),
                 clamped |-> clamped, subject |-> claim, kind |-> "committed"]
           q == sign_receipt(g, k, Resolved(k, attest))
<1>1. build_gate_receipt(v, reports, claim, k, attest) = q
  BY DEF build_gate_receipt
<1>2. ASSUME NEW a \in graders
      PROVE  DOMAIN a = LineFields /\ (a.receipt = NoReceipt \/ RunMinted(a.receipt))
  <2>1. PICK p \in reports : a = Line(p, k, attest)
    BY <1>2
  <2>2. RunMinted(mint_report_receipt(p, k, attest))
    <3> DEFINE r == [alg |-> "", who |-> "", public_key |-> Absent_, signature |-> Unsigned,
                     ran |-> p.grader, result |-> [verdict |-> p.verdict, graded |-> report_result_digest(p)]]
    <3>1. DOMAIN r = RunFields
      BY DEF RunFields
    <3> QED
      BY <3>1, SignRun DEF mint_report_receipt
  <2> QED
    BY <2>1, <2>2 DEF Line, LineFields
<1> HIDE DEF graders, clamped
<1>3. DOMAIN g = GateFields /\ g.graders = graders /\ g.verdict = v /\ g.fingerprint = _fingerprint(v, graders)
  BY DEF GateFields
<1> HIDE DEF g
<1>4. /\ DOMAIN q = GateFields /\ q.alg = Resolved(k, attest)
      /\ q.signature = Signature(SigningKey(k, q.alg), GatePayload(q))
      /\ q.graders = graders /\ q.verdict = v /\ q.fingerprint = _fingerprint(v, graders)
  BY <1>3, SignGate
<1> HIDE DEF q
<1> QED
  BY <1>1, <1>2, <1>4 DEF MintedWell

\* A receipt with some field changed, and lines of the same shape, is as genuine.
RowsKept(g, h) ==
  DOMAIN h = GateFields /\ h.signature \in {g.signature, Unsigned} /\ \A a \in h.graders : LineShaped(a)

LEMMA ChangedField == ASSUME NEW g, Carried(g), NEW h, RowsKept(g, h) PROVE Carried(h)
  BY DEF Carried, Genuine, RowsKept

LEMMA RecomputedKept == ASSUME NEW g, NEW x, RowsKept(g, x) PROVE RowsKept(g, Recomputed(x))
<1> DEFINE fp == _fingerprint(x.verdict, x.graders)
<1>1. Recomputed(x) = [x EXCEPT !.fingerprint = fp]
  BY DEF Recomputed
<1> HIDE DEF fp
<1>2. DOMAIN [x EXCEPT !.fingerprint = fp] = GateFields
  BY DEF RowsKept, GateFields
<1>3. [x EXCEPT !.fingerprint = fp].signature = x.signature /\ [x EXCEPT !.fingerprint = fp].graders = x.graders
  BY DEF RowsKept, GateFields
<1> QED
  BY <1>1, <1>2, <1>3 DEF RowsKept

LEMMA FieldKept ==
  ASSUME NEW g, RowsKept(g, g), NEW x
  PROVE  /\ RowsKept(g, [g EXCEPT !.verdict = x]) /\ RowsKept(g, [g EXCEPT !.subject = x])
         /\ RowsKept(g, [g EXCEPT !.clamped = x]) /\ RowsKept(g, [g EXCEPT !.kind = x])
         /\ RowsKept(g, [g EXCEPT !.alg = x]) /\ RowsKept(g, [g EXCEPT !.who = x])
         /\ RowsKept(g, [g EXCEPT !.public_key = x]) /\ RowsKept(g, [g EXCEPT !.signature = Unsigned])
  BY DEF RowsKept, GateFields

LEMMA GradersKept ==
  ASSUME NEW g, RowsKept(g, g), NEW s, \A a \in s : LineShaped(a)
  PROVE  RowsKept(g, [g EXCEPT !.graders = s])
  BY DEF RowsKept, GateFields

LEMMA SpellingIsShaped ==
  ASSUME NEW b, LineShaped(b), NEW c PROVE LineShaped(Spelling(b, c))
<1> DEFINE rr == IF b.receipt = NoReceipt THEN EmptyReceipt ELSE b.receipt
           q == [rr EXCEPT !.signature.then = @ \cup ReadsAs(c)]
<1>1. DOMAIN rr = RunFields
  BY DEF LineShaped, EmptyReceipt, RunFields
<1>2. Spelling(b, c) = [b EXCEPT !.receipt = q]
  BY DEF Spelling
<1> HIDE DEF rr
<1>3. DOMAIN q = RunFields
  BY <1>1
<1> HIDE DEF q
<1> QED
  BY <1>2, <1>3 DEF LineShaped, LineFields

LEMMA ResignedIsForeign ==
  ASSUME NEW g, DOMAIN g = GateFields, NEW h \in Resigned(g)
  PROVE  DOMAIN h = GateFields /\ h.graders = g.graders /\ Foreign(h.signature.key)
<1>1. PICK k \in Untrusted, who \in Signers : h \in {SignedAs(g, k, a, who, p) : a \in Schemes, p \in {k, who}}
  BY DEF Resigned
<1>2. PICK alg \in Schemes, pk \in {k, who} : h = SignedAs(g, k, alg, who, pk)
  BY <1>1
<1> DEFINE s == [g EXCEPT !.alg = alg, !.who = who, !.public_key = pk]
           sig == Signature(k, signing_payload(s))
<1>3. h = [s EXCEPT !.signature = sig]
  BY <1>2 DEF SignedAs
<1>4. DOMAIN s = GateFields /\ s.graders = g.graders
  BY DEF GateFields
<1>5. sig.key = k
  BY DEF Signature
<1> HIDE DEF s, sig
<1>6. DOMAIN h = GateFields /\ h.graders = s.graders /\ h.signature = sig
  BY <1>3, <1>4 DEF GateFields
<1>7. Foreign(k)
  BY <1>1, AttestationAssumption DEF Foreign, resolve_trusted_key, Untrusted
<1> QED
  BY <1>4, <1>5, <1>6, <1>7

LEMMA AlteredIsCarried ==
  ASSUME AttestInv, NEW g, Carried(g), NEW h \in Altered(g)
  PROVE  Carried(h)
<1>0. RowsKept(g, g)
  BY DEF RowsKept, Carried
<1>a. ASSUME NEW rr \in RunReceipts PROVE rr = NoReceipt \/ DOMAIN rr = RunFields
  BY <1>a DEF RunReceipts, AttestInv, MintedWell, RunMinted
<1>b. \A a \in g.graders : LineShaped(a)
  BY DEF Carried
<1>2. CASE h \in FieldChanged(g)
  <2>1. \A x : /\ RowsKept(g, [g EXCEPT !.verdict = x]) /\ RowsKept(g, [g EXCEPT !.subject = x])
               /\ RowsKept(g, [g EXCEPT !.clamped = x]) /\ RowsKept(g, [g EXCEPT !.kind = x])
               /\ RowsKept(g, [g EXCEPT !.alg = x]) /\ RowsKept(g, [g EXCEPT !.who = x])
               /\ RowsKept(g, [g EXCEPT !.public_key = x]) /\ RowsKept(g, [g EXCEPT !.signature = Unsigned])
    BY <1>0, FieldKept
  <2>2. \A v : RowsKept(g, Recomputed([g EXCEPT !.verdict = v]))
    BY <2>1, RecomputedKept, Zenon
  <2>3. RowsKept(g, h)
    BY <1>2, <2>1, <2>2, Zenon DEF FieldChanged
  <2> QED
    BY <2>3, ChangedField
<1>3. CASE h \in LinesChanged(g)
  <2> DEFINE With(s) == Recomputed([g EXCEPT !.graders = s])
             ReceiptOf(b, r) == [b EXCEPT !.receipt = r]
             Opinion(b) == [b EXCEPT !.verdict = "pass", !.precise = FALSE]
  <2>1. ASSUME NEW s, \A a \in s : LineShaped(a) PROVE Carried(With(s))
    <3>1. RowsKept(g, With(s))
      BY <1>0, <2>1, GradersKept, RecomputedKept
    <3> QED
      BY <3>1, ChangedField
  <2> HIDE DEF With
  <2>2. ASSUME NEW s \in SUBSET g.graders, NEW b, NEW c, LineShaped(c) PROVE Carried(With(Swapped(s, b, c)))
    <3>1. \A a \in Swapped(s, b, c) : LineShaped(a)
      BY <1>b, <2>2 DEF Swapped
    <3> QED
      BY <2>1, <3>1
  <2>3. \A s \in SUBSET g.graders : Carried(With(s))
    BY <1>b, <2>1
  <2>4. ASSUME NEW b \in g.graders, NEW r \in RunReceipts PROVE Carried(With(Swapped(g.graders, b, ReceiptOf(b, r))))
    <3>1. LineShaped(ReceiptOf(b, r))
      BY <1>a, <1>b DEF LineShaped, LineFields
    <3> HIDE DEF ReceiptOf
    <3> QED
      BY <2>2, <3>1
  <2>5. ASSUME NEW b \in g.graders PROVE Carried(With(Swapped(g.graders, b, Opinion(b))))
    <3>1. LineShaped(Opinion(b))
      BY <1>b DEF LineShaped, LineFields
    <3> HIDE DEF Opinion
    <3> QED
      BY <2>2, <3>1
  <2>6. ASSUME NEW b \in g.graders, NEW c \in g.graders PROVE Carried(With(Swapped(g.graders \ {c}, b, Spelling(b, c))))
    BY <1>b, <2>2, SpellingIsShaped
  <2>7. LinesChanged(g) =
          {With(s) : s \in SUBSET g.graders}
          \cup {With(Swapped(g.graders, b, ReceiptOf(b, r))) : b \in g.graders, r \in RunReceipts}
          \cup {With(Swapped(g.graders, b, Opinion(b))) : b \in g.graders}
          \cup {With(Swapped(g.graders \ {c}, b, Spelling(b, c))) : b, c \in g.graders}
    BY DEF LinesChanged, With
  <2> HIDE DEF ReceiptOf, Opinion
  <2>8. CASE h \in {With(s) : s \in SUBSET g.graders}
    BY <2>3, <2>8
  <2>9. CASE h \in {With(Swapped(g.graders, b, ReceiptOf(b, r))) : b \in g.graders, r \in RunReceipts}
    BY <2>4, <2>9
  <2>10. CASE h \in {With(Swapped(g.graders, b, Opinion(b))) : b \in g.graders}
    BY <2>5, <2>10
  <2>11. CASE h \in {With(Swapped(g.graders \ {c}, b, Spelling(b, c))) : b, c \in g.graders}
    <3>1. PICK b \in g.graders, c \in g.graders : h = With(Swapped(g.graders \ {c}, b, Spelling(b, c)))
      BY <2>11
    <3> QED
      BY <2>6, <3>1
  <2> QED
    BY <1>3, <2>7, <2>8, <2>9, <2>10, <2>11
<1>4. CASE h \in Resigned(g)
  BY <1>4, ResignedIsForeign DEF Carried, Genuine
<1> QED
  BY <1>2, <1>3, <1>4 DEF Altered

LEMMA AttestStep == AttestInv /\ [AttestNext]_attestVars => AttestInv'
<1> SUFFICES ASSUME AttestInv, [AttestNext]_attestVars PROVE AttestInv'
  OBVIOUS
<1>1. CASE Mint
  <2>1. PICK k \in Signers, reports \in Staged, claim \in Claims, attest \in {"auto", "ed25519"} :
          wire' = [wire EXCEPT !.minted = wire.minted \cup
                     {[by |-> k, receipt |-> build_gate_receipt(StageVerdict_(reports), reports, claim, k, attest)]}]
    BY <1>1 DEF Mint
  <2> DEFINE m == [by |-> k, receipt |-> build_gate_receipt(StageVerdict_(reports), reports, claim, k, attest)]
  <2>2. MintedWell(m)
    BY MintIsWell
  <2>3. wire' = [wire EXCEPT !.minted = wire.minted \cup {m}] /\ wire.at = "minting"
    BY <1>1, <2>1 DEF Mint
  <2> HIDE DEF m
  <2>4. DOMAIN wire' = DOMAIN wire /\ wire'.minted = wire.minted \cup {m} /\ wire'.at = "minting"
    BY <2>3 DEF AttestInv
  <2> QED
    BY <2>2, <2>4 DEF AttestInv
<1>2. CASE HandOver
  <2>1. PICK m \in wire.minted : wire' = [wire EXCEPT !.at = "sent", !.on = m.receipt]
    BY <1>2 DEF HandOver
  <2>2. DOMAIN wire' = DOMAIN wire /\ wire'.minted = wire.minted /\ wire'.at = "sent" /\ wire'.on = m.receipt
    BY <2>1 DEF AttestInv
  <2>3. MintedWell(m)
    BY DEF AttestInv
  <2>4. Carried(m.receipt)'
    BY <2>2, <2>3 DEF Carried, Genuine, MintedWell, LineShaped, RunMinted
  <2> QED
    BY <2>2, <2>4 DEF AttestInv
<1>3. CASE Alter
  <2>1. PICK h \in Altered(wire.on) : wire' = [wire EXCEPT !.on = h, !.changed = wire.changed + 1]
    BY <1>3 DEF Alter
  <2>2. wire.at = "sent"
    BY <1>3 DEF Alter
  <2>3. /\ DOMAIN wire' = DOMAIN wire /\ wire'.minted = wire.minted /\ wire'.at = "sent" /\ wire'.on = h
        /\ wire'.dir = wire.dir
    BY <2>1, <2>2 DEF AttestInv
  <2>4. Carried(h)
    BY <2>2, AlteredIsCarried DEF AttestInv
  <2>5. Carried(h)'
    BY <2>3, <2>4 DEF Carried, Genuine, Foreign, resolve_trusted_key
  <2> QED
    BY <2>3, <2>5 DEF AttestInv
<1>4. CASE UNCHANGED attestVars
  BY <1>4 DEF attestVars, AttestInv, Carried, Genuine, Foreign, resolve_trusted_key
<1> QED
  BY <1>1, <1>2, <1>3, <1>4 DEF AttestNext

LEMMA SignatureTells ==
  ASSUME NEW k1, NEW o1, NEW k2, NEW o2, Signature(k1, o1) = Signature(k2, o2)
  PROVE  k1 = k2 /\ o1 = o2
<1>1. Signature(k1, o1).key = k1 /\ Signature(k1, o1).over = o1 /\ Signature(k2, o2).key = k2 /\ Signature(k2, o2).over = o2
  BY DEF Signature
<1> QED
  BY <1>1

LEMMA RunPayloadTells ==
  ASSUME NEW r, NEW q, RunMinted(r), RunMinted(q), r.signature = q.signature
  PROVE  r.ran = q.ran /\ r.result = q.result
<1>1. RunPayload(r) = RunPayload(q)
  BY SignatureTells DEF RunMinted
<1> QED
  BY <1>1 DEF RunPayload

\* A receipt that nobody touched spells nothing else.
LEMMA MintedIsPlain ==
  ASSUME NEW a, RunMinted(a.receipt), a.receipt # NoReceipt
  PROVE  Piece(a).signature = a.receipt.signature /\ ReadsAs(a) = {Piece(a)}
<1>1. PICK k, o : a.receipt.signature = Signature(k, o)
  BY DEF RunMinted
<1>2. [Signature(k, o) EXCEPT !.then = {}] = Signature(k, o) /\ Signature(k, o).then = {}
  BY DEF Signature
<1> QED
  BY <1>1, <1>2 DEF Piece, ReadsAs

\* The lines of a receipt and the runs of its precise ones, as Said and Ran.
LineOf(a) == <<a.kind, a.verdict>>
RunOf(a) == <<a.receipt.ran, a.receipt.result>>
WithRun(G) == {a \in G : a.kind \in PRECISE_GRADERS /\ a.receipt # NoReceipt}

\* Verified: the precise lines have receipts that somebody signed as they are.
Sound_(G) ==
  \A a \in G : a.kind \in PRECISE_GRADERS =>
    a.receipt # NoReceipt /\ RunMinted(a.receipt) /\ a.receipt.signature # Unsigned

LEMMA PieceTells ==
  ASSUME NEW a, NEW b, Piece(a) = Piece(b),
         a.kind \in PRECISE_GRADERS => a.receipt # NoReceipt /\ RunMinted(a.receipt) /\ a.receipt.signature # Unsigned,
         b.receipt = NoReceipt \/ RunMinted(b.receipt)
  PROVE  /\ LineOf(a) = LineOf(b)
         /\ a.kind \in PRECISE_GRADERS => b.kind \in PRECISE_GRADERS /\ b.receipt # NoReceipt /\ RunOf(a) = RunOf(b)
<1>1. a.kind = b.kind /\ a.verdict = b.verdict /\ Piece(a).signature = Piece(b).signature
  <2>1. Piece(a).kind = a.kind /\ Piece(b).kind = b.kind /\ Piece(a).verdict = a.verdict /\ Piece(b).verdict = b.verdict
    BY DEF Piece
  <2> QED
    BY <2>1
<1>2. ASSUME a.kind \in PRECISE_GRADERS PROVE b.receipt # NoReceipt /\ RunOf(a) = RunOf(b)
  <2>1. Piece(a).signature = a.receipt.signature
    BY <1>2, MintedIsPlain
  <2>2. b.receipt # NoReceipt
    <3>1. ASSUME b.receipt = NoReceipt PROVE Piece(b).signature = Unsigned
      BY <3>1 DEF Piece
    <3> QED
      BY <1>1, <1>2, <2>1, <3>1
  <2>3. b.receipt.signature = a.receipt.signature
    BY <1>1, <2>1, <2>2, MintedIsPlain
  <2> QED
    BY <1>2, <2>2, <2>3, RunPayloadTells DEF RunOf
<1> QED
  BY <1>1, <1>2 DEF LineOf

\* Lines with the fingerprint of lines that were minted say nothing else; and they
\* say all of it if no text among them holds a separator.
LEMMA FingerprintTells ==
  ASSUME NEW v, NEW w, NEW G, NEW M, _fingerprint(v, G) = _fingerprint(w, M), Sound_(G),
         \A b \in M : b.receipt = NoReceipt \/ RunMinted(b.receipt)
  PROVE  /\ {LineOf(a) : a \in G} \subseteq {LineOf(b) : b \in M}
         /\ {RunOf(a) : a \in WithRun(G)} \subseteq {RunOf(b) : b \in WithRun(M)}
         /\ (\A a \in G : a.receipt # NoReceipt => a.receipt.signature.then = {}) =>
              /\ {LineOf(a) : a \in G} = {LineOf(b) : b \in M}
              /\ {RunOf(a) : a \in WithRun(G)} = {RunOf(b) : b \in WithRun(M)}
<1>1. UNION {ReadsAs(a) : a \in G} = UNION {ReadsAs(b) : b \in M}
  <2>1. _fingerprint(v, G).lines = UNION {ReadsAs(a) : a \in G} /\ _fingerprint(w, M).lines = UNION {ReadsAs(b) : b \in M}
    BY DEF _fingerprint
  <2> QED
    BY <2>1
<1>2. \A b \in M : ReadsAs(b) = {Piece(b)}
  <2> SUFFICES ASSUME NEW b \in M PROVE ReadsAs(b) = {Piece(b)}
    OBVIOUS
  <2>1. CASE b.receipt = NoReceipt
    BY <2>1 DEF ReadsAs
  <2>2. CASE b.receipt # NoReceipt
    BY <2>2, MintedIsPlain
  <2> QED
    BY <2>1, <2>2
<1>3. \A a \in G : Piece(a) \in ReadsAs(a)
  BY DEF ReadsAs
<1>4. \A a \in G : \E b \in M : Piece(a) = Piece(b)
  <2> SUFFICES ASSUME NEW a \in G PROVE \E b \in M : Piece(a) = Piece(b)
    OBVIOUS
  <2>1. Piece(a) \in UNION {ReadsAs(b) : b \in M}
    BY <1>1, <1>3
  <2>2. PICK b \in M : Piece(a) \in ReadsAs(b)
    BY <2>1
  <2> QED
    BY <1>2, <2>2
<1>5. ASSUME NEW a \in G, NEW b \in M, Piece(a) = Piece(b)
      PROVE  /\ LineOf(a) = LineOf(b) /\ a.kind = b.kind
             /\ a.kind \in PRECISE_GRADERS => b.kind \in PRECISE_GRADERS /\ b.receipt # NoReceipt /\ RunOf(a) = RunOf(b)
  <2>1. a.kind = b.kind
    <3>1. Piece(a).kind = a.kind /\ Piece(b).kind = b.kind
      BY DEF Piece
    <3> QED
      BY <1>5, <3>1
  <2> QED
    BY <1>5, <2>1, PieceTells DEF Sound_
<1>6. /\ {LineOf(a) : a \in G} \subseteq {LineOf(b) : b \in M}
      /\ {RunOf(a) : a \in WithRun(G)} \subseteq {RunOf(b) : b \in WithRun(M)}
  BY <1>4, <1>5 DEF WithRun
<1>7. ASSUME \A a \in G : a.receipt # NoReceipt => a.receipt.signature.then = {}
      PROVE  /\ {LineOf(b) : b \in M} \subseteq {LineOf(a) : a \in G}
             /\ {RunOf(b) : b \in WithRun(M)} \subseteq {RunOf(a) : a \in WithRun(G)}
  <2>1. \A a \in G : ReadsAs(a) = {Piece(a)}
    BY <1>7 DEF ReadsAs
  <2>2. \A b \in M : \E a \in G : Piece(a) = Piece(b)
    <3> SUFFICES ASSUME NEW b \in M PROVE \E a \in G : Piece(a) = Piece(b)
      OBVIOUS
    <3>1. Piece(b) \in UNION {ReadsAs(x) : x \in M}
      BY <1>2
    <3>2. PICK a \in G : Piece(b) \in ReadsAs(a)
      BY <1>1, <3>1
    <3> QED
      BY <2>1, <3>2
  <2>3. {LineOf(b) : b \in M} \subseteq {LineOf(a) : a \in G}
    BY <1>5, <2>2
  <2>4. \A b \in WithRun(M) : \E a \in WithRun(G) : RunOf(b) = RunOf(a)
    BY <1>5, <2>2 DEF WithRun, Sound_
  <2> QED
    BY <2>3, <2>4
<1> QED
  BY <1>6, <1>7

LEMMA VerifiedFollows == AttestInv => VerifiedIsSigned
<1> DEFINE g == wire.on
<1> SUFFICES ASSUME AttestInv, wire.at = "sent", NEW allowed \in {Schemes, {"ed25519"}}, verify_gate_receipt(g, allowed)
             PROVE  \E m \in wire.minted :
                      /\ Vouches(m.by, g.alg) /\ m.receipt.alg = g.alg
                      /\ Header(m.receipt) = Header(g)
                      /\ Said(g) \subseteq Said(m.receipt) /\ Ran(g) \subseteq Ran(m.receipt)
                      /\ Plain_(g) => Said(g) = Said(m.receipt) /\ Ran(g) = Ran(m.receipt)
                      /\ allowed = {"ed25519"} => public_verifiable(g)
                      /\ \A c \in Claims : verify_fact_attestation(g, c, allowed) =>
                           m.receipt.subject = c /\ m.receipt.verdict = "pass"
  BY DEF VerifiedIsSigned
<1>1. Carried(g) /\ verify_receipt(g, allowed)
  BY DEF AttestInv, verify_gate_receipt
<1>2. signing_payload(g) = GatePayload(g)
  BY <1>1 DEF Carried, GateFields, signing_payload
<1>3. PICK key : /\ g.signature = Signature(key, GatePayload(g))
                 /\ \/ g.alg = "ed25519" /\ key = resolve_trusted_key(g.who) /\ key # Absent_
                    \/ g.alg = "hmac-sha256" /\ key = "shared"
  <2>1. Secret(Own) = "shared"
    BY AttestationAssumption DEF Secret
  <2> QED
    BY <1>1, <1>2, <2>1 DEF verify_receipt, ed25519_verify
<1>4. ~Foreign(key) /\ g.signature.key = key
  BY <1>3 DEF Foreign, resolve_trusted_key, Signature
<1>5. PICK m \in wire.minted : m.receipt.signature = g.signature
  BY <1>1, <1>4 DEF Carried, Genuine, verify_receipt
<1>6. MintedWell(m)
  BY DEF AttestInv
<1>7. SigningKey(m.by, m.receipt.alg) = key /\ GatePayload(m.receipt) = GatePayload(g)
  <2>1. m.receipt.signature = Signature(SigningKey(m.by, m.receipt.alg), GatePayload(m.receipt))
    BY <1>6 DEF MintedWell
  <2>2. Signature(SigningKey(m.by, m.receipt.alg), GatePayload(m.receipt)) = Signature(key, GatePayload(g))
    BY <1>3, <1>5, <2>1
  <2> QED
    BY <2>2, SignatureTells
<1>8. /\ m.receipt.alg = g.alg /\ m.receipt.verdict = g.verdict /\ m.receipt.fingerprint = g.fingerprint
      /\ m.receipt.clamped = g.clamped /\ m.receipt.subject = g.subject /\ m.receipt.kind = g.kind
  BY <1>7 DEF GatePayload
<1>9. Vouches(m.by, g.alg)
  <2>1. CASE g.alg = "ed25519"
    BY <1>3, <1>7, <1>8, <2>1 DEF SigningKey, Vouches, resolve_trusted_key
  <2>2. CASE g.alg = "hmac-sha256"
    BY <1>3, <1>6, <1>7, <1>8, <2>2, AttestationAssumption DEF SigningKey, Secret, Vouches, MintedWell
  <2> QED
    BY <1>3, <2>1, <2>2
<1>10. /\ Header(m.receipt) = Header(g)
       /\ Said(g) \subseteq Said(m.receipt) /\ Ran(g) \subseteq Ran(m.receipt)
       /\ Plain_(g) => Said(g) = Said(m.receipt) /\ Ran(g) = Ran(m.receipt)
  <2>1. _fingerprint(g.verdict, g.graders) = _fingerprint(m.receipt.verdict, m.receipt.graders)
    BY <1>6, <1>8 DEF verify_gate_receipt, MintedWell
  <2>2. \A b \in m.receipt.graders : b.receipt = NoReceipt \/ RunMinted(b.receipt)
    BY <1>6 DEF MintedWell
  <2>3. Sound_(g.graders)
    <3> SUFFICES ASSUME NEW a \in g.graders, a.kind \in PRECISE_GRADERS
                 PROVE  a.receipt # NoReceipt /\ RunMinted(a.receipt) /\ a.receipt.signature # Unsigned
      BY DEF Sound_
    <3>1. a.receipt # NoReceipt /\ verify_receipt(a.receipt, allowed)
      BY DEF verify_gate_receipt
    <3>2. DOMAIN a.receipt = RunFields
      BY <1>1, <3>1 DEF Carried, LineShaped
    <3>3. signing_payload(a.receipt) = RunPayload(a.receipt)
      BY <3>2 DEF signing_payload, RunFields
    <3>4. PICK k : a.receipt.signature = Signature(k, RunPayload(a.receipt))
      BY <3>1, <3>3 DEF verify_receipt, ed25519_verify
    <3>5. a.receipt.signature.key = k
      BY <3>4 DEF Signature
    <3>6. RunMinted(a.receipt)
      BY <3>2, <3>4, <3>5 DEF RunMinted
    <3> QED
      BY <3>1, <3>6 DEF verify_receipt
  <2>4. \A x : Said(x) = {LineOf(a) : a \in x.graders} /\ Ran(x) = {RunOf(a) : a \in WithRun(x.graders)}
    BY DEF Said, Ran, LineOf, RunOf, WithRun
  <2>5. Header(m.receipt) = Header(g)
    BY <1>8 DEF Header
  <2> DEFINE G == g.graders
             M == m.receipt.graders
  <2>6. /\ {LineOf(a) : a \in G} \subseteq {LineOf(b) : b \in M}
        /\ {RunOf(a) : a \in WithRun(G)} \subseteq {RunOf(b) : b \in WithRun(M)}
        /\ (\A a \in G : a.receipt # NoReceipt => a.receipt.signature.then = {}) =>
             /\ {LineOf(a) : a \in G} = {LineOf(b) : b \in M}
             /\ {RunOf(a) : a \in WithRun(G)} = {RunOf(b) : b \in WithRun(M)}
    BY <2>1, <2>2, <2>3, FingerprintTells
  <2> QED
    BY <2>4, <2>5, <2>6 DEF Plain_
<1>11. allowed = {"ed25519"} => public_verifiable(g)
  BY DEF verify_gate_receipt, verify_receipt, public_verifiable
<1>12. \A c \in Claims : verify_fact_attestation(g, c, allowed) => m.receipt.subject = c /\ m.receipt.verdict = "pass"
  BY <1>8 DEF verify_fact_attestation
<1> QED
  BY <1>8, <1>9, <1>10, <1>11, <1>12

\* "Verify a gate-level receipt with NO trust in its producer" (verdict/attest.py):
\* for any installations, keys, reports and any number of changes on the way, a
\* receipt that verifies has the verdict and the subject of one that an
\* installation signed whose key the verifier trusts, no line and no run that is
\* not in that one, and all of them if no text in its lines holds a separator.
THEOREM VerifiedIsWhatWasSigned == AttestInit /\ [][AttestNext]_attestVars => []VerifiedIsSigned
<1>1. AttestInit => AttestInv
  BY DEF AttestInit, AttestInv
<1> QED
  BY <1>1, AttestStep, VerifiedFollows, PTL
=============================================================================
