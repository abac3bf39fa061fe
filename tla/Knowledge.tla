------------------------------- MODULE Knowledge -------------------------------
(***************************************************************************)
(* What is induced from failures: design rules, the schemas over them, and *)
(* their revision (memory/consolidate.py, revise.py, librarian.py), by one *)
(* maintenance process over one scope.  A rule or schema is known by its   *)
(* subject, which the model chooses; its text is a version number.  Every  *)
(* reply of the model may be unusable, and every call of it may raise.     *)
(***************************************************************************)
EXTENDS Naturals, FiniteSets, Sequences, SequencesExt, Functions

CONSTANTS Rules, Schemas,       \* subjects
          Kinds,                \* of failures
          MinCluster, MinSize,  \* min_cluster, min_size
          MaxOrder,             \* max_order
          SplitAfter,           \* split_after
          MaxDepth,             \* of propagate_revision
          Shown,                \* how many of its members the model is shown: group[:10], members[:10]
          Starts,               \* stores to start from: [kb, fails]
          MaxCalls              \* bound: passes and revisions

VARIABLES kb, fails, call, passes
knowledgeVars == <<kb, fails, call, passes>>

Subjects == Rules \cup Schemas

Absent == [trust |-> "absent"]
Present(id) == kb[id] # Absent
Idle == [at |-> "idle"]

\* subsumes: a schema's members, in order; basis: of each the version that the
\* model was shown when the schema was derived, 0 if it was not.
Induced(ver, kind, order, subsumes, basis, sup) ==
  [ver |-> ver, kind |-> kind, order |-> order, subsumes |-> subsumes, basis |-> basis,
   cx |-> 0, ec |-> 2, sup |-> sup, trust |-> "candidate"]
Insight ==
  [ver : Nat, kind : Kinds \cup {"schema"}, order : 1..MaxOrder, subsumes : Seq(Subjects),
   basis : [Subjects -> Nat], cx : Nat, ec : 0..2, sup : Nat, trust : {"candidate", "rejected"}]
IsStore(k) == k = [i \in Subjects |-> k[i]] /\ \A i \in Subjects : k[i] = Absent \/ k[i] \in Insight

\* Of these members those that are there, and of them the first.
Listed(members) ==
  {members[i] : i \in {j \in DOMAIN members :
     Present(members[j]) /\ Cardinality({k \in 1..j : Present(members[k])}) <= Shown}}
VersionsOf(members) == [m \in Subjects |-> IF m \in Listed(members) THEN kb[m].ver ELSE 0]

DesignRule(kind, sup) == Induced(1, kind, 1, <<>>, [m \in Subjects |-> 0], sup)
Schema(order, members, sup) == Induced(1, "schema", order, members, VersionsOf(members), sup)

\* induce_hierarchy stops at order 4, propagate_revision at depth 8; a level
\* of the climb is an order at least.
ASSUME KnowledgeAssumption ==
  /\ Rules \cap Schemas = {} /\ IsFiniteSet(Subjects)
  /\ MaxOrder \in Nat \ {0} /\ MaxDepth \in Nat /\ MaxOrder <= MaxDepth + 2
  /\ \A s \in Starts : IsStore(s.kb)

KnowledgeInit ==
  /\ \E s \in Starts : kb = s.kb /\ fails = s.fails
  /\ call = Idle /\ passes = 0

\* write(): the same text corroborates and takes the new details over, a
\* rejected claim stays as it is; another text supersedes.
Stored(id, new, same) ==
  LET old == kb[id] IN
  IF old = Absent THEN new
  ELSE IF ~same THEN [new EXCEPT !.ver = old.ver + 1, !.sup = 1]
  ELSE IF old.trust = "rejected" THEN old
  ELSE [old EXCEPT !.subsumes = new.subsumes, !.basis = new.basis, !.order = new.order,
                  !.kind = new.kind, !.sup = 2]

\* contradict(): see MemoryRecords for the three levels of confidence.
Contradicted(r) ==
  {[r EXCEPT !.ec = e, !.trust = IF e = 0 THEN "rejected" ELSE @] : e \in IF r.ec = 2 THEN {1, 2} ELSE {0}}

Finish(c) == call' = c
Raise == call.at \notin {"idle", "returned"} /\ Finish(Idle) /\ UNCHANGED <<kb, fails, passes>>

Fail(k) ==
  /\ fails[k] < MinCluster
  /\ fails' = [fails EXCEPT ![k] = @ + 1]
  /\ UNCHANGED <<kb, call, passes>>

-----------------------------------------------------------------------------
(* librarian_pass: consolidate, induce level by level, decay.              *)

librarian_pass ==
  /\ call = Idle /\ passes < MaxCalls /\ passes' = passes + 1
  /\ call' = [at |-> "consolidate", todo |-> {k \in Kinds : fails[k] >= MinCluster}]
  /\ UNCHANGED <<kb, fails>>

\* One cluster: the reply's subject is any, its text the known one or not.
consolidate_failures ==
  /\ call.at = "consolidate"
  /\ \E k \in call.todo :
       /\ call' = [call EXCEPT !.todo = @ \ {k}]
       /\ \/ UNCHANGED kb   \* unparseable
          \/ \E r \in Rules, same \in BOOLEAN :
               kb' = [kb EXCEPT ![r] = Stored(r, DesignRule(k, 2), same)]
  /\ UNCHANGED <<fails, passes>>

\* Design rules cluster by the failure kind they cover, schemas all together.
_sources_at(order) ==
  IF order = 1 THEN {r \in Rules : Present(r)}
  ELSE {s \in Schemas : Present(s) /\ kb[s].order = order}
Clusters(order) ==
  LET src == _sources_at(order)
      groups == IF order = 1 THEN {{r \in src : kb[r].kind = k} : k \in Kinds} ELSE {src}
  IN  {g \in groups : Cardinality(g) >= MinSize}

Level(order, wrote) ==
  IF order < MaxOrder /\ wrote THEN [at |-> "induce", order |-> order, todo |-> Clusters(order), wrote |-> FALSE]
  ELSE [at |-> "decay"]

NextLevel ==
  /\ \/ call.at = "consolidate" /\ call' = (IF call.todo = {} THEN Level(1, TRUE) ELSE call)
     \/ call.at = "induce" /\ call' = (IF call.todo = {} THEN Level(call.order + 1, call.wrote) ELSE call)
  /\ call.todo = {}
  /\ UNCHANGED <<kb, fails, passes>>

\* The members are stored in the order the store lists them, which is any.
_induce_level ==
  /\ call.at = "induce"
  /\ \E g \in call.todo :
       \/ call' = [call EXCEPT !.todo = @ \ {g}] /\ UNCHANGED kb
       \/ \E s \in Schemas, members \in SetToSeqs(g), same \in BOOLEAN :
            /\ kb' = [kb EXCEPT ![s] = Stored(s, Schema(call.order + 1, members, 2), same)]
            /\ call' = [call EXCEPT !.todo = @ \ {g}, !.wrote = TRUE]
  /\ UNCHANGED <<fails, passes>>

\* Weak candidates with little support, of whatever has faded by now.
DecayPass ==
  /\ call.at = "decay"
  /\ \E gone \in SUBSET {i \in DOMAIN kb : /\ Present(i) /\ kb[i].trust = "candidate"
                                           /\ kb[i].ec < 2 /\ kb[i].sup < 2} :
       kb' = [i \in DOMAIN kb |-> IF i \in gone THEN Absent ELSE kb[i]]
  /\ Finish(Idle)
  /\ UNCHANGED <<fails, passes>>

-----------------------------------------------------------------------------
(* revise_with_counterexample and propagate_revision.                      *)

\* Who subsumes m, by what is stored now.
Above(m) == {s \in Schemas : Present(s) /\ m \in ToSet(kb[s].subsumes) /\ s # m}

Frame_(m, depth) == [todo |-> IF depth > MaxDepth THEN {} ELSE Above(m), depth |-> depth]

\* A failure of the kind the rule covers.
contradicts(r) == fails[kb[r].kind] > 0

\* It is noted, and the rule loses confidence.
revise_with_counterexample(r) ==
  /\ call = Idle /\ passes < MaxCalls /\ passes' = passes + 1
  /\ Present(r) /\ contradicts(r)
  /\ \E c \in Contradicted([kb[r] EXCEPT !.cx = @ + 1]) :
       /\ kb' = [kb EXCEPT ![r] = c]
       /\ call' = IF c.trust # "rejected" /\ c.cx >= SplitAfter
                    THEN [at |-> "split", rule |-> r, kind |-> kb[r].kind] ELSE Idle
  /\ UNCHANGED fails

\* The narrowed rule takes the rule's place; the exception's subject is the
\* model's choice, and may be that of a rule there is, the narrowed one too.
_write_narrowed(r, kind, same) == Stored(r, DesignRule(kind, 1), same)
_write_exception(e, r, kind, narrowed) ==
  IF e = r THEN [DesignRule(kind, 1) EXCEPT !.ver = narrowed.ver + 1]
  ELSE Stored(e, DesignRule(kind, 1), FALSE)

split ==
  /\ call.at = "split"
  /\ \/ Finish(Idle) /\ UNCHANGED kb   \* unparseable: weakened only
     \/ \E e \in Rules, same \in BOOLEAN :
          LET narrowed == _write_narrowed(call.rule, call.kind, same)
              exception == _write_exception(e, call.rule, call.kind, narrowed)
          IN  /\ kb' = [[kb EXCEPT ![call.rule] = narrowed] EXCEPT ![e] = exception]
              /\ call' = [at |-> "climb", stack |-> <<Frame_(call.rule, 0)>>, doubted |-> {},
                          mine |-> [m \in Subjects |-> IF m = call.rule THEN kb'[m].ver ELSE 0]]
  /\ UNCHANGED <<fails, passes>>

\* Bug: only the schemas right above the rule are re-derived.
ClimbNoFurther(stack, s) == stack

\* After a schema, those above it.
Climb(stack, s) == Append(stack, Frame_(s, Last(stack).depth + 1))

Left(s) == [call.stack EXCEPT ![Len(call.stack)].todo = @ \ {s}]

\* The next schema: re-derived from the present text of its first members, or
\* doubted.
propagate_revision ==
  /\ call.at = "climb" /\ call.stack # <<>>
  /\ \E s \in Last(call.stack).todo :
       \/ \E c \in Contradicted(kb[s]) :
            /\ kb' = [kb EXCEPT ![s] = c]
            /\ call' = [call EXCEPT !.stack = Left(s), !.doubted = @ \cup {s}]
       \/ /\ \E m \in ToSet(kb[s].subsumes) : Present(m)
          /\ \E same \in BOOLEAN :
               kb' = [kb EXCEPT ![s] = Stored(s, Schema(kb[s].order, kb[s].subsumes, 1), same)]
          /\ call' = [call EXCEPT !.stack = Climb(Left(s), s), !.mine[s] = kb'[s].ver]
  /\ UNCHANGED <<fails, passes>>

Return ==
  /\ call.at = "climb" /\ call.stack # <<>> /\ Last(call.stack).todo = {}
  /\ call' = IF Len(call.stack) > 1 THEN [call EXCEPT !.stack = Front(@)]
             ELSE [at |-> "returned", mine |-> call.mine, doubted |-> call.doubted]
  /\ UNCHANGED <<kb, fails, passes>>

KnowledgeNext ==
  \/ \E k \in Kinds : Fail(k)
  \/ librarian_pass \/ consolidate_failures \/ NextLevel \/ _induce_level \/ DecayPass
  \/ \E r \in Rules : revise_with_counterexample(r)
  \/ split \/ propagate_revision \/ Return \/ Raise
  \/ call.at = "returned" /\ Finish(Idle) /\ UNCHANGED <<kb, fails, passes>>

-----------------------------------------------------------------------------
Layered == \A s \in Schemas : Present(s) =>
  \A m \in ToSet(kb[s].subsumes) : Present(m) => kb[m].order < kb[s].order

\* "The hierarchy above stops over-claiming" (revise.py, propagate_revision):
\* when a revision returns, every schema above the narrowed rule, and above
\* every schema re-derived on the way, was derived from the text its members
\* have now, or is doubted or rejected, as far as the model is shown its members
\* (revise.py:133).  A schema over two schemas of the rule is reached twice, and
\* the second time counts.  (The model may give a schema the subject of one below
\* it; what then subsumes itself, the depth ends.)
Follows(s, m) == kb[s].basis[m] >= call.mine[m] \/ s \in call.doubted \/ kb[s].trust = "rejected"
SchemasFollow ==
  call.at = "returned" /\ Layered =>
    \A m \in Subjects : \A s \in Above(m) : m \in Listed(kb[s].subsumes) => Follows(s, m)

\* "Re-induced from its CURRENT member records (the revised ones included)"
\* (revise.py:116-117), however many there are.  It does not hold: a revised
\* member beyond the first ten is not shown, and the schema counts as followed.
RevisedOnesIncluded ==
  call.at = "returned" /\ Layered => \A m \in Subjects : \A s \in Above(m) : Follows(s, m)
=============================================================================
