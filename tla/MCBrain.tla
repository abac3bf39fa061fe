------------------------------- MODULE MCBrain -------------------------------
(* The shared brain around the trust layer, one part of it in each behaviour: *)
(* what a store answers, the audit of its mutations, its server, and the      *)
(* rules and schemas that are induced in it.                                  *)
EXTENDS Recall, MemoryAudit, SharedBrain, Knowledge

CONSTANTS x1, x2, x3, y, z, vx, vy, vz, ann, bob

\* x2 is x1 with an invisible character, x3 is x1 in capitals, and z is a long
\* text that begins with y and, being full of blanks, is y and more.
CanonOf == x1 :> vx @@ x2 :> vx @@ x3 :> vx @@ y :> vy @@ z :> vz
FoldOf == [t \in Text |-> IF t = x3 THEN x1 ELSE t]
CutOf == [t \in Text |-> IF t = z THEN y ELSE t]

\* One statement, with and without times, or a second one after it that counts
\* or, looking like a secret, does not.
Says1(t, from, to) == [text |-> t, from |-> from, to |-> to, fit |-> TRUE]
BatchSet == {<<Says1(t, 0, 0)>> : t \in Text}
            \cup {<<Says1(t, v[1], v[2])>> : t \in {x1, y, z}, v \in {<<1, 0>>, <<1, 3>>, <<2, 0>>}}
            \cup {<<Says1(x1, 0, 0), [Says1(y, 0, 0) EXCEPT !.fit = f]>> : f \in BOOLEAN}

PeerSet == [text : {x1, y}, trust : Trust, before : {x2, z}]

\* One verified memory, faded or not, among candidates that may be fresher, more
\* relevant or cheaper, rejected or irrelevant; message lists of every shape.
Strong == [id : {1}, trust : {"verified"}, rel : {40, 100}, rs : {0}, ec : {0, 100}, cost : {1, 2}]
Weak(i) == [id : {i}, trust : {"candidate"}, rel : {40, 100}, rs : {0, 100}, ec : {100}, cost : {1, 2}]
           \cup [id : {i}, trust : {"candidate", "rejected"}, rel : {0}, rs : {100}, ec : {100}, cost : {1}]
HitSet == {{a, b} : a \in Strong, b \in Weak(2)} \cup {{b} : b \in Weak(2)}
          \cup {{c, a, b} : a \in Strong, b \in Weak(2), c \in Weak(3)}
LimitSet == {[k |-> 3, fetch |-> 3], [k |-> 2, fetch |-> 2], [k |-> 1, fetch |-> 2]}
ChatSet == {<<>>, <<"user">>, <<"system", "user">>, <<"user", "system", "assistant", "user">>,
            <<"system", "assistant">>}

\* Signed and attested writes of two principals in three scopes; signatures of
\* another key, over another claim, of a skill, at the reputations; raw requests.
Raw(path, k, t) ==
  [_req(path, k, t, FALSE) EXCEPT !.author = bob, !.trust = IF path = "/apply" THEN "verified" ELSE "candidate"]
RequestSet ==
  {remember_signed(ann, k, x1, x1) : k \in {"one", "two", "team"}} \cup {remember_signed(bob, p[1], p[2], p[2]) : p \in {<<"one", x1>>, <<"two", x3>>}}
  \cup {remember_signed(ann, "team", y, "none"), remember_signed(bob, "team", x1, "none"), remember_signed(bob, "team", y, y),
        remember_signed(ann, "tool", x1, x1), [remember_signed(ann, "team", x1, "none") EXCEPT !.keyid = bob],
        [remember_signed(bob, "one", x1, x1) EXCEPT !.text = y], [remember_signed(ann, "one", x1, x1) EXCEPT !.kind = "skill"],
        [remember_signed(ann, "one", x1, x1) EXCEPT !.key = "rep"]}
  \cup {Raw("/write", "team", x1), Raw("/write", "one", y), Raw("/apply", "team", y),
        [Raw("/apply", "two", x1) EXCEPT !.cluster = TRUE], Raw("/promote", "team", x1),
        Raw("/contradict", "team", x1), Raw("/annotate", "rep", x1), Raw("/all", "*", x1)}
ServerSet == {[trusted |-> t, atStart |-> t, override |-> o, token |-> k] :
                t \in {{}, {ann}}, o \in {"none", "on"}, k \in BOOLEAN}

\* An empty store, and one with two schemas over the two rules, in either order,
\* and a third over both; of two members the first is shown.
Rule(cx) == [Induced(1, "ui", 1, <<>>, [m \in Subjects |-> 0], 2) EXCEPT !.cx = cx]
Over(order, ms) ==
  Induced(1, "schema", order, ms, [m \in Subjects |-> IF m = ms[1] THEN 1 ELSE 0], 2)
Nothing == [i \in Rules \cup Schemas |-> Absent]
Grown == "r1" :> Rule(1) @@ "r2" :> Rule(0)
         @@ "s1" :> Over(2, <<"r1", "r2">>) @@ "s2" :> Over(2, <<"r2", "r1">>)
         @@ "s3" :> Over(3, <<"s1", "s2">>)
StartSet == {[kb |-> Grown, fails |-> [k \in Kinds |-> 2]], [kb |-> Nothing, fails |-> [k \in Kinds |-> 1]]}

VARIABLE part
brainParts == <<recallVars, auditVars, brainVars, knowledgeVars>>
allVars == <<part, brainParts>>

MCInit == /\ part \in {"recall", "audit", "server", "knowledge"}
          /\ RecallInit /\ AuditInit /\ BrainInit /\ KnowledgeInit
          /\ part # "server" => server = CHOOSE s \in ServerSet : TRUE
          /\ part # "knowledge" => kb = Nothing
MCNext ==
  /\ UNCHANGED part
  /\ \/ part = "recall" /\ RecallNext /\ UNCHANGED <<auditVars, brainVars, knowledgeVars>>
     \/ part = "audit" /\ AuditNext /\ UNCHANGED <<recallVars, brainVars, knowledgeVars>>
     \/ part = "server" /\ BrainNext /\ UNCHANGED <<recallVars, auditVars, knowledgeVars>>
     \/ part = "knowledge" /\ KnowledgeNext /\ UNCHANGED <<recallVars, auditVars, brainVars>>
MCSpec == MCInit /\ [][MCNext]_allVars
=============================================================================
