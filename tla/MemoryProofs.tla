---------------------------- MODULE MemoryProofs ----------------------------
(***************************************************************************)
(* Proofs about the memory: a shared store attributes nothing to those who *)
(* did not sign it, an answer about the past is never a rejected value, an *)
(* audit that verifies is complete, a revision reaches every schema above  *)
(* it, and what is verified was earned.                                    *)
(***************************************************************************)
EXTENDS Recall, MemoryAudit, SharedBrain, Knowledge, MemoryTrust, FiniteSetTheorems, SequenceTheorems, WellFoundedInduction, TLAPS

-----------------------------------------------------------------------------
(* The shared store.  A request that is not signed and mutates got in only *)
(* through a door that is open to everybody, so its key is in seen.open    *)
(* from then on, even if the door is closed before the request is served.  *)
(* A signed one takes its signature and its evidence with it; and of the   *)
(* writes a principal signed, those served and those waiting are no more   *)
(* than those sent.                                                        *)

Fields == {"text", "trust", "ec", "sup", "prov", "ledger", "sat", "window", "pinned", "author", "kind"}
FairBelief(k, r) ==
  /\ DOMAIN r = Fields
  /\ k \notin seen.open =>
       /\ r.author \in Signer => Signed(r.author, k, r.text)
       /\ r.trust = "verified" => Attested(r.text)
Fair(k, r) == r # NoRec => FairBelief(k, r)

Mutating == {"/write", "/apply", "/promote", "/contradict", "/annotate"}
Received(m) ==
  /\ m.n \in Nat /\ m.n < seen.n /\ m.r \in Requests /\ m.r.text \in Text
  /\ <<m.r.sig.by, m.r.sig.claim>> \in seen.signed /\ m.r.ev \in seen.attested
  /\ m.r.path \in Mutating => m.r.key \in seen.open
From(p) == {m \in inbox : m.r.sig.by = p}

SeenFields == {"signed", "attested", "open", "sent", "n"}
BrainInv ==
  /\ DOMAIN brain = Key /\ DOMAIN rep = Signer /\ DOMAIN seen = SeenFields
  /\ seen.n \in Nat /\ seen.sent \in [Signer -> Nat]
  /\ \A k \in Key : Fair(k, brain[k])
  /\ ToolKey \in Key \ seen.open => brain[ToolKey] = Skill
  /\ IsFiniteSet(inbox) /\ \A m \in inbox : Received(m)
  /\ "rep" \notin seen.open =>
       \A p \in Signer : /\ rep[p].ok \in Nat /\ rep[p].total \in Nat /\ rep[p].ok <= rep[p].total
                         /\ rep[p].total + Cardinality(From(p)) <= seen.sent[p]

LEMMA BrainStart == BrainInit => BrainInv
<1> SUFFICES ASSUME BrainInit PROVE BrainInv
  OBVIOUS
<1>1. \A k \in Key : brain[k] # NoRec => brain[k] = Skill
  BY DEF BrainInit
<1>2. DOMAIN Skill = Fields /\ Skill.author = Nobody /\ Skill.trust = "candidate"
  BY DEF Skill, Belief, Fields
<1>3. \A k \in Key : Fair(k, brain[k])
  BY <1>1, <1>2, NamesAreApart DEF Fair, FairBelief
<1>4. \A p \in Signer : From(p) = {}
  BY DEF From, BrainInit
<1>5. Cardinality({}) = 0 /\ IsFiniteSet({})
  BY FS_EmptySet
<1>6. seen.n = 0 /\ seen.sent = [p \in Signer |-> 0] /\ DOMAIN seen = SeenFields /\ inbox = {}
      /\ rep = [p \in Signer |-> [ok |-> 0, total |-> 0]]
  BY DEF BrainInit, SeenFields
<1>7. \A p \in Signer : rep[p].ok = 0 /\ rep[p].total = 0 /\ Cardinality(From(p)) = 0 /\ seen.sent[p] = 0
  BY <1>4, <1>5, <1>6
<1>8. DOMAIN brain = Key /\ (ToolKey \in Key => brain[ToolKey] = Skill)
  BY DEF BrainInit
<1> QED
  BY <1>3, <1>5, <1>6, <1>7, <1>8 DEF BrainInv

\* Only an open door lets an unsigned mutation in.
LEMMA AdmittedUnsignedIsOpen ==
  ASSUME NEW r, Admitted(r), r.path \in Mutating
  PROVE  Open(r)
<1>1. CASE r.path = "/apply"
  BY <1>1 DEF Admitted, _CLUSTER_POST, _cluster_authed, Open, require_signed
<1>2. CASE r.path # "/apply"
  BY <1>2 DEF Admitted, _CLUSTER_POST, _SIGNED_MODE_POST, Open, require_signed, Mutating
<1> QED
  BY <1>1, <1>2

LEMMA PostKeeps ==
  ASSUME BrainInv, NEW r \in Requests, do_POST(r)
  PROVE  BrainInv'
<1> DEFINE m == [r |-> r, n |-> seen.n]
<1>1. /\ DOMAIN seen' = SeenFields /\ seen'.n = seen.n + 1
      /\ seen'.signed = seen.signed \cup {<<r.sig.by, r.sig.claim>>}
      /\ seen'.attested = seen.attested \cup {r.ev}
      /\ seen'.open = seen.open \cup (IF Open(r) /\ r.path # "/write_signed" THEN {r.key} ELSE {})
      /\ seen'.sent = [p \in Signer |-> seen.sent[p] + (IF r.sig.by = p THEN 1 ELSE 0)]
  <2>1. DOMAIN seen = SeenFields
    BY DEF BrainInv
  <2>2. DOMAIN seen' = SeenFields
    BY <2>1 DEF do_POST, SeenFields
  <2>3. seen'.n = seen.n + 1
    BY <2>1 DEF do_POST, SeenFields
  <2>4. seen'.signed = seen.signed \cup {<<r.sig.by, r.sig.claim>>} /\ seen'.attested = seen.attested \cup {r.ev}
    BY <2>1 DEF do_POST, SeenFields
  <2>5. seen'.open = seen.open \cup (IF Open(r) /\ r.path # "/write_signed" THEN {r.key} ELSE {})
    BY <2>1 DEF do_POST, SeenFields
  <2>6. seen'.sent = [p \in Signer |-> seen.sent[p] + (IF r.sig.by = p THEN 1 ELSE 0)]
    BY <2>1 DEF do_POST, SeenFields
  <2> QED
    BY <2>2, <2>3, <2>4, <2>5, <2>6
<1>2. inbox' = inbox \cup {m} /\ UNCHANGED <<brain, rep>>
  BY DEF do_POST
<1>3. seen.n \in Nat /\ seen.sent \in [Signer -> Nat] /\ DOMAIN brain = Key /\ DOMAIN rep = Signer
      /\ IsFiniteSet(inbox)
  BY DEF BrainInv
<1>4. seen'.n \in Nat /\ seen'.sent \in [Signer -> Nat]
  BY <1>1, <1>3
<1>5. \A k \in Key : Fair(k, brain[k])'
  BY <1>1, <1>2 DEF BrainInv, Fair, FairBelief, Signed, Attested
<1>6. (ToolKey \in Key \ seen.open => brain[ToolKey] = Skill)'
  BY <1>1, <1>2 DEF BrainInv, Skill, Belief
<1>7. m.r = r /\ m.n = seen.n
  OBVIOUS
<1> HIDE DEF m
<1>8. r.path \in Mutating => r.key \in seen'.open
  BY <1>1, AdmittedUnsignedIsOpen DEF do_POST, Mutating
<1>9. ASSUME NEW x \in inbox' PROVE Received(x)'
  <2>1. CASE x = m
    BY <1>1, <1>3, <1>7, <1>8, <2>1, RequestsAreSane DEF Received
  <2>2. CASE x \in inbox
    BY <1>1, <1>3, <2>2 DEF Received, BrainInv
  <2> QED
    BY <1>2, <2>1, <2>2
<1>10. m \notin inbox
  <2>1. \A x \in inbox : x.n < seen.n
    BY DEF BrainInv, Received
  <2> QED
    BY <1>3, <1>7, <2>1
<1>11. IsFiniteSet(inbox')
  BY <1>2, <1>3, FS_AddElement
<1>12. ASSUME NEW p \in Signer, "rep" \notin seen'.open
       PROVE  /\ rep'[p].ok \in Nat /\ rep'[p].total \in Nat /\ rep'[p].ok <= rep'[p].total
              /\ rep'[p].total + Cardinality(From(p)') <= seen'.sent[p]
  <2>1. /\ rep[p].ok \in Nat /\ rep[p].total \in Nat /\ rep[p].ok <= rep[p].total
        /\ rep[p].total + Cardinality(From(p)) <= seen.sent[p]
    BY <1>1, <1>12 DEF BrainInv
  <2>2. From(p) \in SUBSET inbox /\ m \notin From(p)
    BY <1>10 DEF From
  <2>3. IsFiniteSet(From(p)) /\ Cardinality(From(p)) \in Nat
    BY <1>3, <2>2, FS_Subset, FS_CardinalityType
  <2>4. CASE r.sig.by = p
    <3>1. From(p)' = From(p) \cup {m}
      BY <1>2, <1>7, <2>4 DEF From
    <3>2. Cardinality(From(p) \cup {m}) = Cardinality(From(p)) + 1
      BY <2>2, <2>3, FS_AddElement
    <3>3. seen'.sent[p] = seen.sent[p] + 1 /\ seen.sent[p] \in Nat
      BY <1>1, <1>3, <2>4
    <3> QED
      BY <1>2, <2>1, <2>3, <3>1, <3>2, <3>3
  <2>5. CASE r.sig.by # p
    <3>1. From(p)' = From(p)
      BY <1>2, <1>7, <2>5 DEF From
    <3>2. seen'.sent[p] = seen.sent[p]
      BY <1>1, <1>3, <2>5
    <3> QED
      BY <1>2, <2>1, <3>1, <3>2
  <2> QED
    BY <2>4, <2>5
<1> QED
  BY <1>1, <1>2, <1>3, <1>4, <1>5, <1>6, <1>9, <1>11, <1>12 DEF BrainInv

\* What the ledger operations leave alone.
LEMMA WithLedgerKeeps ==
  ASSUME NEW r, NEW s
  PROVE  /\ DOMAIN WithLedger(r, s) = DOMAIN r
         /\ \A f \in DOMAIN r \ {"ledger", "sat"} : WithLedger(r, s)[f] = r[f]
BY DEF WithLedger

LEMMA SupersedeKeeps ==
  ASSUME NEW old, NEW new
  PROVE  /\ DOMAIN supersede_detail(old, new) = DOMAIN new
         /\ \A f \in DOMAIN new \ {"ledger", "sat", "sup"} : supersede_detail(old, new)[f] = new[f]
<1> DEFINE base == [new EXCEPT !.sup = 1, !.sat = @ \/ old.sat]
           l == IF old.trust = "rejected" THEN Noted(old.ledger, Canon[old.text]) ELSE old.ledger
<1>1. supersede_detail(old, new) = WithLedger(base, l)
  BY DEF supersede_detail
<1>2. DOMAIN base = DOMAIN new /\ \A f \in DOMAIN new \ {"sat", "sup"} : base[f] = new[f]
  OBVIOUS
<1> HIDE DEF base, l
<1> QED
  BY <1>1, <1>2, WithLedgerKeeps

LEMMA RejectionKeeps ==
  ASSUME NEW r
  PROVE  /\ DOMAIN record_rejection(r) = DOMAIN r
         /\ \A f \in DOMAIN r \ {"ledger", "sat"} : record_rejection(r)[f] = r[f]
BY WithLedgerKeeps DEF record_rejection

LEMMA GuardKeeps ==
  ASSUME NEW old, NEW new
  PROVE  /\ DOMAIN guard_replica(old, new) = DOMAIN new
         /\ \A f \in DOMAIN new \ {"ledger", "sat", "trust"} : guard_replica(old, new)[f] = new[f]
<1> DEFINE merged == IF old = NoRec THEN new
                     ELSE WithLedger([new EXCEPT !.sat = @ \/ old.sat], AllNoted(old.ledger, new.ledger))
<1>1. DOMAIN merged = DOMAIN new /\ \A f \in DOMAIN new \ {"ledger", "sat"} : merged[f] = new[f]
  BY WithLedgerKeeps
<1>2. guard_replica(old, new) \in {merged, [merged EXCEPT !.trust = "rejected"], [merged EXCEPT !.trust = "candidate"]}
  BY DEF guard_replica
<1> HIDE DEF merged
<1> QED
  BY <1>1, <1>2

\* A write that only its signer can be said to have made, and that claims nothing.
LEMMA MergedIsFair ==
  ASSUME NEW k, NEW old, Fair(k, old), NEW new, DOMAIN new = Fields, new.trust # "verified",
         k \notin seen.open => (new.author \in Signer => Signed(new.author, k, new.text))
  PROVE  FairBelief(k, Merged(old, new)) /\ SameText(Merged(old, new).text, new.text)
<1>1. CASE old = NoRec
  BY <1>1 DEF Merged, Fair, FairBelief, SameText
<1>2. CASE old # NoRec /\ ~SameText(old.text, new.text)
  <2>1. Merged(old, new) = supersede_detail(old, new)
    BY <1>2 DEF Merged
  <2>2. {"author", "text", "trust"} \subseteq DOMAIN new \ {"ledger", "sat", "sup"}
    BY DEF Fields
  <2> QED
    BY <2>1, <2>2, SupersedeKeeps DEF Fair, FairBelief, SameText
<1>3. CASE old # NoRec /\ SameText(old.text, new.text) /\ old.trust = "rejected"
  BY <1>3 DEF Merged, Fair
<1>4. CASE old # NoRec /\ SameText(old.text, new.text) /\ old.trust # "rejected"
  <2> DEFINE r == [old EXCEPT !.author = new.author, !.sup = Least(@ + 1, MaxSupport)]
  <2>1. Merged(old, new) = r
    BY <1>4 DEF Merged
  <2>2. DOMAIN old = Fields
    BY <1>4 DEF Fair, FairBelief
  <2>3. DOMAIN r = Fields /\ r.author = new.author /\ r.text = old.text /\ r.trust = old.trust
    BY <2>2 DEF Fields
  <2> HIDE DEF r
  <2>4. k \notin seen.open => (new.author \in Signer => Signed(new.author, k, old.text))
    BY <1>4 DEF Signed, SameText
  <2> QED
    BY <1>4, <2>1, <2>3, <2>4 DEF Fair, FairBelief
<1> QED
  BY <1>1, <1>2, <1>3, <1>4

\* A request that is served: what is left to show.
LEMMA ServedKeeps ==
  ASSUME BrainInv, NEW m \in inbox, inbox' = inbox \ {m}, seen' = seen, DOMAIN brain' = Key, DOMAIN rep' = Signer,
         \A k \in Key : Fair(k, brain'[k]),
         ToolKey \in Key \ seen.open => brain'[ToolKey] = Skill,
         "rep" \notin seen.open =>
           \A p \in Signer : \/ rep'[p] = rep[p]
                             \/ /\ m.r.sig.by = p /\ rep'[p].total = rep[p].total + 1
                                /\ rep'[p].ok \in {rep[p].ok, rep[p].ok + 1}
  PROVE  BrainInv'
<1>1. IsFiniteSet(inbox') /\ \A x \in inbox' : Received(x)'
  <2>1. IsFiniteSet(inbox) /\ inbox' \in SUBSET inbox /\ \A x \in inbox : Received(x)
    BY DEF BrainInv
  <2> QED
    BY <2>1, FS_Subset DEF Received
<1>2. ASSUME NEW p \in Signer, "rep" \notin seen.open
      PROVE  /\ rep'[p].ok \in Nat /\ rep'[p].total \in Nat /\ rep'[p].ok <= rep'[p].total
             /\ rep'[p].total + Cardinality(From(p)') <= seen.sent[p]
  <2>1. /\ rep[p].ok \in Nat /\ rep[p].total \in Nat /\ rep[p].ok <= rep[p].total
        /\ rep[p].total + Cardinality(From(p)) <= seen.sent[p] /\ seen.sent[p] \in Nat
    BY <1>2 DEF BrainInv
  <2>2. From(p)' = From(p) \ {m} /\ From(p) \in SUBSET inbox /\ IsFiniteSet(inbox)
    BY DEF From, BrainInv
  <2>3. IsFiniteSet(From(p)) /\ Cardinality(From(p)) \in Nat
    BY <2>2, FS_Subset, FS_CardinalityType
  <2>4. Cardinality(From(p) \ {m}) = IF m \in From(p) THEN Cardinality(From(p)) - 1 ELSE Cardinality(From(p))
    BY <2>3, FS_RemoveElement
  <2>5. Cardinality(From(p) \ {m}) \in Nat
    BY <2>3, FS_RemoveElement, FS_CardinalityType
  <2>6. m.r.sig.by = p => m \in From(p)
    BY DEF From
  <2>7. CASE rep'[p] = rep[p]
    BY <2>1, <2>2, <2>3, <2>4, <2>5, <2>7
  <2>8. CASE m.r.sig.by = p /\ rep'[p].total = rep[p].total + 1 /\ rep'[p].ok \in {rep[p].ok, rep[p].ok + 1}
    BY <2>1, <2>2, <2>3, <2>4, <2>6, <2>8
  <2> QED
    BY <1>2, <2>7, <2>8
<1>3. \A k \in Key : Fair(k, brain[k])'
  BY DEF Fair, FairBelief, Signed, Attested
<1>4. (ToolKey \in Key \ seen.open => brain[ToolKey] = Skill)'
  BY DEF Skill, Belief
<1> QED
  BY <1>1, <1>2, <1>3, <1>4 DEF BrainInv

LEMMA PromoteKeeps ==
  ASSUME NEW r
  PROVE  /\ DOMAIN promote(r) = DOMAIN r /\ \A f \in DOMAIN r \ {"trust"} : promote(r)[f] = r[f]
BY DEF promote

LEMMA SunkKeeps ==
  ASSUME NEW r
  PROVE  DOMAIN Sunk(r) = DOMAIN r
BY RejectionKeeps DEF Sunk

LEMMA SignedKeeps ==
  ASSUME BrainInv, NEW m \in inbox, m.r.path = "/write_signed", _dispatch(m)
  PROVE  BrainInv'
<1> DEFINE r == m.r
<1>1. inbox' = inbox \ {m} /\ seen' = seen /\ authenticated_remember(r)
  BY DEF _dispatch
<1>2. DOMAIN brain = Key /\ DOMAIN rep = Signer /\ \A k \in Key : Fair(k, brain[k])
  BY DEF BrainInv
<1>3. CASE UNCHANGED <<brain, rep>>
  BY <1>1, <1>2, <1>3, ServedKeeps DEF BrainInv
<1>4. CASE verify_write(r) /\ ~Conflicts(brain[r.key], r.keyid) /\ import_belief(r, r.keyid)
  <2> DEFINE p == r.keyid
             new == Belief(r.text, p, "fact", "candidate", 1)
             rec0 == Merged(brain[r.key], new)
             rec1 == IF verify_fact_attestation(r) THEN promote(rec0) ELSE rec0
  <2>1. r.sig.by = p /\ r.sig.claim = <<r.key, r.text>>
    BY <1>4 DEF verify_write
  <2>2. <<p, <<r.key, r.text>>>> \in seen.signed /\ r.ev \in seen.attested /\ r.text \in Text
    BY <2>1 DEF BrainInv, Received
  <2>3. DOMAIN new = Fields /\ new.trust = "candidate" /\ new.author = p /\ new.text = r.text
    BY DEF Belief, Fields
  <2>4. brain' = [brain EXCEPT ![r.key] = rec1] /\ rep' = [rep EXCEPT ![p] = Recorded(p, verify_fact_attestation(r))]
    BY <1>4 DEF import_belief
  <2>5. DOMAIN brain' = Key /\ DOMAIN rep' = Signer
        /\ (\A k \in Key \ {r.key} : brain'[k] = brain[k]) /\ (r.key \in Key => brain'[r.key] = rec1)
        /\ (\A q \in Signer \ {p} : rep'[q] = rep[q])
        /\ (p \in Signer => rep'[p] = Recorded(p, verify_fact_attestation(r)))
    BY <1>2, <2>4
  <2> HIDE DEF new
  <2>6. ASSUME r.key \in Key PROVE Fair(r.key, rec1)
    <3>0. Signed(p, r.key, r.text)
      BY <2>2 DEF Signed, SameText
    <3>1. FairBelief(r.key, rec0) /\ SameText(rec0.text, r.text)
      BY <1>2, <2>3, <2>6, <3>0, MergedIsFair
    <3> HIDE DEF rec0
    <3>2. CASE ~verify_fact_attestation(r)
      BY <3>1, <3>2 DEF Fair
    <3>3. CASE verify_fact_attestation(r)
      <4>1. Attested(rec0.text)
        BY <2>2, <3>1, <3>3 DEF verify_fact_attestation, Attested, SameText
      <4>2. rec1 = promote(rec0) /\ DOMAIN rec1 = Fields /\ rec1.author = rec0.author /\ rec1.text = rec0.text
        BY <3>1, <3>3, PromoteKeeps DEF FairBelief, Fields
      <4> HIDE DEF rec1
      <4> QED
        BY <3>1, <4>1, <4>2 DEF Fair, FairBelief
    <3> QED
      BY <3>2, <3>3
  <2> HIDE DEF rec1
  <2>7. \A k \in Key : Fair(k, brain'[k])
    BY <1>2, <2>5, <2>6
  <2>8. ToolKey \in Key \ seen.open => brain'[ToolKey] = Skill
    <3>1. ToolKey \in Key \ seen.open => brain[ToolKey] = Skill /\ Skill # NoRec /\ Skill.kind = "skill"
      BY NamesAreApart DEF BrainInv, Skill, Belief
    <3>2. ToolKey \in Key \ seen.open => r.key # ToolKey
      BY <1>4, <3>1 DEF Conflicts
    <3> QED
      BY <2>5, <3>1, <3>2
  <2>9. ASSUME "rep" \notin seen.open, NEW q \in Signer
        PROVE  \/ rep'[q] = rep[q]
               \/ /\ m.r.sig.by = q /\ rep'[q].total = rep[q].total + 1 /\ rep'[q].ok \in {rep[q].ok, rep[q].ok + 1}
    <3>1. CASE q = p
      <4>1. rep[p].ok \in Nat
        BY <2>9, <3>1 DEF BrainInv
      <4>2. rep'[p].total = rep[p].total + 1
            /\ rep'[p].ok = rep[p].ok + (IF verify_fact_attestation(r) THEN 1 ELSE 0)
        BY <2>5, <3>1 DEF Recorded
      <4> QED
        BY <2>1, <3>1, <4>1, <4>2
    <3>2. CASE q # p
      BY <2>5, <3>2
    <3> QED
      BY <3>1, <3>2
  <2> QED
    BY <1>1, <2>5, <2>7, <2>8, <2>9, ServedKeeps
<1> QED
  BY <1>1, <1>3, <1>4 DEF authenticated_remember

\* The other requests touch what is open, with records of the right shape.
LEMMA UnsignedKeeps ==
  ASSUME BrainInv, NEW m \in inbox, m.r.path # "/write_signed", _dispatch(m)
  PROVE  BrainInv'
<1> DEFINE r == m.r
<1>1. inbox' = inbox \ {m} /\ seen' = seen
  BY DEF _dispatch
<1>2. /\ DOMAIN brain = Key /\ DOMAIN rep = Signer
      /\ \A k \in Key : Fair(k, brain[k])
      /\ (r.path \in Mutating => r.key \in seen.open) /\ r \in Requests
      /\ (ToolKey \in Key \ seen.open => brain[ToolKey] = Skill)
  BY DEF BrainInv, Received
<1>3. CASE r.path = "/annotate"
  <2>1. UNCHANGED brain /\ rep' = [p \in Signer |-> [ok |-> 1, total |-> 1]] /\ r.key = "rep"
    BY <1>2, <1>3, RequestsAreSane DEF _dispatch
  <2>2. "rep" \in seen.open /\ DOMAIN rep' = Signer
    BY <1>2, <1>3, <2>1 DEF Mutating
  <2> QED
    BY <1>1, <1>2, <2>1, <2>2, ServedKeeps
<1>4. CASE UNCHANGED <<brain, rep>>
  BY <1>1, <1>2, <1>4, ServedKeeps
<1>5. ASSUME NEW e, brain' = [brain EXCEPT ![r.key] = e], UNCHANGED rep, r.path \in Mutating,
             r.key \in Key => e = NoRec \/ DOMAIN e = Fields
      PROVE  BrainInv'
  <2>1. DOMAIN brain' = Key /\ (\A k \in Key \ {r.key} : brain'[k] = brain[k]) /\ (r.key \in Key => brain'[r.key] = e)
    BY <1>2, <1>5
  <2>2. r.key \in seen.open
    BY <1>2, <1>5
  <2>3. \A k \in Key : Fair(k, brain'[k])
    BY <1>2, <1>5, <2>1, <2>2 DEF Fair, FairBelief
  <2>4. ToolKey \in Key \ seen.open => brain'[ToolKey] = Skill
    BY <1>2, <2>1, <2>2
  <2> QED
    BY <1>1, <1>2, <1>5, <2>1, <2>3, <2>4, ServedKeeps
<1>6. CASE r.path \in {"/write", "/apply"}
  <2> DEFINE new == Belief(r.text, r.author, r.kind, r.trust, 1)
             old == brain[r.key]
  <2>1. DOMAIN new = Fields
    BY DEF Belief, Fields
  <2> HIDE DEF new
  <2>2. DOMAIN guard_replica(old, new) = Fields
    BY <2>1, GuardKeeps
  <2>3. ASSUME r.key \in Key PROVE DOMAIN Merged(old, new) = Fields
    <3>1. old # NoRec => DOMAIN old = Fields
      BY <1>2, <2>3 DEF Fair, FairBelief
    <3> QED
      BY <2>1, <3>1, SupersedeKeeps DEF Merged
  <2>4. r.path \in Mutating
    BY <1>6 DEF Mutating
  <2>5. UNCHANGED rep /\ (brain' = [brain EXCEPT ![r.key] = Merged(old, new)]
                          \/ brain' = [brain EXCEPT ![r.key] = guard_replica(old, new)])
    BY <1>6 DEF _dispatch, new
  <2> QED
    BY <1>5, <2>2, <2>3, <2>4, <2>5
<1>7. CASE r.path \in {"/promote", "/contradict"}
  <2> DEFINE old == brain[r.key]
             e == IF old = NoRec THEN NoRec ELSE IF r.path = "/promote" THEN promote(old) ELSE Sunk(old)
  <2>1. UNCHANGED rep /\ brain' = [brain EXCEPT ![r.key] = e]
    BY <1>7 DEF _dispatch, OnBelief
  <2>2. r.path \in Mutating
    BY <1>7 DEF Mutating
  <2>3. r.key \in Key => e = NoRec \/ DOMAIN e = Fields
    <3>1. r.key \in Key => (old # NoRec => DOMAIN old = Fields)
      BY <1>2 DEF Fair, FairBelief
    <3> QED
      BY <3>1, PromoteKeeps, SunkKeeps
  <2> HIDE DEF e
  <2> QED
    BY <1>5, <2>1, <2>2, <2>3
<1> QED
  BY <1>3, <1>4, <1>6, <1>7 DEF _dispatch

LEMMA GraduateKeeps ==
  ASSUME BrainInv, graduate_write
  PROVE  BrainInv'
<1>1. PICK t \in plan : brain' = [brain EXCEPT ![Parent] = Merged(@, Graduated(t))] /\ UNCHANGED <<rep, inbox, seen>>
  BY DEF graduate_write
<1> DEFINE new == Graduated(t)
           rec0 == Merged(brain[Parent], new)
<1>2. DOMAIN new = Fields /\ new.trust = "candidate" /\ new.author \notin Signer
  BY NamesAreApart DEF Graduated, Belief, Fields
<1> HIDE DEF new
<1>3. DOMAIN brain = Key /\ \A k \in Key : Fair(k, brain[k])
  BY DEF BrainInv
<1>4. Parent \in Key => FairBelief(Parent, rec0)
  BY <1>2, <1>3, MergedIsFair
<1>5. DOMAIN brain' = Key /\ (\A k \in Key \ {Parent} : brain'[k] = brain[k]) /\ (Parent \in Key => brain'[Parent] = rec0)
  BY <1>1, <1>3 DEF new
<1> HIDE DEF rec0
<1>6. \A k \in Key : Fair(k, brain'[k])
  BY <1>3, <1>4, <1>5 DEF Fair
<1>7. (\A k \in Key : Fair(k, brain[k]))' /\ (\A m \in inbox : Received(m))'
  BY <1>1, <1>6 DEF Fair, FairBelief, Signed, Attested, Received, BrainInv
<1>8. (ToolKey \in Key \ seen.open => brain[ToolKey] = Skill)'
  BY <1>1, <1>5, NamesAreApart DEF BrainInv, Skill, Belief
<1> QED
  BY <1>1, <1>5, <1>7, <1>8 DEF BrainInv, From

LEMMA BrainStep == BrainInv /\ [BrainNext]_brainVars => BrainInv'
<1> SUFFICES ASSUME BrainInv, [BrainNext]_brainVars PROVE BrainInv'
  OBVIOUS
<1>1. CASE \E r \in Requests : do_POST(r)
  BY <1>1, PostKeeps
<1>2. CASE UNCHANGED <<brain, rep, inbox, seen>>
  BY <1>2 DEF BrainInv, Fair, FairBelief, Signed, Attested, Received, From, Skill, Belief
<1>3. CASE \E m \in inbox : _dispatch(m)
  BY <1>3, SignedKeeps, UnsignedKeeps
<1>4. CASE graduate_write
  BY <1>4, GraduateKeeps
<1> QED
  BY <1>1, <1>2, <1>3, <1>4 DEF BrainNext, brainVars, enroll, graduate_read

\* A shared store forges nothing, for any principals, scopes, requests and servers:
\* whatever is enrolled, sent, served late and graduated.
THEOREM NothingIsForged == BrainSpec => []NothingForged
<1>1. BrainInv => NothingForged
  <2> SUFFICES ASSUME BrainInv PROVE NothingForged
    OBVIOUS
  <2>1. \A k \in Key \ seen.open : brain[k] # NoRec =>
           /\ brain[k].author \in Signer => Signed(brain[k].author, k, brain[k].text)
           /\ brain[k].trust = "verified" => Attested(brain[k].text)
           /\ k = ToolKey => brain[k] = Skill
    BY DEF BrainInv, Fair, FairBelief
  <2>2. ASSUME "rep" \notin seen.open, NEW p \in Signer
        PROVE  rep[p].total <= seen.sent[p] /\ rep[p].ok <= rep[p].total
    <3>1. /\ rep[p].ok \in Nat /\ rep[p].total \in Nat /\ rep[p].ok <= rep[p].total
          /\ rep[p].total + Cardinality(From(p)) <= seen.sent[p] /\ seen.sent[p] \in Nat
      BY <2>2 DEF BrainInv
    <3>2. From(p) \in SUBSET inbox /\ IsFiniteSet(inbox)
      BY DEF From, BrainInv
    <3>3. Cardinality(From(p)) \in Nat
      BY <3>2, FS_Subset, FS_CardinalityType
    <3> QED
      BY <3>1, <3>3
  <2> QED
    BY <2>1, <2>2 DEF NothingForged
<1> QED
  BY BrainStart, BrainStep, <1>1, PTL DEF BrainSpec

-----------------------------------------------------------------------------
(* The ledger of rejected values: what it takes in it holds, until it is   *)
(* full, and then the key is saturated for good.                           *)

IsLog(q) == q \in Seq({q[i] : i \in DOMAIN q})

LEMMA EmptyIsLog == IsLog(<<>>)
BY DEF IsLog

LEMMA OneIsLog ==
  ASSUME NEW v
  PROVE  IsLog(<<v>>) /\ ToSet(<<v>>) = {v}
BY DEF IsLog, ToSet

LEMMA AppendToLog ==
  ASSUME NEW q, IsLog(q), NEW e
  PROVE  /\ IsLog(Append(q, e)) /\ Len(q) \in Nat /\ Len(Append(q, e)) = Len(q) + 1
         /\ DOMAIN q = 1..Len(q) /\ DOMAIN Append(q, e) = 1..(Len(q) + 1)
         /\ Append(q, e)[Len(q) + 1] = e /\ \A i \in 1..Len(q) : Append(q, e)[i] = q[i]
         /\ ToSet(Append(q, e)) = ToSet(q) \cup {e}
<1> DEFINE S == {q[i] : i \in DOMAIN q} \cup {e}
           new == Append(q, e)
<1>1. q \in Seq(S)
  BY DEF IsLog
<1>2. new \in Seq(S) /\ Len(new) = Len(q) + 1 /\ Len(q) \in Nat
  BY <1>1
<1>3. DOMAIN q = 1..Len(q) /\ DOMAIN new = 1..(Len(q) + 1)
  BY <1>1, <1>2
<1>4. new[Len(q) + 1] = e /\ \A i \in 1..Len(q) : new[i] = q[i]
  BY <1>1
<1> HIDE DEF new
<1>5. new \in Seq({new[i] : i \in DOMAIN new})
  BY <1>2, <1>3
<1>6. ToSet(new) = ToSet(q) \cup {e}
  BY <1>2, <1>3, <1>4 DEF ToSet
<1> QED
  BY <1>2, <1>3, <1>4, <1>5, <1>6 DEF IsLog, new

LEMMA LeastNatural ==
  ASSUME NEW S \in SUBSET Nat, S # {}
  PROVE  \E least \in S : \A n \in S : least <= n
<1> DEFINE R == OpToRel(<, Nat)
<1>1. IsWellFoundedOn(R, Nat)
  BY NatLessThanWellFounded
<1>2. \A m, n \in Nat : m < n => <<m, n>> \in R
  BY DEF OpToRel
<1> HIDE DEF R
<1>3. PICK least \in S : \A n \in S : ~(<<n, least>> \in R)
  BY <1>1, WFMin
<1>4. ASSUME NEW n \in S PROVE least <= n
  <2>1. ~(n < least)
    BY <1>2, <1>3
  <2> QED
    BY <2>1
<1> QED
  BY <1>4

LEMMA NotedHolds ==
  ASSUME NEW s, IsLog(s), NEW v
  PROVE  IsLog(Noted(s, v)) /\ ToSet(Noted(s, v)) = ToSet(s) \cup {v}
<1>1. CASE v \in ToSet(s)
  BY <1>1 DEF Noted
<1>2. CASE v \notin ToSet(s)
  BY <1>2, AppendToLog DEF Noted
<1> QED
  BY <1>1, <1>2

\* The recursion of AllNoted has its unique result: by the least counterexample.
IsUpTo(f, s, q, n) == f = [i \in 0..n |-> IF i = 0 THEN s ELSE Noted(f[i - 1], q[i])]

LEMMA UpToExists ==
  ASSUME NEW s, NEW q, NEW n \in Nat
  PROVE  \E f : IsUpTo(f, s, q, n)
<1> DEFINE Missing == {k \in Nat : ~\E f : IsUpTo(f, s, q, k)}
<1> SUFFICES ASSUME Missing # {} PROVE FALSE
  OBVIOUS
<1>1. PICK k \in Missing : \A j \in Missing : k <= j
  BY LeastNatural
<1>2. CASE k = 0
  <2>1. IsUpTo([i \in 0..0 |-> s], s, q, 0)
    BY DEF IsUpTo
  <2> QED
    BY <1>1, <1>2, <2>1
<1>3. CASE k # 0
  <2>1. k - 1 \in Nat /\ k - 1 \notin Missing
    BY <1>1, <1>3
  <2>2. PICK f : IsUpTo(f, s, q, k - 1)
    BY <2>1
  <2> DEFINE g == [i \in 0..k |-> IF i = k THEN Noted(f[k - 1], q[k]) ELSE f[i]]
             h == [i \in 0..k |-> IF i = 0 THEN s ELSE Noted(g[i - 1], q[i])]
  <2>3. \A i \in 0..(k - 1) : f[i] = IF i = 0 THEN s ELSE Noted(f[i - 1], q[i])
    BY <2>2 DEF IsUpTo
  <2>4. ASSUME NEW i \in 0..k PROVE g[i] = h[i]
    <3>1. CASE i = 0
      BY <1>3, <2>1, <2>3, <3>1
    <3>2. CASE i # 0
      <4>1. i - 1 \in 0..k /\ i - 1 # k
        BY <1>1, <3>2
      <4>2. g[i - 1] = f[i - 1]
        BY <4>1
      <4>3. i # k => i \in 0..(k - 1)
        BY <1>1
      <4> QED
        BY <2>3, <3>2, <4>2, <4>3
    <3> QED
      BY <3>1, <3>2
  <2>5. g = h
    BY <2>4
  <2>6. IsUpTo(g, s, q, k)
    BY <2>5 DEF IsUpTo
  <2> QED
    BY <1>1, <2>6
<1> QED
  BY <1>2, <1>3

LEMMA AllNotedHolds ==
  ASSUME NEW s, IsLog(s), NEW q, IsLog(q)
  PROVE  IsLog(AllNoted(s, q)) /\ ToSet(AllNoted(s, q)) = ToSet(s) \cup ToSet(q)
<1> DEFINE f == CHOOSE g : IsUpTo(g, s, q, Len(q))
<1>1. Len(q) \in Nat /\ DOMAIN q = 1..Len(q)
  BY DEF IsLog
<1>2. AllNoted(s, q) = f[Len(q)]
  BY DEF AllNoted, IsUpTo
<1>3. IsUpTo(f, s, q, Len(q))
  BY <1>1, UpToExists
<1> HIDE DEF f
<1>4. \A i \in 0..Len(q) : f[i] = IF i = 0 THEN s ELSE Noted(f[i - 1], q[i])
  BY <1>3 DEF IsUpTo
<1> DEFINE Right(i) == IsLog(f[i]) /\ ToSet(s) \subseteq ToSet(f[i]) /\ (\A j \in 1..i : q[j] \in ToSet(f[i]))
                    /\ ToSet(f[i]) \subseteq ToSet(s) \cup ToSet(q)
           Wrong == {i \in 0..Len(q) : ~Right(i)}
<1>5. Wrong = {}
  <2> SUFFICES ASSUME Wrong # {} PROVE FALSE
    OBVIOUS
  <2>1. PICK i \in Wrong : \A j \in Wrong : i <= j
    <3>1. Wrong \in SUBSET Nat
      BY <1>1
    <3> QED
      BY <3>1, LeastNatural
  <2>2. i # 0
    BY <1>1, <1>4, <2>1
  <2>3. i - 1 \in 0..Len(q) /\ i \in 0..Len(q) /\ Right(i - 1)
    BY <1>1, <2>1, <2>2
  <2>4. f[i] = Noted(f[i - 1], q[i])
    BY <1>4, <2>2, <2>3
  <2>5. IsLog(f[i]) /\ ToSet(f[i]) = ToSet(f[i - 1]) \cup {q[i]}
    BY <2>3, <2>4, NotedHolds
  <2>6. \A j \in 1..i : j = i \/ j \in 1..(i - 1)
    BY <1>1, <2>3
  <2>7. q[i] \in ToSet(q)
    BY <1>1, <2>2, <2>3 DEF ToSet
  <2>8. Right(i)
    BY <2>3, <2>5, <2>6, <2>7
  <2> QED
    BY <2>1, <2>8
<1>6. Right(Len(q))
  BY <1>1, <1>5
<1>7. ToSet(q) \subseteq ToSet(f[Len(q)])
  <2>1. \A e \in ToSet(q) : \E j \in 1..Len(q) : q[j] = e
    BY <1>1 DEF ToSet
  <2> QED
    BY <1>6, <2>1
<1> QED
  BY <1>2, <1>6, <1>7

LEMMA LogOfSeq ==
  ASSUME NEW S, NEW q \in Seq(S)
  PROVE  IsLog(q) /\ ToSet(q) \subseteq S
BY DEF IsLog, ToSet

\* The newest entries of a ledger or a chain.
LEMMA NewestKeeps ==
  ASSUME NEW S, NEW q \in Seq(S), NEW n \in Nat \ {0}
  PROVE  /\ Newest(q, n) \in Seq(S)
         /\ \A i \in DOMAIN Newest(q, n) : \E j \in DOMAIN q : Newest(q, n)[i] = q[j]
<1>1. CASE ~(Len(q) > n)
  BY <1>1 DEF Newest
<1>2. CASE Len(q) > n
  <2> DEFINE d == Len(q) - n
             new == SubSeq(q, d + 1, Len(q))
  <2>1. d \in Nat /\ d + 1 \in 1..Len(q) /\ Len(q) \in Nat
    BY <1>2
  <2>2. Newest(q, n) = new
    BY <1>2 DEF Newest
  <2>3. new \in Seq(S) /\ DOMAIN new = 1..(Len(q) - d) /\ \A i \in 1..(Len(q) - d) : new[i] = q[d + i]
    BY <2>1, SMTT(60)
  <2>4. \A i \in 1..(Len(q) - d) : d + i \in DOMAIN q
    BY <2>1
  <2> HIDE DEF new, d
  <2> QED
    BY <2>2, <2>3, <2>4
<1> QED
  BY <1>1, <1>2

\* What a ledger held and is given is in it, or the key is saturated.
LEMMA WithLedgerHolds ==
  ASSUME NEW r, {"ledger", "sat"} \subseteq DOMAIN r, NEW s, IsLog(s)
  PROVE  /\ IsLog(WithLedger(r, s).ledger)
         /\ ~WithLedger(r, s).sat => ~r.sat /\ WithLedger(r, s).ledger = s
<1> DEFINE c == _cap_ledger(s)
<1>1. Len(s) \in Nat
  BY DEF IsLog
<1>2. IsLog(c.ledger) /\ (~c.sat => c.ledger = s)
  <2>1. s \in Seq({s[i] : i \in DOMAIN s})
    BY DEF IsLog
  <2>2. IsLog(Newest(s, MaxLedger))
    BY <2>1, NewestKeeps, LogOfSeq, LimitsAreNumbers
  <2> QED
    BY <2>2 DEF _cap_ledger, Newest
<1> HIDE DEF c
<1>3. WithLedger(r, s) = [r EXCEPT !.ledger = c.ledger, !.sat = @ \/ c.sat]
  BY DEF WithLedger, c
<1>4. WithLedger(r, s).ledger = c.ledger
  BY <1>3
<1>5. ~WithLedger(r, s).sat => ~r.sat /\ ~c.sat
  BY <1>3
<1> QED
  BY <1>2, <1>4, <1>5

LEMMA SeqOfLog ==
  ASSUME NEW S, NEW q, IsLog(q), ToSet(q) \subseteq S
  PROVE  q \in Seq(S)
BY DEF IsLog, ToSet

-----------------------------------------------------------------------------
(* What a store answers about the past.  A rejected value is in the ledger *)
(* of the key's record or the key is saturated, through supersession and   *)
(* replication; and a history whose times nobody stated is a partition of  *)
(* the clock into what the key said, the chain holding the beginnings.     *)

PastFields == {"rec", "now", "was", "bad", "stated", "writes", "rejections", "replicas"}
Covers(was, text, from, to) == \A t \in from..to : was[t] = text
CutsTo(was, text, from, to) == \A t \in from..to : Cut[was[t]] = text
Unstated(r, now, was) ==
  /\ r.vt = 0 /\ 1 <= r.vf /\ r.vf <= now /\ Covers(was, r.text, r.vf, now)
  /\ \A i \in DOMAIN r.chain : /\ 1 <= r.chain[i].vf /\ r.chain[i].vt <= now
                               /\ CutsTo(was, r.chain[i].text, r.chain[i].vf, r.chain[i].vt - 1)
Remembers(r, bad) == r.sat \/ bad \subseteq ToSet(r.ledger)
PastInv ==
  /\ DOMAIN past = PastFields
  /\ past.now \in Nat \ {0} /\ past.was \in Seq(Text \cup {NoRec}) /\ Len(past.was) = past.now
  /\ past.rec = NoRec => past.bad = {}
  /\ past.rec # NoRec => /\ past.rec \in History /\ Remembers(past.rec, past.bad)
                         /\ past.stated \/ Unstated(past.rec, past.now, past.was)

\* The records of a store, of whatever further fields.
IsRecords(R) ==
  \A r \in R :
    /\ {"text", "trust", "sup", "ledger", "sat"} \subseteq DOMAIN r
    /\ r.text \in Text /\ r.ledger \in Seq(Value) /\ r.sat \in BOOLEAN
    /\ \A l \in Seq(Value), s \in BOOLEAN : [r EXCEPT !.ledger = l, !.sat = s] \in R
    /\ \A s \in BOOLEAN : [r EXCEPT !.sat = s] \in R /\ [r EXCEPT !.sup = 1, !.sat = s] \in R
    /\ \A t \in Trust : [r EXCEPT !.trust = t] \in R

LEMMA HistoryIsRecords == IsRecords(History)
BY ZenonT(60) DEF IsRecords, History

LEMMA LedgerTyped ==
  ASSUME NEW R, IsRecords(R), NEW r \in R, NEW s \in Seq(Value)
  PROVE  /\ WithLedger(r, s) \in R
         /\ ~WithLedger(r, s).sat => ~r.sat /\ WithLedger(r, s).ledger = s
<1> DEFINE c == _cap_ledger(s)
<1>1. Len(s) \in Nat
  OBVIOUS
<1>2. c.ledger \in Seq(Value) /\ c.sat \in BOOLEAN
  <2>1. Newest(s, MaxLedger) \in Seq(Value)
    BY NewestKeeps, LimitsAreNumbers
  <2> QED
    BY <1>1, <2>1, LimitsAreNumbers DEF _cap_ledger
<1> HIDE DEF c
<1> DEFINE sat == r.sat \/ c.sat
<1>3. {"ledger", "sat"} \subseteq DOMAIN r /\ sat \in BOOLEAN
  BY DEF IsRecords
<1>4. WithLedger(r, s) = [r EXCEPT !.ledger = c.ledger, !.sat = sat]
  BY DEF WithLedger, c
<1> HIDE DEF sat
<1>5. [r EXCEPT !.ledger = c.ledger, !.sat = sat] \in R
  BY <1>2, <1>3 DEF IsRecords
<1>6. IsLog(s)
  BY LogOfSeq
<1> QED
  BY <1>3, <1>4, <1>5, <1>6, WithLedgerHolds

LEMMA RejectionRemembers ==
  ASSUME NEW R, IsRecords(R), NEW r \in R, NEW bad, Remembers(r, bad)
  PROVE  LET new == record_rejection([r EXCEPT !.trust = "rejected"]) IN
         /\ new \in R /\ Remembers(new, bad \cup {Canon[r.text]})
         /\ DOMAIN new = DOMAIN r /\ \A f \in DOMAIN r \ {"ledger", "sat", "trust"} : new[f] = r[f]
<1> DEFINE r1 == [r EXCEPT !.trust = "rejected"]
           new == record_rejection(r1)
           s == Append(r1.ledger, Canon[r1.text])
<1>1. r1 \in R
  BY DEF IsRecords, Trust
<1>2. {"text", "trust", "ledger", "sat"} \subseteq DOMAIN r
  BY DEF IsRecords
<1>3. r1.text = r.text /\ r1.ledger = r.ledger /\ r1.sat = r.sat /\ DOMAIN r1 = DOMAIN r
      /\ \A f \in DOMAIN r \ {"trust"} : r1[f] = r[f]
  BY <1>2
<1> HIDE DEF r1
<1>4. r1.ledger \in Seq(Value) /\ Canon[r1.text] \in Value
  BY <1>1, RecordsAreSane DEF IsRecords
<1>5. DOMAIN new = DOMAIN r /\ \A f \in DOMAIN r \ {"ledger", "sat", "trust"} : new[f] = r[f]
  BY <1>3, RejectionKeeps
<1>6. CASE Canon[r1.text] \in ToSet(r1.ledger)
  <2>1. new = r1
    BY <1>6 DEF record_rejection
  <2> QED
    BY <1>1, <1>3, <1>5, <1>6, <2>1 DEF Remembers, r1
<1>7. CASE Canon[r1.text] \notin ToSet(r1.ledger)
  <2>1. new = WithLedger(r1, s)
    BY <1>7 DEF record_rejection
  <2>2. s \in Seq(Value) /\ IsLog(r1.ledger)
    BY <1>4, LogOfSeq
  <2>3. ToSet(s) = ToSet(r1.ledger) \cup {Canon[r1.text]}
    BY <2>2, AppendToLog
  <2> HIDE DEF s
  <2>4. WithLedger(r1, s) \in R /\ (~WithLedger(r1, s).sat => ~r1.sat /\ WithLedger(r1, s).ledger = s)
    BY <1>1, <2>2, LedgerTyped
  <2> QED
    BY <1>3, <1>5, <2>1, <2>3, <2>4 DEF Remembers, r1
<1> QED
  BY <1>6, <1>7

LEMMA SupersedeRemembers ==
  ASSUME NEW R, IsRecords(R), NEW old \in R, NEW new \in R, NEW bad, Remembers(old, bad)
  PROVE  supersede_detail(old, new) \in R /\ Remembers(supersede_detail(old, new), bad)
<1> DEFINE sat == new.sat \/ old.sat
           base == [new EXCEPT !.sup = 1, !.sat = sat]
           l == IF old.trust = "rejected" THEN Noted(old.ledger, Canon[old.text]) ELSE old.ledger
<1>1. supersede_detail(old, new) = WithLedger(base, l)
  BY DEF supersede_detail
<1>2. {"sup", "sat"} \subseteq DOMAIN new /\ sat \in BOOLEAN /\ (~sat => ~old.sat)
  BY DEF IsRecords
<1> HIDE DEF sat
<1>3. base \in R /\ base.sat = sat
  BY <1>2 DEF IsRecords
<1>4. old.ledger \in Seq(Value) /\ Canon[old.text] \in Value
  BY RecordsAreSane DEF IsRecords
<1>5. l \in Seq(Value) /\ ToSet(old.ledger) \subseteq ToSet(l)
  <2>1. IsLog(old.ledger) /\ ToSet(old.ledger) \subseteq Value
    BY <1>4, LogOfSeq
  <2>2. /\ IsLog(Noted(old.ledger, Canon[old.text]))
        /\ ToSet(Noted(old.ledger, Canon[old.text])) = ToSet(old.ledger) \cup {Canon[old.text]}
    BY <2>1, NotedHolds
  <2>3. Noted(old.ledger, Canon[old.text]) \in Seq(Value)
    BY <1>4, <2>1, <2>2, SeqOfLog
  <2> QED
    BY <1>4, <2>2, <2>3
<1> HIDE DEF base, l
<1>6. WithLedger(base, l) \in R /\ (~WithLedger(base, l).sat => ~base.sat /\ WithLedger(base, l).ledger = l)
  BY <1>3, <1>5, LedgerTyped
<1> QED
  BY <1>1, <1>2, <1>3, <1>5, <1>6 DEF Remembers

LEMMA ReplicaRemembers ==
  ASSUME NEW R, IsRecords(R), NEW old, old # NoRec => old \in R, NEW new \in R, NEW bad,
         IF old = NoRec THEN bad = {} ELSE Remembers(old, bad)
  PROVE  LET r == guard_replica(old, new) IN
         r \in R /\ Remembers(r, bad \cup ToSet(new.ledger))
<1> DEFINE sat == new.sat \/ old.sat
           base == [new EXCEPT !.sat = sat]
           all == AllNoted(old.ledger, new.ledger)
           merged == IF old = NoRec THEN new ELSE WithLedger(base, all)
<1>1. merged \in R /\ Remembers(merged, bad \cup ToSet(new.ledger))
  <2>1. CASE old = NoRec
    BY <2>1 DEF Remembers
  <2>2. CASE old # NoRec
    <3>1. old.ledger \in Seq(Value) /\ new.ledger \in Seq(Value) /\ sat \in BOOLEAN /\ (~sat => ~old.sat)
          /\ "sat" \in DOMAIN new
      BY <2>2 DEF IsRecords
    <3> HIDE DEF sat
    <3>2. base \in R /\ base.sat = sat
      BY <3>1 DEF IsRecords
    <3>3. IsLog(old.ledger) /\ IsLog(new.ledger) /\ ToSet(old.ledger) \subseteq Value /\ ToSet(new.ledger) \subseteq Value
      BY <3>1, LogOfSeq
    <3>4. IsLog(all) /\ ToSet(all) = ToSet(old.ledger) \cup ToSet(new.ledger)
      BY <3>3, AllNotedHolds
    <3>5. all \in Seq(Value)
      BY <3>3, <3>4, SeqOfLog
    <3>6. merged = WithLedger(base, all)
      BY <2>2
    <3> HIDE DEF base, all, merged
    <3>7. WithLedger(base, all) \in R /\ (~WithLedger(base, all).sat => ~base.sat /\ WithLedger(base, all).ledger = all)
      BY <3>2, <3>5, LedgerTyped
    <3> QED
      BY <2>2, <3>1, <3>2, <3>4, <3>6, <3>7 DEF Remembers
  <2> QED
    BY <2>1, <2>2
<1>2. guard_replica(old, new) \in {merged, [merged EXCEPT !.trust = "rejected"], [merged EXCEPT !.trust = "candidate"]}
  BY DEF guard_replica
<1> HIDE DEF merged
<1>3. ASSUME NEW t \in Trust
      PROVE  [merged EXCEPT !.trust = t] \in R /\ Remembers([merged EXCEPT !.trust = t], bad \cup ToSet(new.ledger))
  <2>1. {"trust", "ledger", "sat"} \subseteq DOMAIN merged /\ [merged EXCEPT !.trust = t] \in R
    BY <1>1 DEF IsRecords
  <2> QED
    BY <1>1, <2>1 DEF Remembers
<1>4. {"rejected", "candidate"} \subseteq Trust
  BY DEF Trust
<1> QED
  BY <1>1, <1>2, <1>3, <1>4

\* Of a set of naturals that has a bound there is a greatest.
LEMMA LastIndex ==
  ASSUME NEW n \in Nat, NEW S \in SUBSET (1..n), S # {}
  PROVE  Max(S) \in S
<1> DEFINE T == {n - x : x \in S}
<1>1. T \in SUBSET Nat /\ T # {}
  <2>1. \A x \in 1..n : n - x \in Nat
    OBVIOUS
  <2> QED
    BY <2>1
<1>2. PICK t \in T : \A z \in T : t <= z
  BY <1>1, LeastNatural
<1>3. PICK i \in S : t = n - i
  BY <1>2
<1>4. ASSUME NEW j \in S PROVE i >= j
  <2>1. n - j \in T /\ j \in Nat /\ i \in Nat
    OBVIOUS
  <2> QED
    BY <1>2, <1>3, <2>1
<1> QED
  BY <1>4 DEF Max

LEMMA SaysKeeps ==
  ASSUME PastInv, NEW r \in History
  PROVE  LET p == Says(past, r) IN
         /\ DOMAIN p = PastFields /\ p.rec = r /\ \A f \in PastFields \ {"rec", "was"} : p[f] = past[f]
         /\ p.was \in Seq(Text \cup {NoRec}) /\ Len(p.was) = past.now /\ p.was[past.now] = r.text
         /\ \A t \in 1..(past.now - 1) : p.was[t] = past.was[t]
<1> DEFINE p == Says(past, r)
           w == past.was
           n == past.now
<1>1. n \in Nat \ {0} /\ w \in Seq(Text \cup {NoRec}) /\ Len(w) = n /\ DOMAIN past = PastFields
  BY DEF PastInv
<1>2. r.text \in Text
  BY DEF History
<1>3. /\ DOMAIN p = PastFields /\ p.rec = r /\ \A f \in PastFields \ {"rec", "was"} : p[f] = past[f]
      /\ p.was = [w EXCEPT ![n] = r.text]
  BY <1>1 DEF Says, PastFields
<1> HIDE DEF p, w, n
<1>4. /\ [w EXCEPT ![n] = r.text] \in Seq(Text \cup {NoRec}) /\ Len([w EXCEPT ![n] = r.text]) = n
      /\ [w EXCEPT ![n] = r.text][n] = r.text
      /\ \A t \in 1..(n - 1) : [w EXCEPT ![n] = r.text][t] = w[t]
  BY <1>1, <1>2
<1> QED
  BY <1>3, <1>4 DEF p, w, n

\* What a key says from now on, over a history whose times nobody stated.
LEMMA StaysCovered ==
  ASSUME NEW n \in Nat \ {0}, NEW was, NEW new, NEW text, NEW from \in Nat, NEW to \in Nat, 1 <= from, to <= n,
         CutsTo(was, text, from, to - 1), \A t \in 1..(n - 1) : new[t] = was[t]
  PROVE  CutsTo(new, text, from, to - 1)
BY DEF CutsTo

LEMMA WrittenIsPast ==
  ASSUME PastInv, NEW new \in History, new.ledger = <<>>, NEW stated \in BOOLEAN,
         ~stated => new.vf = past.now /\ new.vt = 0 /\ new.chain = <<>>
  PROVE  LET r == Written_(past.rec, new, past.now)  was == Says(past, r).was IN
         /\ r \in History /\ Remembers(r, past.bad)
         /\ past.stated \/ stated \/ Unstated(r, past.now, was)
<1> DEFINE old == past.rec
           n == past.now
           r == Written_(old, new, n)
           was == Says(past, r).was
<1>1. n \in Nat \ {0} /\ past.was \in Seq(Text \cup {NoRec}) /\ Len(past.was) = n
  BY DEF PastInv
<1>2. old # NoRec => /\ old \in History /\ Remembers(old, past.bad) /\ (past.stated \/ Unstated(old, n, past.was))
  BY DEF PastInv
<1>3. CASE old = NoRec
  <2>1. r = new /\ past.bad = {}
    BY <1>3 DEF Written_, PastInv
  <2>2. was[n] = new.text
    BY <2>1, SaysKeeps
  <2>3. ~stated => Unstated(new, n, was)
    <3> SUFFICES ASSUME ~stated PROVE Unstated(new, n, was)
      OBVIOUS
    <3>1. Covers(was, new.text, n, n)
      BY <1>1, <2>2 DEF Covers
    <3>2. DOMAIN new.chain = {}
      OBVIOUS
    <3> HIDE DEF was
    <3> QED
      BY <1>1, <3>1, <3>2 DEF Unstated
  <2> QED
    BY <2>1, <2>3 DEF Remembers
<1>4. CASE old # NoRec /\ SameText(old.text, new.text)
  <2>1. r = old
    BY <1>4 DEF Written_
  <2>2. was[n] = old.text /\ \A t \in 1..(n - 1) : was[t] = past.was[t]
    BY <1>2, <1>4, <2>1, SaysKeeps
  <2>3. ~past.stated => Unstated(old, n, was)
    <3> SUFFICES ASSUME ~past.stated PROVE Unstated(old, n, was)
      OBVIOUS
    <3>1. Unstated(old, n, past.was) /\ old \in History
      BY <1>2, <1>4
    <3> HIDE DEF was
    <3>2. Covers(was, old.text, old.vf, n)
      <4>1. old.vf \in Nat
        BY <3>1 DEF History
      <4> QED
        BY <1>1, <2>2, <3>1, <4>1 DEF Unstated, Covers
    <3>3. ASSUME NEW i \in DOMAIN old.chain
          PROVE  CutsTo(was, old.chain[i].text, old.chain[i].vf, old.chain[i].vt - 1)
      <4>1. old.chain[i] \in Span
        <5>1. old.chain \in Seq(Span)
          BY <3>1 DEF History
        <5> QED
          BY <5>1
      <4>2. old.chain[i].vf \in Nat /\ old.chain[i].vt \in Nat
        BY <4>1 DEF Span
      <4>3. 1 <= old.chain[i].vf /\ old.chain[i].vt <= n
            /\ CutsTo(past.was, old.chain[i].text, old.chain[i].vf, old.chain[i].vt - 1)
        BY <3>1 DEF Unstated
      <4> QED
        BY <1>1, <2>2, <4>2, <4>3, StaysCovered
    <3> QED
      BY <3>1, <3>2, <3>3 DEF Unstated
  <2> QED
    BY <1>2, <1>4, <2>1, <2>3
<1>5. CASE old # NoRec /\ ~SameText(old.text, new.text)
  <2> DEFINE s == supersede_detail(old, new)
             chain == Newest(Append(old.chain, Closed(old, n)), MaxCorrections)
  <2>1. s \in History /\ Remembers(s, past.bad)
    BY <1>2, <1>5, HistoryIsRecords, SupersedeRemembers
  <2>2. s.text = new.text /\ s.vf = new.vf /\ s.vt = new.vt
    <3>1. {"text", "vf", "vt"} \subseteq DOMAIN new \ {"ledger", "sat", "sup"}
      BY DEF History
    <3> QED
      BY <3>1, SupersedeKeeps
  <2>3. r = [s EXCEPT !.chain = chain]
    BY <1>5 DEF Written_
  <2>4. old.chain \in Seq(Span) /\ Closed(old, n) \in Span /\ old.vf \in Nat
    BY <1>1, <1>2, <1>5, HistoryIsSane DEF History, Span, Closed
  <2>5. Append(old.chain, Closed(old, n)) \in Seq(Span)
    BY <2>4
  <2>6. chain \in Seq(Span)
        /\ \A i \in DOMAIN chain : \E j \in DOMAIN Append(old.chain, Closed(old, n)) :
             chain[i] = Append(old.chain, Closed(old, n))[j]
    <3> DEFINE q == Append(old.chain, Closed(old, n))
    <3> HIDE DEF q
    <3>1. q \in Seq(Span) /\ MaxCorrections \in Nat \ {0} /\ chain = Newest(q, MaxCorrections)
      BY <2>5, HistoryIsSane DEF q
    <3>2. Newest(q, MaxCorrections) \in Seq(Span)
          /\ \A i \in DOMAIN Newest(q, MaxCorrections) : \E j \in DOMAIN q : Newest(q, MaxCorrections)[i] = q[j]
      BY <3>1, NewestKeeps
    <3> HIDE DEF chain
    <3> QED
      BY <3>1, <3>2 DEF q
  <2>7. \A i \in DOMAIN chain : chain[i] = Closed(old, n) \/ \E j \in DOMAIN old.chain : chain[i] = old.chain[j]
    <3>1. \A j \in DOMAIN Append(old.chain, Closed(old, n)) :
            IF j = Len(old.chain) + 1 THEN Append(old.chain, Closed(old, n))[j] = Closed(old, n)
            ELSE j \in DOMAIN old.chain /\ Append(old.chain, Closed(old, n))[j] = old.chain[j]
      BY <2>4
    <3> QED
      BY <2>6, <3>1
  <2> HIDE DEF s, chain
  <2>8. r \in History /\ r.sat = s.sat /\ r.ledger = s.ledger /\ r.text = new.text /\ r.vf = new.vf /\ r.vt = new.vt
        /\ r.chain = chain
    BY <2>1, <2>2, <2>3, <2>6 DEF History
  <2> HIDE DEF r
  <2>9. was[n] = new.text /\ \A t \in 1..(n - 1) : was[t] = past.was[t]
    BY <2>8, SaysKeeps
  <2> HIDE DEF was
  <2>10. ~stated /\ ~past.stated => Unstated(r, n, was)
    <3> SUFFICES ASSUME ~stated, ~past.stated PROVE Unstated(r, n, was)
      OBVIOUS
    <3>1. Unstated(old, n, past.was) /\ old \in History
      BY <1>2, <1>5
    <3>2. Covers(was, r.text, n, n) /\ r.vf = n /\ r.vt = 0
      BY <1>1, <2>8, <2>9 DEF Covers
    <3>3. ASSUME NEW i \in DOMAIN chain
          PROVE  /\ 1 <= chain[i].vf /\ chain[i].vt <= n
                 /\ CutsTo(was, chain[i].text, chain[i].vf, chain[i].vt - 1)
      <4>1. CASE chain[i] = Closed(old, n)
        <5>1. chain[i].vf = old.vf /\ chain[i].vt = n /\ chain[i].text = Cut[old.text]
          BY <4>1 DEF Closed
        <5>2. CutsTo(was, Cut[old.text], old.vf, n - 1)
          BY <1>1, <2>4, <2>9, <3>1 DEF Unstated, Covers, CutsTo
        <5> QED
          BY <1>1, <3>1, <5>1, <5>2 DEF Unstated
      <4>2. CASE \E j \in DOMAIN old.chain : chain[i] = old.chain[j]
        <5>1. PICK j \in DOMAIN old.chain : chain[i] = old.chain[j]
          BY <4>2
        <5>2. old.chain[j] \in Span
          BY <2>4
        <5>3. chain[i].vf \in Nat /\ chain[i].vt \in Nat
          BY <5>1, <5>2 DEF Span
        <5>4. 1 <= chain[i].vf /\ chain[i].vt <= n
              /\ CutsTo(past.was, chain[i].text, chain[i].vf, chain[i].vt - 1)
          BY <3>1, <5>1 DEF Unstated
        <5> QED
          BY <1>1, <2>9, <5>3, <5>4, StaysCovered
      <4> QED
        BY <2>7, <4>1, <4>2
    <3> QED
      BY <1>1, <2>8, <3>2, <3>3 DEF Unstated
  <2>11. r \in History /\ Remembers(r, past.bad) /\ (past.stated \/ stated \/ Unstated(r, n, was))
    BY <2>1, <2>8, <2>10 DEF Remembers
  <2> QED
    BY <2>11 DEF r, was
<1> QED
  BY <1>3, <1>4, <1>5

LEMMA WriteKeepsPast ==
  ASSUME PastInv, NEW items \in Batches, extract_and_write(items)
  PROVE  PastInv'
<1> DEFINE f == LastOfThem(items)
           from == IF f.from = 0 THEN past.now ELSE f.from
           new == Dated(f.text, "candidate", <<>>, from, StatedEnd(f.from, f.to), <<>>)
           r == Written_(past.rec, new, past.now)
           stated == f.from > 0
<1>1. f.text \in Text /\ f.from \in Nat /\ f.to \in Nat
  <2> DEFINE A == [text : Text, from : Nat, to : Nat, fit : BOOLEAN]
  <2>1. items \in Seq(A)
    BY BatchesAreSane
  <2>2. parse_extracted_facts(items) \in SUBSET (1..Len(items)) /\ parse_extracted_facts(items) # {}
    BY <2>1 DEF parse_extracted_facts, extract_and_write
  <2> DEFINE P == parse_extracted_facts(items)
             n == Len(items)
  <2>3. Max(P) \in P
    <3>1. n \in Nat /\ P \in SUBSET (1..n) /\ P # {}
      BY <2>1, <2>2
    <3> HIDE DEF P, n
    <3> QED
      BY <3>1, LastIndex
  <2>4. f \in A
    <3>1. Max(P) \in 1..Len(items)
      BY <2>2, <2>3
    <3> HIDE DEF A
    <3> QED
      BY <2>1, <3>1 DEF LastOfThem
  <2> QED
    BY <2>4
<1>2. past.now \in Nat \ {0} /\ DOMAIN past = PastFields
  BY DEF PastInv
<1>3. past' = [Says(past, r) EXCEPT !.stated = @ \/ stated, !.writes = @ + 1]
  BY DEF extract_and_write
<1> HIDE DEF f
<1>4. new \in History /\ new.ledger = <<>> /\ (~stated => new.vf = past.now /\ new.vt = 0 /\ new.chain = <<>>)
  <2>1. from \in Nat /\ StatedEnd(f.from, f.to) \in Nat
    BY <1>1, <1>2 DEF StatedEnd
  <2>2. <<>> \in Seq(Value) /\ <<>> \in Seq(Span)
    OBVIOUS
  <2>3. ~stated => from = past.now /\ StatedEnd(f.from, f.to) = 0
    BY <1>1 DEF StatedEnd
  <2> HIDE DEF from
  <2> QED
    BY <1>1, <2>1, <2>2, <2>3 DEF Dated, History, Trust
<1>5. stated \in BOOLEAN
  OBVIOUS
<1> HIDE DEF new, stated
<1>6. r \in History /\ Remembers(r, past.bad)
      /\ (past.stated \/ stated \/ Unstated(r, past.now, Says(past, r).was))
  BY <1>4, <1>5, WrittenIsPast
<1> HIDE DEF r
<1> DEFINE p == Says(past, r)
<1>7. /\ DOMAIN p = PastFields /\ p.rec = r /\ p.now = past.now /\ p.bad = past.bad /\ p.stated = past.stated
      /\ p.was \in Seq(Text \cup {NoRec}) /\ Len(p.was) = past.now
  BY <1>6, SaysKeeps DEF PastFields
<1>8. past' = [p EXCEPT !.stated = @ \/ stated, !.writes = @ + 1]
  BY <1>3
<1>9. r # NoRec
  BY <1>6, HistoryIsSane
<1>10. Unstated(r, past.now, Says(past, r).was) => Unstated(r, past.now, p.was)
  OBVIOUS
<1> HIDE DEF p
<1>11. /\ DOMAIN past' = PastFields /\ past'.rec = r /\ past'.now = past.now /\ past'.bad = past.bad
       /\ past'.was = p.was
  BY <1>7, <1>8 DEF PastFields
<1>12. past.stated \/ stated => past'.stated
  BY <1>7, <1>8 DEF PastFields
<1>13. past'.stated \/ Unstated(r, past.now, past'.was)
  BY <1>6, <1>10, <1>11, <1>12
<1> QED
  BY <1>2, <1>6, <1>7, <1>9, <1>11, <1>13 DEF PastInv, Unstated, Covers, CutsTo, Remembers

LEMMA ContradictKeepsPast ==
  ASSUME PastInv, contradict
  PROVE  PastInv'
<1> DEFINE old == past.rec
           r == record_rejection([old EXCEPT !.trust = "rejected"])
<1>1. old # NoRec /\ past' = [past EXCEPT !.rec = r, !.bad = @ \cup {Canon[old.text]}, !.rejections = @ + 1]
  BY DEF contradict
<1>2. /\ DOMAIN past = PastFields /\ past.now \in Nat \ {0} /\ past.was \in Seq(Text \cup {NoRec}) /\ Len(past.was) = past.now
      /\ old \in History /\ Remembers(old, past.bad) /\ (past.stated \/ Unstated(old, past.now, past.was))
  BY <1>1 DEF PastInv
<1>3. r \in History /\ Remembers(r, past.bad \cup {Canon[old.text]})
      /\ \A f \in DOMAIN old \ {"ledger", "sat", "trust"} : r[f] = old[f]
  BY <1>2, HistoryIsRecords, RejectionRemembers
<1>4. r.text = old.text /\ r.vf = old.vf /\ r.vt = old.vt /\ r.chain = old.chain
  BY <1>2, <1>3 DEF History
<1> HIDE DEF r
<1>5. /\ DOMAIN past' = PastFields /\ past'.rec = r /\ past'.now = past.now /\ past'.bad = past.bad \cup {Canon[old.text]}
      /\ past'.was = past.was /\ past'.stated = past.stated
  BY <1>1, <1>2 DEF PastFields
<1>6. r # NoRec
  BY <1>3, HistoryIsSane
<1> HIDE DEF old
<1>7. past.stated \/ Unstated(r, past.now, past.was)
  BY <1>2, <1>4 DEF Unstated
<1> QED
  BY <1>2, <1>3, <1>5, <1>6, <1>7 DEF PastInv, Unstated, Covers, CutsTo, Remembers

LEMMA ReplicaKeepsPast ==
  ASSUME PastInv, apply_replica
  PROVE  PastInv'
<1>1. PICK c \in Copies :
         past' = [Says(past, guard_replica(past.rec, c)) EXCEPT
                    !.replicas = @ + 1, !.stated = TRUE,
                    !.bad = @ \cup (IF c.trust = "rejected" THEN {Canon[c.text]} ELSE {})]
  BY DEF apply_replica
<1> DEFINE r == guard_replica(past.rec, c)
           p == Says(past, r)
           more == IF c.trust = "rejected" THEN {Canon[c.text]} ELSE {}
<1>2. past.now \in Nat \ {0} /\ (IF past.rec = NoRec THEN past.bad = {} ELSE Remembers(past.rec, past.bad))
      /\ (past.rec # NoRec => past.rec \in History)
  BY DEF PastInv
<1>3. c \in History /\ more \subseteq ToSet(c.ledger)
  <2>1. PICK q \in Peers : c = Copy(q)
    BY DEF Copies
  <2> DEFINE t == q.text  tr == q.trust  u == q.before
  <2>0. t \in Text /\ tr \in Trust /\ u \in Text
    BY PeersAreSane
  <2> DEFINE l == IF tr = "rejected" THEN <<Canon[t]>> ELSE <<>>
             chain == <<[text |-> u, vf |-> 1, vt |-> past.now]>>
  <2>2. l \in Seq(Value) /\ chain \in Seq(Span)
    BY <1>2, <2>0, RecordsAreSane DEF Span
  <2>3. tr = "rejected" => ToSet(l) = {Canon[t]}
    BY OneIsLog
  <2> HIDE DEF l, chain
  <2>4. c = Dated(t, tr, l, past.now, 0, chain)
    BY <2>1 DEF Copy, l, chain
  <2> HIDE DEF t, tr, u
  <2>5. c \in History /\ c.trust = tr /\ c.text = t /\ c.ledger = l
    BY <1>2, <2>0, <2>2, <2>4 DEF Dated, History
  <2> QED
    BY <2>3, <2>5
<1>4. r \in History /\ Remembers(r, past.bad \cup ToSet(c.ledger))
  BY <1>2, <1>3, HistoryIsRecords, ReplicaRemembers
<1>5. Remembers(r, past.bad \cup more)
  BY <1>3, <1>4 DEF Remembers
<1>6. past' = [p EXCEPT !.replicas = @ + 1, !.stated = TRUE, !.bad = @ \cup more]
  BY <1>1
<1>7. r # NoRec
  BY <1>4, HistoryIsSane
<1> HIDE DEF r, more
<1>8. /\ DOMAIN p = PastFields /\ p.rec = r /\ p.now = past.now /\ p.bad = past.bad
      /\ p.was \in Seq(Text \cup {NoRec}) /\ Len(p.was) = past.now
  BY <1>4, SaysKeeps DEF PastFields
<1> HIDE DEF p
<1>9. /\ DOMAIN past' = PastFields /\ past'.rec = r /\ past'.now = past.now /\ past'.bad = past.bad \cup more
      /\ past'.was = p.was /\ past'.stated = TRUE
  BY <1>6, <1>8 DEF PastFields
<1> QED
  BY <1>2, <1>4, <1>5, <1>7, <1>8, <1>9 DEF PastInv, Remembers

LEMMA ClockKeepsPast ==
  ASSUME PastInv, Clock
  PROVE  PastInv'
<1> DEFINE n == past.now
           w == past.was
           new == Append(w, Last(w))
<1>1. DOMAIN past = PastFields /\ n \in Nat \ {0} /\ w \in Seq(Text \cup {NoRec}) /\ Len(w) = n
  BY DEF PastInv
<1>2. past' = [past EXCEPT !.now = n + 1, !.was = new]
  BY DEF Clock
<1>3. /\ DOMAIN past' = PastFields /\ past'.now = n + 1 /\ past'.was = new /\ past'.rec = past.rec
      /\ past'.bad = past.bad /\ past'.stated = past.stated
  BY <1>1, <1>2 DEF PastFields
<1>4. Last(w) = w[n] /\ w[n] \in Text \cup {NoRec}
  BY <1>1 DEF Last
<1> HIDE DEF w
<1>5. /\ new \in Seq(Text \cup {NoRec}) /\ Len(new) = n + 1 /\ new[n + 1] = w[n]
      /\ \A t \in 1..n : new[t] = w[t]
  BY <1>1, <1>4
<1> HIDE DEF new
<1>6. ASSUME past.rec # NoRec, ~past.stated PROVE Unstated(past.rec, n + 1, new)
  <2> DEFINE r == past.rec
  <2>1. r \in History /\ Unstated(r, n, w)
    BY <1>6 DEF PastInv, w
  <2>2. r.vf \in Nat /\ r.chain \in Seq(Span)
    BY <2>1 DEF History
  <2> HIDE DEF r
  <2>3. Covers(new, r.text, r.vf, n + 1)
    BY <1>1, <1>5, <2>1, <2>2, SMTT(30) DEF Unstated, Covers
  <2>4. ASSUME NEW i \in DOMAIN r.chain
        PROVE  /\ 1 <= r.chain[i].vf /\ r.chain[i].vt <= n + 1
               /\ CutsTo(new, r.chain[i].text, r.chain[i].vf, r.chain[i].vt - 1)
    <3>1. r.chain[i] \in Span
      BY <2>2
    <3>2. r.chain[i].vf \in Nat /\ r.chain[i].vt \in Nat
      BY <3>1 DEF Span
    <3>3. 1 <= r.chain[i].vf /\ r.chain[i].vt <= n
          /\ CutsTo(w, r.chain[i].text, r.chain[i].vf, r.chain[i].vt - 1)
      BY <2>1 DEF Unstated
    <3>4. \A t \in r.chain[i].vf..(r.chain[i].vt - 1) : t \in 1..n
      BY <1>1, <3>2, <3>3
    <3>5. \A t \in r.chain[i].vf..(r.chain[i].vt - 1) : Cut[new[t]] = r.chain[i].text
      BY <1>5, <3>3, <3>4 DEF CutsTo
    <3>6. CutsTo(new, r.chain[i].text, r.chain[i].vf, r.chain[i].vt - 1)
      BY <3>5, Zenon DEF CutsTo
    <3> QED
      BY <1>1, <3>2, <3>3, <3>6
  <2> QED
    BY <1>1, <2>1, <2>2, <2>3, <2>4 DEF Unstated, r
<1> QED
  BY <1>1, <1>3, <1>5, <1>6 DEF PastInv, Remembers, Unstated, Covers, CutsTo

LEMMA PastStart == RecallInit => PastInv
<1> SUFFICES ASSUME RecallInit PROVE PastInv
  OBVIOUS
<1>1. past = NoPast
  BY DEF RecallInit
<1>2. <<NoRec>> \in Seq(Text \cup {NoRec}) /\ Len(<<NoRec>>) = 1
  OBVIOUS
<1> QED
  BY <1>1, <1>2 DEF NoPast, PastInv, PastFields

LEMMA PastStep == PastInv /\ [RecallNext]_recallVars => PastInv'
<1> SUFFICES ASSUME PastInv, [RecallNext]_recallVars PROVE PastInv'
  OBVIOUS
<1>1. CASE UNCHANGED past
  BY <1>1 DEF PastInv, Unstated, Covers, CutsTo, Remembers
<1>2. CASE PastNext
  BY <1>2, WriteKeepsPast, ContradictKeepsPast, ReplicaKeepsPast, ClockKeepsPast DEF PastNext
<1> QED
  BY <1>1, <1>2 DEF RecallNext, HandNext, recallVars

\* An answer about the past is never of a value that was ever rejected on the key,
\* and of an unstated history it is what the key said or its beginning, and that
\* was not rejected unless the two have different keys, for any texts, statements,
\* rejections and copies, and any number of them.
THEOREM PastStaysHonest == RecallSpec => []PastIsHonest
<1>1. PastInv => PastIsHonest
  <2> SUFFICES ASSUME PastInv, NEW t \in 1..Horizon, recall_as_of(past.rec, t) # NoRec
               PROVE  LET snap == recall_as_of(past.rec, t) IN
                      /\ Canon[snap.text] \notin past.bad
                      /\ ~past.stated /\ t <= past.now =>
                           LET text == past.was[t] IN
                           /\ snap.text \in {text, Cut[text]}
                           /\ Canon[Cut[text]] = Canon[text] => Canon[text] \notin past.bad
    BY DEF PastIsHonest
  <2> DEFINE r == past.rec
             n == past.now
             snap == value_as_of(r, t)
             hits == {i \in DOMAIN r.chain : r.chain[i].vt # 0 /\ _interval_contains(r.chain[i].vf, r.chain[i].vt, t)}
             first == CHOOSE i \in hits : \A j \in hits : i <= j
  <2>1. recall_as_of(r, t) = snap /\ r # NoRec /\ snap # NoRec /\ ~is_launder_blocked(snap)
    BY DEF recall_as_of
  <2> HIDE DEF snap, hits, first
  <2>2. r \in History /\ Remembers(r, past.bad) /\ (past.stated \/ Unstated(r, n, past.was)) /\ n \in Nat \ {0}
    BY <2>1 DEF PastInv
  <2> HIDE DEF r, n
  <2>3. \/ _interval_contains(r.vf, r.vt, t) /\ snap = r
        \/ hits # {} /\ snap = [r EXCEPT !.text = r.chain[first].text]
    BY <2>1, Zenon DEF value_as_of, snap, hits, first
  <2>4. snap.sat = r.sat /\ snap.ledger = r.ledger /\ (snap = r \/ snap.text = r.chain[first].text)
    BY <2>2, <2>3 DEF History
  <2>5. r.chain \in Seq(Span) /\ r.vf \in Nat
    BY <2>2 DEF History
  <2> USE DEF hits
  <2>6. hits # {} => first \in hits
    <3> SUFFICES ASSUME hits # {} PROVE first \in hits
      OBVIOUS
    <3>1. hits \in SUBSET Nat
      BY <2>5
    <3> HIDE DEF hits
    <3>2. PICK i \in hits : \A j \in hits : i <= j
      BY <3>1, LeastNatural
    <3> QED
      BY <3>2 DEF first
  <2>7. Canon[snap.text] \notin past.bad
    BY <2>1, <2>2, <2>4 DEF Remembers, is_launder_blocked
  <2>8. ASSUME ~past.stated, t <= n PROVE snap.text \in {past.was[t], Cut[past.was[t]]}
    <3>1. Unstated(r, n, past.was)
      BY <2>2, <2>8
    <3>2. CASE _interval_contains(r.vf, r.vt, t) /\ snap = r
      BY <2>2, <2>5, <2>8, <3>1, <3>2 DEF Unstated, Covers, _interval_contains
    <3>3. CASE hits # {} /\ snap.text = r.chain[first].text
      <4> DEFINE e == r.chain[first]
      <4>1. first \in DOMAIN r.chain /\ e.vt # 0 /\ _interval_contains(e.vf, e.vt, t)
        BY <2>6, <3>3
      <4>2. e \in Span
        BY <2>5, <4>1
      <4>3. e.vf \in Nat /\ e.vt \in Nat
        BY <4>2 DEF Span
      <4>4. CutsTo(past.was, e.text, e.vf, e.vt - 1)
        BY <3>1, <4>1 DEF Unstated
      <4> HIDE DEF e
      <4>5. t \in e.vf..(e.vt - 1)
        BY <4>1, <4>3 DEF _interval_contains
      <4> QED
        BY <3>3, <4>4, <4>5 DEF CutsTo, e
    <3>4. hits # {} /\ snap = [r EXCEPT !.text = r.chain[first].text] => snap.text = r.chain[first].text
      BY <2>2 DEF History
    <3> QED
      BY <2>3, <3>2, <3>3, <3>4
  <2> QED
    BY <2>1, <2>7, <2>8 DEF r, n
<1> QED
  BY PastStart, PastStep, <1>1, PTL DEF RecallSpec

-----------------------------------------------------------------------------
(* The answer.  What the index did not return is no more relevant than     *)
(* what it did, and what is relevant there but was not found ranks no      *)
(* higher than what was.  Of that nothing considered ranks below what is   *)
(* left, and whatever was passed over did not fit in what is used by now:  *)
(* so what was chosen before it ranks at least as high, and what was       *)
(* chosen after it is cheaper.                                             *)

Recalling == [at : {"recalled"}, hits : SUBSET Hit, fetched : SUBSET Hit, left : SUBSET Hit, budget : Int,
              chosen : Seq(Hit), used : Nat, dropped : Nat]
BestOf(h, found) ==
  /\ h.fetched \subseteq h.hits /\ found \subseteq Relevant(h.fetched)
  /\ \A m \in h.fetched, o \in Live(h.hits) \ h.fetched : m.rel >= o.rel
  /\ \A m \in found, o \in Relevant(h.fetched) \ found : rank(m) >= rank(o)
Considered(h, found) == found \ h.left
Passed(h, found) == Considered(h, found) \ ToSet(h.chosen)
TakenInOrder(h, found) ==
  /\ h.left \subseteq found /\ ToSet(h.chosen) \subseteq Considered(h, found)
  /\ \A m \in Considered(h, found), o \in h.left : rank(m) >= rank(o)
  /\ \A v \in Passed(h, found) : h.chosen # <<>> /\ h.used + v.cost > h.budget
  /\ \A v \in Passed(h, found), c \in ToSet(h.chosen) : rank(c) >= rank(v) \/ c.cost < v.cost
  /\ h.used <= h.budget \/ Len(h.chosen) <= 1
InRankOrder(h) == \E found \in SUBSET Hit : BestOf(h, found) /\ TakenInOrder(h, found)

HandInv ==
  \/ hand = NoHand
  \/ hand \in Recalling /\ InRankOrder(hand)
  \/ hand.at = "sent" /\ VerifiedComesFirst

LEMMA RankIsNumber ==
  ASSUME NEW m \in Hit
  PROVE  rank(m) \in Int /\ m.cost \in Nat /\ m.trust \in Trust /\ m.rel \in Int
<1>1. m.rel \in Int /\ m.rs \in 0..100 /\ m.ec \in 0..100 /\ m.trust \in Trust /\ m.cost \in Nat
  BY DEF Hit
<1>2. Bonus(m) \in Int
  BY <1>1 DEF Bonus, Trust
<1> DEFINE lasting == IF m.trust = "verified" THEN 100 ELSE m.rs
<1>0. lasting \in Int /\ m.ec \in Int
  BY <1>1
<1> HIDE DEF lasting
<1>3. PICK x \in Int, s \in Int, e \in Int, w \in Int :
        x = m.rel /\ s = lasting /\ e = m.ec /\ w = Bonus(m)
  BY <1>0, <1>1, <1>2
<1>4. rank(m) = 50 * x + 20 * s + 30 * e + 100 * w
  BY <1>3 DEF rank, lasting
<1>5. rank(m) \in Int
  BY <1>4
<1> QED
  BY <1>1, <1>5

LEMMA Outweighs ==
  ASSUME NEW x \in Int, NEW e \in 0..100, NEW r \in Int, NEW f \in 0..100, NEW t \in 0..100,
         50 * r + 20 * t + 30 * f + 100 * 0 >= 50 * x + 20 * 100 + 30 * e + 100 * 35
  PROVE  r > x
<1>1. 20 * t <= 2000 /\ 30 * f <= 3000 /\ 30 * e >= 0
  OBVIOUS
<1>2. 50 * r + 20 * t + 30 * f >= 50 * x + 30 * e + 5500
  OBVIOUS
<1> DEFINE T == 20 * t
           F == 30 * f
           E == 30 * e
           R == 50 * r
           A == 50 * x
<1>3. T \in Int /\ F \in Int /\ E \in Int /\ R \in Int /\ A \in Int
  OBVIOUS
<1>4. T <= 2000 /\ F <= 3000 /\ E >= 0 /\ R + T + F >= A + E + 5500
  BY <1>1, <1>2
<1> HIDE DEF T, F, E, R, A
<1>5. R > A
  BY <1>3, <1>4
<1> QED
  BY <1>5 DEF R, A

\* The verified term outweighs all the strength and confidence a candidate can have.
LEMMA OnlyRelevanceOutranks ==
  ASSUME NEW v \in Hit, NEW c \in Hit, v.trust = "verified", c.trust = "candidate", rank(c) >= rank(v)
  PROVE  c.rel > v.rel
<1>1. /\ v.rel \in Int /\ v.ec \in 0..100
      /\ c.rel \in Int /\ c.rs \in 0..100 /\ c.ec \in 0..100
  BY DEF Hit
<1>2. Bonus(v) = 35 /\ Bonus(c) = 0
  BY DEF Bonus
<1>3. PICK x \in Int, e \in 0..100, r \in Int, f \in 0..100, t \in 0..100 :
        x = v.rel /\ e = v.ec /\ r = c.rel /\ f = c.ec /\ t = c.rs
  BY <1>1
<1>4. rank(v) = 50 * x + 20 * 100 + 30 * e + 100 * 35
  BY <1>2, <1>3 DEF rank
<1>5. rank(c) = 50 * r + 20 * t + 30 * f + 100 * 0
  <2>1. c.trust # "verified"
    OBVIOUS
  <2> QED
    BY <1>2, <1>3, <2>1 DEF rank
<1>6. 50 * r + 20 * t + 30 * f + 100 * 0 >= 50 * x + 20 * 100 + 30 * e + 100 * 35
  BY <1>4, <1>5, Zenon
<1>7. r > x
  BY <1>6, Outweighs
<1> QED
  BY <1>3, <1>7

LEMMA ChosenAreOurs ==
  ASSUME NEW q \in Seq(Hit), NEW m \in Hit
  PROVE  /\ Append(q, m) \in Seq(Hit) /\ ToSet(Append(q, m)) = ToSet(q) \cup {m}
         /\ Len(Append(q, m)) = Len(q) + 1 /\ Append(q, m) # <<>> /\ Len(q) \in Nat
         /\ q = <<>> => ToSet(q) = {} /\ Len(q) = 0
<1>1. IsLog(q)
  BY DEF IsLog
<1>2. /\ ToSet(Append(q, m)) = ToSet(q) \cup {m}
      /\ Len(Append(q, m)) = Len(q) + 1 /\ Len(q) \in Nat
  BY <1>1, AppendToLog
<1>3. Append(q, m) \in Seq(Hit)
  OBVIOUS
<1>4. Append(q, m) # <<>>
  BY <1>2
<1>5. q = <<>> => ToSet(q) = {} /\ Len(q) = 0
  BY DEF ToSet
<1> QED
  BY <1>2, <1>3, <1>4, <1>5

LEMMA RecallStarts ==
  ASSUME recall
  PROVE  hand' \in Recalling /\ InRankOrder(hand')
<1>1. PICK ms \in Hits, l \in Limits, w \in Budgets :
        \E fetched \in Fetched(ms, l.fetch) : \E found \in Found(fetched, l.k) :
          hand' = [at |-> "recalled", hits |-> ms, fetched |-> fetched, left |-> found, budget |-> w,
                   chosen |-> <<>>, used |-> 0, dropped |-> 0]
  BY DEF recall
<1>2. PICK fetched \in Fetched(ms, l.fetch) : \E found \in Found(fetched, l.k) :
          hand' = [at |-> "recalled", hits |-> ms, fetched |-> fetched, left |-> found, budget |-> w,
                   chosen |-> <<>>, used |-> 0, dropped |-> 0]
  BY <1>1
<1>3. PICK found \in Found(fetched, l.k) :
          hand' = [at |-> "recalled", hits |-> ms, fetched |-> fetched, left |-> found, budget |-> w,
                   chosen |-> <<>>, used |-> 0, dropped |-> 0]
  BY <1>2
<1>4. ms \in SUBSET Hit /\ w \in Int
  BY HandsAreSane
<1>5. fetched \subseteq Live(ms) /\ \A m \in fetched, o \in Live(ms) \ fetched : m.rel >= o.rel
  BY DEF Fetched, UpTo
<1>6. found \subseteq Relevant(fetched) /\ \A m \in found, o \in Relevant(fetched) \ found : rank(m) >= rank(o)
  BY DEF Found, UpTo
<1>7. fetched \subseteq ms /\ found \subseteq fetched
  BY <1>5, <1>6 DEF Live, Relevant
<1>8. <<>> \in Seq(Hit) /\ ToSet(<<>>) = {} /\ Len(<<>>) = 0
  BY DEF ToSet
<1>9. hand' \in Recalling
  BY <1>3, <1>4, <1>7, <1>8 DEF Recalling
<1>10. hand'.hits = ms /\ hand'.fetched = fetched /\ hand'.left = found /\ hand'.chosen = <<>>
  BY <1>3
<1>11. BestOf(hand', found)
  BY <1>5, <1>6, <1>7, <1>10 DEF BestOf
<1>12. Considered(hand', found) = {} /\ Passed(hand', found) = {} /\ ToSet(hand'.chosen) = {}
       /\ Len(hand'.chosen) = 0
  BY <1>8, <1>10 DEF Considered, Passed
<1>13. TakenInOrder(hand', found)
  BY <1>10, <1>12 DEF TakenInOrder
<1> QED
  BY <1>4, <1>7, <1>9, <1>11, <1>13 DEF InRankOrder

LEMMA NextIsTaken ==
  ASSUME NEW h \in Recalling, InRankOrder(h), NEW m \in Ranked(h.left),
         NEW g, g = Taken(h, m)
  PROVE  g \in Recalling /\ InRankOrder(g)
<1>0. PICK found \in SUBSET Hit : BestOf(h, found) /\ TakenInOrder(h, found)
  BY DEF InRankOrder
<1> DEFINE q == h.chosen
           fits == q = <<>> \/ h.used + m.cost <= h.budget
<1>1. /\ h.hits \in SUBSET Hit /\ h.fetched \in SUBSET Hit /\ h.left \in SUBSET Hit /\ h.budget \in Int /\ q \in Seq(Hit)
      /\ h.used \in Nat /\ h.dropped \in Nat
  BY DEF Recalling
<1>2. m \in h.left /\ m \in Hit /\ \A o \in h.left : rank(m) >= rank(o)
  BY <1>1 DEF Ranked
<1>3. m.cost \in Nat
  BY <1>2, RankIsNumber
<1>4. /\ g.hits = h.hits /\ g.fetched = h.fetched /\ g.left = h.left \ {m} /\ g.budget = h.budget
      /\ fits => g.chosen = Append(q, m) /\ g.used = h.used + m.cost /\ g.dropped = h.dropped
      /\ ~fits => g.chosen = q /\ g.used = h.used /\ g.dropped = h.dropped + 1
      /\ g \in Recalling
  <2>1. CASE fits
    <3>1. g = [h EXCEPT !.left = @ \ {m}, !.chosen = Append(@, m), !.used = @ + m.cost]
      BY <2>1 DEF Taken
    <3>2. Append(q, m) \in Seq(Hit) /\ h.used + m.cost \in Nat
      BY <1>1, <1>2, <1>3, ChosenAreOurs
    <3> QED
      BY <1>1, <2>1, <3>1, <3>2 DEF Recalling
  <2>2. CASE ~fits
    <3>1. g = [h EXCEPT !.left = @ \ {m}, !.dropped = @ + 1]
      BY <2>2 DEF Taken
    <3>2. h.dropped + 1 \in Nat
      BY <1>1
    <3>3. /\ g.hits = h.hits /\ g.fetched = h.fetched /\ g.left = h.left \ {m} /\ g.budget = h.budget
          /\ g.chosen = q /\ g.used = h.used /\ g.dropped = h.dropped + 1
      BY <3>1 DEF Recalling
    <3>4. g \in Recalling
      BY <1>1, <3>1, <3>2 DEF Recalling
    <3> QED
      BY <2>2, <3>3, <3>4
  <2> QED
    BY <2>1, <2>2
<1>5. /\ h.left \subseteq found /\ ToSet(q) \subseteq Considered(h, found)
      /\ \A x \in Considered(h, found), o \in h.left : rank(x) >= rank(o)
      /\ \A v \in Passed(h, found) : q # <<>> /\ h.used + v.cost > h.budget
      /\ \A v \in Passed(h, found), c \in ToSet(q) : rank(c) >= rank(v) \/ c.cost < v.cost
      /\ h.used <= h.budget \/ Len(q) <= 1
  BY <1>0 DEF TakenInOrder
<1>6. Considered(g, found) = Considered(h, found) \cup {m} /\ m \notin Considered(h, found)
  BY <1>2, <1>4, <1>5 DEF Considered
<1>7. Considered(h, found) \subseteq Hit /\ Passed(h, found) \subseteq Considered(h, found) /\ Passed(h, found) \subseteq Hit
  BY DEF Considered, Passed
<1>8. \A x \in Considered(g, found), o \in g.left : rank(x) >= rank(o)
  BY <1>2, <1>4, <1>5, <1>6
<1>9. g.left \subseteq found /\ BestOf(g, found)
  BY <1>0, <1>4, <1>5 DEF BestOf
<1>10. CASE fits
  <2>1. g.chosen = Append(q, m) /\ g.used = h.used + m.cost
    BY <1>4, <1>10
  <2>2. /\ ToSet(g.chosen) = ToSet(q) \cup {m} /\ Len(g.chosen) = Len(q) + 1 /\ g.chosen # <<>> /\ Len(q) \in Nat
        /\ q = <<>> => ToSet(q) = {} /\ Len(q) = 0
    BY <1>1, <1>2, <2>1, ChosenAreOurs
  <2>3. Passed(g, found) = Passed(h, found)
    BY <1>5, <1>6, <2>2 DEF Passed
  <2>4. \A v \in Passed(h, found) : m.cost < v.cost
    <3> SUFFICES ASSUME NEW v \in Passed(h, found) PROVE m.cost < v.cost
      OBVIOUS
    <3>1. q # <<>> /\ h.used + v.cost > h.budget
      BY <1>5
    <3>2. h.used + m.cost <= h.budget
      BY <1>10, <3>1
    <3>3. v.cost \in Nat
      BY <1>7, RankIsNumber
    <3> QED
      BY <1>1, <1>3, <3>1, <3>2, <3>3
  <2>5. \A v \in Passed(h, found) : h.used + m.cost + v.cost > h.budget
    <3> SUFFICES ASSUME NEW v \in Passed(h, found) PROVE h.used + m.cost + v.cost > h.budget
      OBVIOUS
    <3>1. h.used + v.cost > h.budget /\ v.cost \in Nat
      BY <1>5, <1>7, RankIsNumber
    <3> QED
      BY <1>1, <1>3, <3>1
  <2>6. g.used <= g.budget \/ Len(g.chosen) <= 1
    BY <1>4, <1>10, <2>1, <2>2
  <2>7. \A v \in Passed(g, found), c \in ToSet(g.chosen) : rank(c) >= rank(v) \/ c.cost < v.cost
    BY <1>5, <2>2, <2>3, <2>4
  <2>8. ToSet(g.chosen) \subseteq Considered(g, found)
    BY <1>5, <1>6, <2>2
  <2>9. \A v \in Passed(g, found) : g.chosen # <<>> /\ g.used + v.cost > g.budget
    BY <1>4, <2>1, <2>2, <2>3, <2>5
  <2> QED
    BY <1>4, <1>8, <1>9, <2>6, <2>7, <2>8, <2>9 DEF InRankOrder, TakenInOrder
<1>11. CASE ~fits
  <2>1. g.chosen = q /\ g.used = h.used
    BY <1>4, <1>11
  <2>2. Passed(g, found) = Passed(h, found) \cup {m} /\ m \notin ToSet(q)
    BY <1>5, <1>6, <2>1 DEF Passed
  <2>3. q # <<>> /\ h.used + m.cost > h.budget
    BY <1>1, <1>3, <1>11
  <2>4. \A c \in ToSet(q) : rank(c) >= rank(m)
    BY <1>2, <1>5
  <2>5. \A v \in Passed(g, found) : g.chosen # <<>> /\ g.used + v.cost > g.budget
    BY <1>4, <1>5, <2>1, <2>2, <2>3
  <2>6. \A v \in Passed(g, found), c \in ToSet(g.chosen) : rank(c) >= rank(v) \/ c.cost < v.cost
    BY <1>5, <2>1, <2>2, <2>4
  <2>7. ToSet(g.chosen) \subseteq Considered(g, found)
    BY <1>5, <1>6, <2>1
  <2> QED
    BY <1>4, <1>5, <1>8, <1>9, <2>1, <2>5, <2>6, <2>7 DEF InRankOrder, TakenInOrder
<1> QED
  BY <1>10, <1>11

LEMMA OrderIsFair ==
  ASSUME NEW h \in Recalling, InRankOrder(h)
  PROVE  /\ \A v \in Relevant(h.hits) \ (h.left \cup ToSet(h.chosen)) : \A c \in ToSet(h.chosen) :
              v.trust = "verified" /\ c.trust = "candidate" =>
                IF v \in h.fetched THEN c.rel > v.rel \/ c.cost < v.cost ELSE c.rel >= v.rel
         /\ h.used <= h.budget \/ Len(h.chosen) <= 1
<1>0. PICK found \in SUBSET Hit : BestOf(h, found) /\ TakenInOrder(h, found)
  BY DEF InRankOrder
<1>1. ASSUME NEW v \in Relevant(h.hits) \ (h.left \cup ToSet(h.chosen)), NEW c \in ToSet(h.chosen),
             v.trust = "verified", c.trust = "candidate"
      PROVE  IF v \in h.fetched THEN c.rel > v.rel \/ c.cost < v.cost ELSE c.rel >= v.rel
  <2>1. c \in found /\ c \in h.fetched
    BY <1>0 DEF TakenInOrder, BestOf, Considered, Relevant
  <2>2. v \in Hit /\ c \in Hit /\ v \in h.hits /\ v.rel > 0
    BY <2>1 DEF Recalling, Relevant
  <2>3. CASE v \notin h.fetched
    <3>1. v \in Live(h.hits) \ h.fetched
      BY <1>1, <2>2, <2>3 DEF Live
    <3> QED
      BY <1>0, <2>1, <2>3, <3>1 DEF BestOf
  <2>4. CASE v \in h.fetched /\ v \notin found
    <3>1. v \in Relevant(h.fetched) \ found
      BY <2>2, <2>4 DEF Relevant
    <3>2. rank(c) >= rank(v)
      BY <1>0, <2>1, <3>1 DEF BestOf
    <3> QED
      BY <1>1, <2>2, <2>4, <3>2, OnlyRelevanceOutranks
  <2>5. CASE v \in h.fetched /\ v \in found
    <3>1. v \in Passed(h, found)
      BY <2>5 DEF Passed, Considered
    <3>2. rank(c) >= rank(v) \/ c.cost < v.cost
      BY <1>0, <3>1 DEF TakenInOrder
    <3> QED
      BY <1>1, <2>2, <2>5, <3>2, OnlyRelevanceOutranks
  <2> QED
    BY <2>3, <2>4, <2>5
<1>2. h.used <= h.budget \/ Len(h.chosen) <= 1
  BY <1>0 DEF TakenInOrder
<1> QED
  BY <1>1, <1>2

LEMMA LeastIndex ==
  ASSUME NEW n \in Nat, NEW S \in SUBSET (1..n), S # {}
  PROVE  Min(S) \in S
<1>1. PICK least \in S : \A i \in S : least <= i
  BY LeastNatural
<1> QED
  BY <1>1 DEF Min

\* Sent as it came, or with the block put into one of the messages.
LEMMA SameMessages ==
  ASSUME NEW chat, NEW n \in Nat, DOMAIN chat = 1..n, Len(chat) = n, NEW sent, DOMAIN sent = 1..n, Len(sent) = n,
         \A i \in 1..n : /\ HasOwn(sent[i]) /\ sent[i].role = chat[i].role
                         /\ sent[i].role = "system" => sent[i].parts[1] = "own"
  PROVE  SentInOrder(chat, sent)
<1>1. n \in 0..Len(chat) /\ Len(sent) >= Len(chat)
  OBVIOUS
<1> DEFINE at(i) == IF i <= n THEN i ELSE i + Len(sent) - Len(chat)
<1>2. \A i \in 1..n : at(i) = i
  OBVIOUS
<1> HIDE DEF at
<1>3. /\ \A i \in DOMAIN chat : HasOwn(sent[at(i)]) /\ sent[at(i)].role = chat[i].role
      /\ \A j \in DOMAIN sent : HasOwn(sent[j]) =>
           /\ \E i \in DOMAIN chat : j = at(i)
           /\ sent[j].role = "system" => sent[j].parts[1] = "own"
  <2>1. ASSUME NEW i \in DOMAIN chat PROVE HasOwn(sent[at(i)]) /\ sent[at(i)].role = chat[i].role
    <3>0. i \in 1..n
      OBVIOUS
    <3>1. at(i) = i
      BY <1>2, <3>0
    <3>2. HasOwn(sent[i]) /\ sent[i].role = chat[i].role
      BY <3>0
    <3> QED
      BY <3>1, <3>2
  <2>2. ASSUME NEW j \in DOMAIN sent
        PROVE  (\E i \in DOMAIN chat : j = at(i)) /\ (sent[j].role = "system" => sent[j].parts[1] = "own")
    <3>0. j \in 1..n /\ j \in DOMAIN chat
      OBVIOUS
    <3>1. at(j) = j
      BY <1>2, <3>0
    <3>2. sent[j].role = "system" => sent[j].parts[1] = "own"
      BY <3>0
    <3> QED
      BY <3>0, <3>1, <3>2
  <2> QED
    BY <2>1, <2>2
<1> QED
  BY <1>1, <1>3 DEF SentInOrder, at

\* Or with a message of its own, after the first k.
LEMMA OneMessageMore ==
  ASSUME NEW chat, NEW n \in Nat, DOMAIN chat = 1..n, Len(chat) = n,
         NEW sent, DOMAIN sent = 1..(n + 1), Len(sent) = n + 1,
         NEW k \in 0..n, ~HasOwn(sent[k + 1]),
         \A i \in 1..n : HasOwn(chat[i]) /\ chat[i].parts[1] = "own",
         \A i \in 1..k : sent[i] = chat[i],
         \A i \in (k + 1)..n : sent[i + 1] = chat[i]
  PROVE  SentInOrder(chat, sent)
<1> DEFINE at(i) == IF i <= k THEN i ELSE i + Len(sent) - Len(chat)
<1>1. \A i \in 1..n : /\ i <= k => at(i) = i
                     /\ i > k => at(i) = i + 1
  OBVIOUS
<1>2. \A i \in 1..n : sent[at(i)] = chat[i]
  BY <1>1
<1>3. ASSUME NEW j \in 1..(n + 1), HasOwn(sent[j])
      PROVE  \E i \in 1..n : j = at(i) /\ sent[j] = chat[i]
  <2>1. j # k + 1
    BY <1>3
  <2>2. CASE j <= k
    <3>1. j \in 1..n /\ at(j) = j
      BY <1>1, <2>2
    <3> QED
      BY <1>2, <3>1
  <2>3. CASE j > k + 1
    <3>1. j - 1 \in 1..n /\ at(j - 1) = j
      BY <1>1, <2>3
    <3> QED
      BY <1>2, <3>1
  <2> QED
    BY <2>1, <2>2, <2>3
<1>4. k \in 0..Len(chat) /\ Len(sent) >= Len(chat)
  OBVIOUS
<1> HIDE DEF at
<1>5. /\ \A i \in DOMAIN chat : HasOwn(sent[at(i)]) /\ sent[at(i)].role = chat[i].role
      /\ \A j \in DOMAIN sent : HasOwn(sent[j]) =>
           /\ \E i \in DOMAIN chat : j = at(i)
           /\ sent[j].role = "system" => sent[j].parts[1] = "own"
  <2>1. ASSUME NEW i \in DOMAIN chat PROVE HasOwn(sent[at(i)]) /\ sent[at(i)].role = chat[i].role
    <3>1. sent[at(i)] = chat[i] /\ HasOwn(chat[i])
      BY <1>2
    <3> QED
      BY <3>1
  <2>2. ASSUME NEW j \in DOMAIN sent, HasOwn(sent[j])
        PROVE  (\E i \in DOMAIN chat : j = at(i)) /\ sent[j].parts[1] = "own"
    <3>1. PICK i \in 1..n : j = at(i) /\ sent[j] = chat[i]
      BY <1>3, <2>2
    <3>2. chat[i].parts[1] = "own"
      OBVIOUS
    <3> QED
      BY <3>1, <3>2
  <2> QED
    BY <2>1, <2>2
<1> QED
  BY <1>4, <1>5 DEF SentInOrder, at

Plain(chat) == IsLog(chat) /\ \A i \in DOMAIN chat : chat[i] = Own(chat[i].role)

LEMMA PartsOfMessages ==
  /\ ToSet(<<"own">>) = {"own"} /\ <<"own">>[1] = "own" /\ ToSet(<<"block">>) = {"block"}
  /\ \A q : q = <<"own">> \o <<"block">> => "own" \in ToSet(q) /\ q[1] = "own"
  /\ \A q : q = <<"block">> \o <<"own">> => "own" \in ToSet(q)
<1>1. ToSet(<<"own">>) = {"own"} /\ <<"own">>[1] = "own" /\ ToSet(<<"block">>) = {"block"}
  BY OneIsLog
<1>2. ASSUME NEW q, q = <<"own">> \o <<"block">>
      PROVE  "own" \in ToSet(q) /\ q[1] = "own"
  <2>1. IsLog(<<"own">>)
    BY OneIsLog
  <2>2. q[1] = "own" /\ Len(q) = 2 /\ DOMAIN q = 1..2
    BY <1>2
  <2> QED
    BY <2>2 DEF ToSet
<1>3. ASSUME NEW q, q = <<"block">> \o <<"own">>
      PROVE  "own" \in ToSet(q)
  <2>2. q[2] = "own" /\ 2 \in DOMAIN q
    BY <1>3
  <2> QED
    BY <2>2 DEF ToSet
<1> QED
  BY <1>1, <1>2, <1>3

LEMMA BlockAtTheEnd ==
  ASSUME NEW chat, IsLog(chat), NEW role, NEW sent, sent = Append(chat, Block(role))
  PROVE  /\ DOMAIN sent = 1..(Len(chat) + 1) /\ Len(sent) = Len(chat) + 1
         /\ sent[Len(chat) + 1] = Block(role) /\ \A i \in 1..Len(chat) : sent[i] = chat[i]
         /\ Len(chat) \in 0..Len(chat) /\ (Len(chat) + 1)..Len(chat) = {}
<1>1. Len(chat) \in Nat
  BY DEF IsLog
<1> QED
  BY <1>1, AppendToLog

LEMMA BlockInFront ==
  ASSUME NEW chat, IsLog(chat), NEW w, NEW sent, sent = <<w>> \o chat
  PROVE  /\ DOMAIN sent = 1..(Len(chat) + 1) /\ Len(sent) = Len(chat) + 1 /\ sent[0 + 1] = w
         /\ \A i \in (0 + 1)..Len(chat) : sent[i + 1] = chat[i]
<1> DEFINE S == {chat[i] : i \in DOMAIN chat} \cup {w}
<1>1. chat \in Seq(S) /\ <<w>> \in Seq(S) /\ Len(<<w>>) = 1 /\ <<w>>[1] = w /\ Len(chat) \in Nat
  BY DEF IsLog
<1> HIDE DEF S
<1>2. /\ sent \in Seq(S) /\ Len(sent) = 1 + Len(chat)
      /\ \A i \in 1..(1 + Len(chat)) : sent[i] = IF i <= 1 THEN <<w>>[i] ELSE chat[i - 1]
  BY <1>1, ConcatProperties
<1>3. DOMAIN sent = 1..(Len(chat) + 1) /\ Len(sent) = Len(chat) + 1
  BY <1>1, <1>2
<1>4. sent[1] = w
  BY <1>1, <1>2
<1>5. \A i \in 1..Len(chat) : sent[i + 1] = chat[i]
  BY <1>1, <1>2
<1> QED
  BY <1>3, <1>4, <1>5

LEMMA BlockInBetween ==
  ASSUME NEW chat, IsLog(chat), NEW role, NEW k \in 0..(Len(chat) - 1), NEW sent,
         sent = InsertAt(chat, k + 1, Block(role))
  PROVE  /\ DOMAIN sent = 1..(Len(chat) + 1) /\ Len(sent) = Len(chat) + 1
         /\ sent[k + 1] = Block(role) /\ \A i \in 1..k : sent[i] = chat[i]
         /\ \A i \in (k + 1)..Len(chat) : sent[i + 1] = chat[i]
<1> DEFINE n == Len(chat)
           S == {chat[i] : i \in DOMAIN chat} \cup {Block(role)}
           front == SubSeq(chat, 1, k)
           back == SubSeq(chat, k + 1, n)
           w == Block(role)
<1>1. n \in Nat /\ k \in Nat /\ k + 1 <= n /\ chat \in Seq(S) /\ w \in S
  BY DEF IsLog
<1>2. front \in Seq(S) /\ Len(front) = k /\ \A i \in 1..k : front[i] = chat[i]
  BY <1>1
<1>3. back \in Seq(S) /\ Len(back) = n - k /\ \A i \in 1..(n - k) : back[i] = chat[k + i]
  BY <1>1
<1>4. sent = (front \o <<w>>) \o back
  <2>1. (k + 1) - 1 = k
    BY <1>1
  <2> QED
    BY <2>1, Zenon DEF InsertAt
<1> HIDE DEF n, S, front, back, w
<1>5. /\ front \o <<w>> \in Seq(S) /\ Len(front \o <<w>>) = k + 1 /\ (front \o <<w>>)[k + 1] = w
      /\ \A i \in 1..k : (front \o <<w>>)[i] = front[i]
  BY <1>1, <1>2
<1> DEFINE head == front \o <<w>>
<1> HIDE DEF head
<1>6. head \in Seq(S) /\ Len(head) = k + 1 /\ head[k + 1] = w /\ \A i \in 1..k : head[i] = chat[i]
  BY <1>2, <1>5 DEF head
<1>7. sent = head \o back
  BY <1>4 DEF head
<1>0. head \in Seq(S) /\ back \in Seq(S)
  BY <1>3, <1>6
<1>8. Len(sent) = n + 1 /\ DOMAIN sent = 1..(n + 1)
  <2>1. sent \in Seq(S) /\ Len(sent) = Len(head) + Len(back)
    BY <1>0, <1>7, ConcatProperties
  <2>2. Len(head) + Len(back) = n + 1
    BY <1>1, <1>3, <1>6
  <2> QED
    BY <2>1, <2>2
<1>9. \A i \in 1..(k + 1) : sent[i] = head[i]
  <2>1. \A i \in 1..Len(head) : sent[i] = head[i]
    BY <1>0, <1>7, ConcatProperties
  <2> QED
    BY <1>6, <2>1
<1>10. \A i \in (k + 1)..n : sent[i + 1] = chat[i]
  <2>1. ASSUME NEW i \in (k + 1)..n PROVE sent[i + 1] = chat[i]
    <3>1. i + 1 \in (k + 2)..(n + 1) /\ (i + 1) - (k + 1) = i - k /\ i - k \in 1..(n - k) /\ k + (i - k) = i
      BY <1>1
    <3>2. sent[i + 1] = back[(i + 1) - (k + 1)]
      BY <1>1, <1>3, <1>6, <1>7, <3>1
    <3> QED
      BY <1>3, <3>1, <3>2
  <2> QED
    BY <2>1
<1> QED
  BY <1>1, <1>6, <1>8, <1>9, <1>10 DEF n, w

\* Of any length, with or without the role that is looked for: nothing of the
\* caller's is lost, moved or put behind the block in a system message.
LEMMA InjectionKeepsChat ==
  ASSUME NEW chat, Plain(chat), NEW position, NEW chosen
  PROVE  SentInOrder(chat, inject_memory(chat, position, chosen))
<1> DEFINE n == Len(chat)
           sent == inject_memory(chat, position, chosen)
           systems == Of(chat, "system")
           users == Of(chat, "user")
<1> SUFFICES SentInOrder(chat, sent)
  OBVIOUS
<1>1. IsLog(chat) /\ n \in Nat /\ DOMAIN chat = 1..n
  BY DEF Plain, IsLog
<1>2. \A i \in 1..n : HasOwn(chat[i]) /\ chat[i].parts = <<"own">> /\ chat[i].parts[1] = "own"
  <2>1. ASSUME NEW i \in 1..n PROVE HasOwn(chat[i]) /\ chat[i].parts = <<"own">> /\ chat[i].parts[1] = "own"
    <3>1. chat[i] = Own(chat[i].role)
      BY <1>1 DEF Plain
    <3>2. PICK r : chat[i] = [role |-> r, parts |-> <<"own">>]
      BY <3>1 DEF Own
    <3>3. chat[i].parts = <<"own">>
      BY <3>2
    <3> QED
      BY <3>3, PartsOfMessages DEF HasOwn
  <2> QED
    BY <2>1
<1>3. systems \in SUBSET (1..n) /\ users \in SUBSET (1..n)
  BY <1>1 DEF Of
<1>4. users # {} => Max(users) \in 1..n /\ chat[Max(users)].role = "user"
  <2>1. users # {} => Max(users) \in users
    <3> HIDE DEF users, n
    <3> QED
      BY <1>1, <1>3, LastIndex
  <2> QED
    BY <1>3, <2>1 DEF Of
<1>5. systems # {} => Min(systems) \in 1..n
  <2> HIDE DEF systems, n
  <2> QED
    BY <1>1, <1>3, LeastIndex
<1>6. \A role : ~HasOwn(Block(role))
  BY PartsOfMessages DEF HasOwn, Block
<1> HIDE DEF n, sent, systems, users
\* Nothing is added.
<1>7. CASE sent = chat
  BY <1>1, <1>2, <1>7, SameMessages DEF n
\* The block joins a message.
<1>8. ASSUME NEW k \in 1..n, NEW p, sent = [chat EXCEPT ![k].parts = p],
             "own" \in ToSet(p), chat[k].role = "system" => p[1] = "own"
      PROVE  SentInOrder(chat, sent)
  <2>1. chat[k] = [role |-> chat[k].role, parts |-> <<"own">>]
    BY <1>1 DEF Plain, Own
  <2>2. DOMAIN sent = 1..n /\ sent[k] = [chat[k] EXCEPT !.parts = p] /\ \A i \in 1..n : i # k => sent[i] = chat[i]
    BY <1>1, <1>8
  <2>3. sent[k].role = chat[k].role /\ sent[k].parts = p
    BY <2>1, <2>2
  <2>4. Len(sent) = n
    BY <1>1, <2>2
  <2>5. ASSUME NEW i \in 1..n
        PROVE  /\ HasOwn(sent[i]) /\ sent[i].role = chat[i].role
               /\ sent[i].role = "system" => sent[i].parts[1] = "own"
    <3>1. CASE i = k
      BY <1>8, <2>3, <3>1 DEF HasOwn
    <3>2. CASE i # k
      BY <1>2, <2>2, <3>2
    <3> QED
      BY <3>1, <3>2
  <2> QED
    <3>1. Len(chat) = n
      BY DEF n
    <3> QED
      BY <1>1, <2>2, <2>4, <2>5, <3>1, SameMessages
\* It is a message of its own.
<1>9. ASSUME NEW k \in 0..n, NEW role, DOMAIN sent = 1..(n + 1), Len(sent) = n + 1,
             sent[k + 1] = Block(role), \A i \in 1..k : sent[i] = chat[i],
             \A i \in (k + 1)..n : sent[i + 1] = chat[i]
      PROVE  SentInOrder(chat, sent)
  <2>1. ~HasOwn(sent[k + 1])
    BY <1>6, <1>9
  <2>2. \A i \in 1..n : HasOwn(chat[i]) /\ chat[i].parts[1] = "own"
    BY <1>2
  <2>3. Len(chat) = n
    BY DEF n
  <2> QED
    BY <1>1, <1>9, <2>1, <2>2, <2>3, OneMessageMore
<1>10. CASE position = "system" /\ sent # chat
  <2>1. sent = IF systems = {} THEN <<Block("system")>> \o chat
               ELSE [chat EXCEPT ![Min(systems)].parts = @ \o <<"block">>]
    BY <1>10 DEF sent, inject_memory, _inject_at, systems
  <2>2. CASE systems = {}
    <3> DEFINE w == Block("system")
    <3>1. sent = <<w>> \o chat
      BY <2>1, <2>2
    <3> HIDE DEF w
    <3>3. /\ DOMAIN sent = 1..(n + 1) /\ Len(sent) = n + 1 /\ sent[0 + 1] = w
          /\ \A i \in (0 + 1)..n : sent[i + 1] = chat[i]
      BY <1>1, <3>1, BlockInFront DEF n
    <3> QED
      BY <1>1, <1>9, <3>3 DEF w
  <2>3. CASE systems # {}
    <3> DEFINE k == Min(systems)
    <3>1. k \in 1..n
      BY <1>5, <2>3
    <3>2. chat[k].parts = <<"own">>
      BY <1>2, <3>1
    <3>3. PICK p : p = <<"own">> \o <<"block">>
      OBVIOUS
    <3>4. sent = [chat EXCEPT ![k].parts = p]
      BY <2>1, <2>3, <3>2, <3>3
    <3>5. "own" \in ToSet(p) /\ p[1] = "own"
      BY <3>3, PartsOfMessages
    <3> QED
      BY <1>8, <3>1, <3>4, <3>5
  <2> QED
    BY <2>2, <2>3
<1>11. CASE position = "user" /\ sent # chat
  <2>1. sent = IF users = {} THEN Append(chat, Block("user"))
               ELSE [chat EXCEPT ![Max(users)].parts = <<"block">> \o @]
    BY <1>11 DEF sent, inject_memory, _inject_at, users
  <2>2. CASE users = {}
    <3>1. sent = Append(chat, Block("user"))
      BY <2>1, <2>2
    <3> QED
      BY <1>1, <1>9, <3>1, BlockAtTheEnd DEF n
  <2>3. CASE users # {}
    <3> DEFINE k == Max(users)
    <3>1. k \in 1..n /\ chat[k].role = "user"
      BY <1>4, <2>3
    <3>2. chat[k].parts = <<"own">>
      BY <1>2, <3>1
    <3>3. PICK p : p = <<"block">> \o <<"own">>
      OBVIOUS
    <3>4. sent = [chat EXCEPT ![k].parts = p]
      BY <2>1, <2>3, <3>2, <3>3
    <3>5. "own" \in ToSet(p)
      BY <3>3, PartsOfMessages
    <3> QED
      BY <1>8, <3>1, <3>4, <3>5
  <2> QED
    BY <2>2, <2>3
<1>12. CASE position \notin {"system", "user"} /\ sent # chat
  <2>1. sent = IF users = {} THEN Append(chat, Block("assistant"))
               ELSE InsertAt(chat, Max(users), Block("assistant"))
    BY <1>12 DEF sent, inject_memory, _inject_at, users
  <2>2. CASE users = {}
    <3>1. sent = Append(chat, Block("assistant"))
      BY <2>1, <2>2
    <3> QED
      BY <1>1, <1>9, <3>1, BlockAtTheEnd DEF n
  <2>3. CASE users # {}
    <3> DEFINE k == Max(users) - 1
    <3>1. k \in 0..n /\ k + 1 = Max(users) /\ k + 1 \in 1..n
      BY <1>1, <1>4, <2>3
    <3>2. sent = InsertAt(chat, k + 1, Block("assistant"))
      BY <2>1, <2>3, <3>1
    <3> HIDE DEF k
    <3> QED
      BY <1>1, <1>9, <3>1, <3>2, BlockInBetween DEF n
  <2> QED
    BY <2>2, <2>3
<1> QED
  BY <1>7, <1>10, <1>11, <1>12

LEMMA SentIsFair ==
  ASSUME HandInv, NEW c \in Chats, NEW position, inject(c, position)
  PROVE  hand'.at = "sent" /\ VerifiedComesFirst'
<1> DEFINE chat == [i \in DOMAIN c |-> Own(c[i])]
<1>1. hand.at = "recalled" /\ hand.left = {}
      /\ hand' = [at |-> "sent", hits |-> hand.hits, fetched |-> hand.fetched, left |-> {}, budget |-> hand.budget,
                  chosen |-> hand.chosen, used |-> hand.used,
                  chat |-> chat, sent |-> inject_memory(chat, position, hand.chosen)]
  BY DEF inject
<1>2. hand \in Recalling /\ InRankOrder(hand)
  BY <1>1 DEF HandInv, NoHand
<1>3. Plain(chat)
  <2>1. c \in Seq(STRING)
    BY HandsAreSane
  <2>2. DOMAIN c = 1..Len(c) /\ Len(c) \in Nat
    BY <2>1
  <2>3. \A i \in DOMAIN chat : chat[i] = Own(chat[i].role)
    <3>1. ASSUME NEW i \in DOMAIN c PROVE chat[i] = Own(chat[i].role)
      <4>1. chat[i] = Own(c[i])
        OBVIOUS
      <4>2. Own(c[i]).role = c[i]
        BY DEF Own
      <4> QED
        BY <4>1, <4>2
    <3> QED
      BY <3>1
  <2>4. IsLog(chat)
    <3>1. DOMAIN chat = 1..Len(c)
      BY <2>2
    <3> QED
      BY <2>2, <3>1 DEF IsLog
  <2> QED
    BY <2>3, <2>4 DEF Plain
<1> HIDE DEF chat
<1>4. SentInOrder(chat, inject_memory(chat, position, hand.chosen))
  BY <1>3, InjectionKeepsChat
<1>5. /\ hand'.at = "sent" /\ hand'.hits = hand.hits /\ hand'.fetched = hand.fetched /\ hand'.left = hand.left /\ hand'.chosen = hand.chosen
      /\ hand'.used = hand.used /\ hand'.budget = hand.budget /\ hand'.chat = chat
      /\ hand'.sent = inject_memory(chat, position, hand.chosen)
  BY <1>1
<1>6. SentInOrder(hand'.chat, hand'.sent)
  BY <1>4, <1>5
<1> QED
  BY <1>2, <1>5, <1>6, OrderIsFair DEF VerifiedComesFirst, PassedOver, Candidates

LEMMA HandStep == HandInv /\ [RecallNext]_recallVars => HandInv'
<1> SUFFICES ASSUME HandInv, [RecallNext]_recallVars PROVE HandInv'
  OBVIOUS
<1>1. CASE UNCHANGED hand
  BY <1>1 DEF HandInv, VerifiedComesFirst, PassedOver, Candidates
<1>2. CASE recall
  BY <1>2, RecallStarts DEF HandInv
<1>3. CASE recall_budgeted
  <2>1. hand \in Recalling /\ InRankOrder(hand)
    BY <1>3 DEF recall_budgeted, HandInv, NoHand
  <2>2. PICK m \in Ranked(hand.left) : hand' = Taken(hand, m)
    BY <1>3 DEF recall_budgeted
  <2>3. hand' \in Recalling /\ InRankOrder(hand')
    BY <2>1, <2>2, NextIsTaken
  <2> QED
    BY <2>3 DEF HandInv
<1>4. ASSUME NEW c \in Chats, NEW position, inject(c, position) PROVE HandInv'
  BY <1>4, SentIsFair DEF HandInv
<1> QED
  BY <1>1, <1>2, <1>3, <1>4 DEF RecallNext, PastNext, HandNext, recallVars

\* For any hits, limits, budget and messages: a relevant verified memory that was
\* passed over left room only to more relevant or cheaper candidates, or, if the
\* index did not return it, to candidates at least as relevant; the budget is kept
\* or it was one memory, and the caller's messages are all sent, in order.
THEOREM VerifiedStaysFirst == RecallSpec => []VerifiedComesFirst
<1>1. RecallInit => HandInv
  BY DEF RecallInit, HandInv
<1>2. HandInv => VerifiedComesFirst
  <2> SUFFICES ASSUME HandInv, hand # NoHand, hand \in Recalling, InRankOrder(hand)
               PROVE  VerifiedComesFirst
    BY DEF HandInv, VerifiedComesFirst
  <2>1. hand.at # "sent"
    BY DEF Recalling
  <2> QED
    BY <2>1, OrderIsFair DEF VerifiedComesFirst, PassedOver, Candidates
<1> QED
  BY <1>1, <1>2, HandStep, PTL DEF RecallSpec

\* What a store answers is honest, about the past and for a prompt.
THEOREM AnswersStayHonest == RecallSpec => []AnswersAreHonest
BY PastStaysHonest, VerifiedStaysFirst, PTL DEF AnswersAreHonest

-----------------------------------------------------------------------------
(* The audit.  Ids are given out once, so of the lines that parse no two   *)
(* have the same hash; an answered call wrote its line before it answered; *)
(* and what verifies is the file as it was before, with one more line.     *)

Parsed(ls) == {i \in DOMAIN ls : ~ls[i].torn}
LineOk(l, next) ==
  /\ "intact" \in DOMAIN l /\ l.torn \in BOOLEAN /\ (l.torn => ~l.intact)
  /\ ~l.torn => l.hash \in 1..(next - 1)
LinesOk(ls, next) ==
  /\ IsLog(ls) /\ \A i \in DOMAIN ls : LineOk(ls[i], next)
  /\ \A i, j \in Parsed(ls) : ls[i].hash = ls[j].hash => i = j
Unused(id, ls) == \A i \in Parsed(ls) : ls[i].hash # id

CallFields == {"op", "at", "before", "out", "id"}
Pending(p) == audit.call[p] # NoCall
Verifies(ls) ==
  \A i \in DOMAIN ls : /\ ~ls[i].torn /\ ls[i].intact
                       /\ ls[i].prev = (IF i = 1 THEN _GENESIS ELSE ls[i - 1].hash)
Entered(id, ls) == \E i \in DOMAIN ls : ls[i].hash = id /\ ls[i].intact
AuditInv ==
  /\ DOMAIN file = {"lines", "open"} /\ file.open \in BOOLEAN /\ (file.open => file.lines # <<>>)
  /\ DOMAIN audit = {"head", "call", "answered", "next"} /\ audit.next \in Nat \ {0}
  /\ DOMAIN audit.call = Auditor
  /\ LinesOk(file.lines, audit.next)
  /\ \A p \in Auditor : Pending(p) =>
       /\ DOMAIN audit.call[p] = CallFields /\ audit.call[p].op \in {"write", "mutate", "decay"}
       /\ audit.call[p].id \in 1..(audit.next - 1) /\ Unused(audit.call[p].id, file.lines)
       /\ \A q \in Auditor : Pending(q) /\ audit.call[q].id = audit.call[p].id => q = p
  /\ Verifies(file.lines) => \A id \in audit.answered : Entered(id, file.lines)

LEMMA TakeOut ==
  ASSUME NEW q, IsLog(q), NEW k \in 1..(Len(q) - 1)
  PROVE  /\ IsLog(RemoveAt(q, k)) /\ Len(q) \in Nat /\ DOMAIN q = 1..Len(q)
         /\ DOMAIN RemoveAt(q, k) = 1..(Len(q) - 1)
         /\ \A j \in 1..(Len(q) - 1) : RemoveAt(q, k)[j] = IF j < k THEN q[j] ELSE q[j + 1]
<1> DEFINE S == {q[i] : i \in DOMAIN q}
           l == SubSeq(q, 1, k - 1)
           r == SubSeq(q, k + 1, Len(q))
           new == l \o r
<1>1. q \in Seq(S) /\ Len(q) \in Nat /\ DOMAIN q = 1..Len(q) /\ k \in Nat
  BY DEF IsLog
<1>2. RemoveAt(q, k) = new
  BY DEF RemoveAt
<1>3. l \in Seq(S) /\ Len(l) = k - 1 /\ \A j \in 1..(k - 1) : l[j] = q[j]
  <2>1. 1 \in Int /\ k - 1 \in Int /\ \A i \in 1..(k - 1) : q[i] \in S
    BY <1>1
  <2> HIDE DEF S
  <2>2. /\ l \in Seq(S) /\ Len(l) = IF 1 <= k - 1 THEN (k - 1) - 1 + 1 ELSE 0
        /\ \A j \in 1..((k - 1) - 1 + 1) : l[j] = q[1 + j - 1]
    BY <2>1, SubSeqProperties
  <2> HIDE DEF l
  <2>3. Len(l) = k - 1
    BY <1>1, <2>2
  <2>4. ASSUME NEW j \in 1..(k - 1) PROVE l[j] = q[j]
    <3>1. j \in 1..((k - 1) - 1 + 1) /\ 1 + j - 1 = j
      BY <1>1
    <3> QED
      BY <2>2, <3>1
  <2> QED
    BY <2>2, <2>3, <2>4
<1>4. r \in Seq(S) /\ Len(r) = Len(q) - k /\ \A j \in 1..(Len(q) - k) : r[j] = q[k + j]
  <2>1. k + 1 \in Int /\ Len(q) \in Int /\ \A i \in (k + 1)..Len(q) : q[i] \in S
    BY <1>1
  <2> HIDE DEF S
  <2>2. /\ r \in Seq(S) /\ Len(r) = IF k + 1 <= Len(q) THEN Len(q) - (k + 1) + 1 ELSE 0
        /\ \A j \in 1..(Len(q) - (k + 1) + 1) : r[j] = q[(k + 1) + j - 1]
    BY <2>1, SubSeqProperties
  <2> HIDE DEF r
  <2>3. Len(r) = Len(q) - k
    BY <1>1, <2>2
  <2>4. ASSUME NEW j \in 1..(Len(q) - k) PROVE r[j] = q[k + j]
    <3>1. j \in 1..(Len(q) - (k + 1) + 1) /\ (k + 1) + j - 1 = k + j
      BY <1>1
    <3> QED
      BY <2>2, <3>1
  <2> QED
    BY <2>2, <2>3, <2>4
<1> HIDE DEF l, r, S
<1>5. new \in Seq(S) /\ Len(new) = Len(q) - 1
      /\ \A j \in 1..(Len(q) - 1) : new[j] = IF j <= k - 1 THEN l[j] ELSE r[j - (k - 1)]
  <2>1. l \in Seq(S) /\ r \in Seq(S)
    BY <1>3, <1>4
  <2>2. new \in Seq(S) /\ Len(new) = Len(l) + Len(r)
        /\ \A j \in 1..(Len(l) + Len(r)) : new[j] = IF j <= Len(l) THEN l[j] ELSE r[j - Len(l)]
    BY <2>1
  <2> HIDE DEF new
  <2>3. Len(l) + Len(r) = Len(q) - 1 /\ Len(l) = k - 1
    BY <1>1, <1>3, <1>4
  <2> QED
    BY <2>2, <2>3
<1> HIDE DEF new
<1>6. ASSUME NEW j \in 1..(Len(q) - 1) PROVE new[j] = IF j < k THEN q[j] ELSE q[j + 1]
  <2>1. CASE j < k
    BY <1>1, <1>3, <1>5, <2>1
  <2>2. CASE ~(j < k)
    <3>1. j - (k - 1) \in 1..(Len(q) - k) /\ k + (j - (k - 1)) = j + 1
      BY <1>1, <2>2
    <3> QED
      BY <1>1, <1>4, <1>5, <2>2, <3>1
  <2> QED
    BY <2>1, <2>2
<1>7. DOMAIN new = 1..(Len(q) - 1) /\ IsLog(new)
  BY <1>1, <1>5, LogOfSeq
<1> QED
  BY <1>1, <1>2, <1>6, <1>7

\* Appending adds the line, or spoils the last one.
LEMMA AppendedLine ==
  ASSUME AuditInv, NEW l
  PROVE  LET ls == file.lines  new == Appended(l) IN
         /\ IsLog(new) /\ Len(ls) \in Nat /\ DOMAIN ls = 1..Len(ls)
         /\ \/ /\ ~file.open /\ DOMAIN new = 1..(Len(ls) + 1) /\ new[Len(ls) + 1] = l
               /\ \A i \in 1..Len(ls) : new[i] = ls[i]
            \/ /\ file.open /\ Len(ls) >= 1 /\ DOMAIN new = 1..Len(ls) /\ new[Len(ls)] = Torn
               /\ \A i \in 1..(Len(ls) - 1) : new[i] = ls[i]
<1> DEFINE ls == file.lines
           new == Appended(l)
<1>1. IsLog(ls) /\ (file.open => ls # <<>>) /\ file.open \in BOOLEAN
  BY DEF AuditInv, LinesOk
<1> DEFINE S == {ls[i] : i \in DOMAIN ls}
<1>2. ls \in Seq(S) /\ Len(ls) \in Nat /\ DOMAIN ls = 1..Len(ls)
  BY <1>1 DEF IsLog
<1>3. CASE ~file.open
  BY <1>1, <1>2, <1>3, AppendToLog DEF Appended
<1>4. CASE file.open
  <2> DEFINE f == Front(ls)
             n == Len(ls)
  <2>1. n >= 1
    BY <1>1, <1>2, <1>4
  <2> HIDE DEF S
  <2>2. f \in Seq(S) /\ Len(f) = n - 1 /\ \A i \in 1..(n - 1) : f[i] = ls[i]
    BY <1>2, <2>1 DEF Front
  <2> HIDE DEF f
  <2>3. IsLog(f)
    BY <2>2, LogOfSeq
  <2>4. new = Append(f, Torn)
    BY <1>4 DEF Appended, f
  <2>5. /\ IsLog(Append(f, Torn)) /\ DOMAIN Append(f, Torn) = 1..(Len(f) + 1)
        /\ Append(f, Torn)[Len(f) + 1] = Torn /\ \A i \in 1..Len(f) : Append(f, Torn)[i] = f[i]
    BY <2>3, AppendToLog, SMTT(60)
  <2>6. IsLog(new) /\ DOMAIN new = 1..n /\ new[n] = Torn /\ \A i \in 1..(n - 1) : new[i] = ls[i]
    <3> HIDE DEF new, ls
    <3>1. Len(f) + 1 = n
      BY <1>2, <2>1, <2>2
    <3> QED
      BY <1>2, <2>1, <2>2, <2>4, <2>5, <3>1, ZenonT(60)
  <2> HIDE DEF new
  <2>7. /\ IsLog(new) /\ DOMAIN new = 1..Len(ls) /\ new[Len(ls)] = Torn
        /\ \A i \in 1..(Len(ls) - 1) : new[i] = ls[i]
    BY <2>6
  <2> QED
    BY <1>2, <1>4, <2>1, <2>7 DEF new
<1> QED
  BY <1>1, <1>3, <1>4

LEMMA FileGrows ==
  ASSUME AuditInv, NEW l, LineOk(l, audit.next), l.torn \/ Unused(l.hash, file.lines)
  PROVE  LET ls == file.lines  new == Appended(l) IN
         /\ LinesOk(new, audit.next) /\ new # <<>>
         /\ Verifies(new) => /\ ~l.torn /\ Verifies(ls) /\ Entered(l.hash, new)
                             /\ \A id : Entered(id, ls) => Entered(id, new)
         /\ \A id : Unused(id, ls) /\ (l.torn \/ id # l.hash) => Unused(id, new)
<1> DEFINE ls == file.lines
           n == Len(ls)
           new == Appended(l)
<1>1. LinesOk(ls, audit.next) /\ audit.next \in Nat
  BY DEF AuditInv
<1>2. IsLog(new) /\ n \in Nat /\ DOMAIN ls = 1..n
  BY AppendedLine
<1>3. LineOk(Torn, audit.next) /\ Torn.torn /\ ~Torn.intact
  BY DEF LineOk, Torn
<1>4. \/ /\ ~file.open /\ DOMAIN new = 1..(n + 1) /\ new[n + 1] = l
         /\ \A i \in 1..n : new[i] = ls[i]
      \/ /\ file.open /\ n >= 1 /\ DOMAIN new = 1..n /\ new[n] = Torn
         /\ \A i \in 1..(n - 1) : new[i] = ls[i]
  BY AppendedLine
<1> HIDE DEF ls, n, new
<1>5. CASE /\ ~file.open /\ DOMAIN new = 1..(n + 1) /\ new[n + 1] = l
           /\ \A i \in 1..n : new[i] = ls[i]
  <2>1. \A i \in DOMAIN new : LineOk(new[i], audit.next)
    BY <1>1, <1>2, <1>5 DEF LinesOk
  <2>2. \A i \in Parsed(new) : (i = n + 1 /\ new[i] = l /\ ~l.torn) \/ (i \in Parsed(ls) /\ new[i] = ls[i])
    <3> SUFFICES ASSUME NEW i \in Parsed(new)
                 PROVE  (i = n + 1 /\ new[i] = l /\ ~l.torn) \/ (i \in Parsed(ls) /\ new[i] = ls[i])
      OBVIOUS
    <3>1. i \in DOMAIN new /\ ~new[i].torn
      BY DEF Parsed
    <3>2. i = n + 1 \/ i \in 1..n
      BY <1>2, <1>5, <3>1
    <3> QED
      BY <1>2, <1>5, <3>1, <3>2 DEF Parsed
  <2>3. ASSUME NEW i \in Parsed(new), NEW j \in Parsed(new), new[i].hash = new[j].hash PROVE i = j
    BY <1>1, <2>2, <2>3 DEF LinesOk, Unused, ls
  <2>4. LinesOk(new, audit.next)
    BY <1>2, <2>1, <2>3 DEF LinesOk
  <2>5. ASSUME Verifies(new) PROVE ~l.torn /\ Verifies(ls) /\ Entered(l.hash, new)
    <3>1. ~l.torn /\ l.intact
      BY <1>2, <1>5, <2>5 DEF Verifies
    <3>2. ASSUME NEW i \in 1..n
          PROVE  ~ls[i].torn /\ ls[i].intact /\ ls[i].prev = (IF i = 1 THEN _GENESIS ELSE ls[i - 1].hash)
      <4>1. new[i] = ls[i] /\ (i # 1 => new[i - 1] = ls[i - 1]) /\ i \in DOMAIN new
        BY <1>2, <1>5
      <4> QED
        BY <2>5, <4>1 DEF Verifies
    <3> QED
      BY <1>2, <1>5, <3>1, <3>2 DEF Verifies, Entered
  <2>6. \A id : Entered(id, ls) => Entered(id, new)
    BY <1>2, <1>5 DEF Entered
  <2>7. \A id : Unused(id, ls) /\ (l.torn \/ id # l.hash) => Unused(id, new)
    BY <2>2 DEF Unused
  <2>8. new # <<>>
    BY <1>2, <1>5
  <2> QED
    BY <2>4, <2>5, <2>6, <2>7, <2>8 DEF new, ls
<1>6. CASE /\ file.open /\ n >= 1 /\ DOMAIN new = 1..n /\ new[n] = Torn
           /\ \A i \in 1..(n - 1) : new[i] = ls[i]
  <2>1. \A i \in DOMAIN new : new[i] = Torn \/ (i \in DOMAIN ls /\ new[i] = ls[i])
    <3> SUFFICES ASSUME NEW i \in DOMAIN new PROVE new[i] = Torn \/ (i \in DOMAIN ls /\ new[i] = ls[i])
      OBVIOUS
    <3>1. i = n \/ i \in 1..(n - 1)
      BY <1>2, <1>6
    <3> QED
      BY <1>2, <1>6, <3>1
  <2>2. \A i \in DOMAIN new : LineOk(new[i], audit.next)
    BY <1>1, <1>3, <2>1 DEF LinesOk
  <2>3. \A i \in Parsed(new) : i \in Parsed(ls) /\ new[i] = ls[i]
    BY <1>3, <2>1 DEF Parsed
  <2>4. LinesOk(new, audit.next)
    BY <1>1, <1>2, <2>2, <2>3 DEF LinesOk
  <2>5. ~Verifies(new)
    BY <1>2, <1>3, <1>6 DEF Verifies
  <2>6. \A id : Unused(id, ls) => Unused(id, new)
    BY <2>3 DEF Unused
  <2>7. new # <<>>
    BY <1>2, <1>6
  <2> QED
    BY <2>4, <2>5, <2>6, <2>7 DEF new, ls
<1> QED
  BY <1>4, <1>5, <1>6

LEMMA GetBeforeKeeps ==
  ASSUME AuditInv, NEW p \in Auditor, NEW op \in {"write", "mutate", "decay"}, get_before(p, op)
  PROVE  AuditInv'
<1> DEFINE c == [op |-> op, at |-> "call", before |-> held, out |-> 0, id |-> audit.next]
           n == audit.next
<1>1. audit' = [audit EXCEPT !.call[p] = c, !.next = @ + 1] /\ file' = file
  BY DEF get_before
<1>2. DOMAIN audit = {"head", "call", "answered", "next"} /\ n \in Nat \ {0} /\ DOMAIN audit.call = Auditor
  BY DEF AuditInv
<1>3. c # NoCall /\ DOMAIN c = CallFields /\ c.op = op /\ c.id = n
  BY DEF NoCall, CallFields
<1> HIDE DEF c
<1>4. /\ DOMAIN audit' = {"head", "call", "answered", "next"} /\ audit'.next = n + 1
      /\ audit'.answered = audit.answered /\ DOMAIN audit'.call = Auditor /\ audit'.call[p] = c
      /\ \A q \in Auditor \ {p} : audit'.call[q] = audit.call[q]
  BY <1>1, <1>2
<1>5. LinesOk(file.lines, n) /\ LinesOk(file.lines, n + 1) /\ Unused(n, file.lines)
  <2>1. LinesOk(file.lines, n)
    BY DEF AuditInv
  <2>2. \A i \in DOMAIN file.lines : LineOk(file.lines[i], n + 1)
    BY <1>2, <2>1 DEF LinesOk, LineOk
  <2>3. Unused(n, file.lines)
    BY <1>2, <2>1 DEF LinesOk, LineOk, Unused, Parsed
  <2> QED
    BY <2>1, <2>2, <2>3 DEF LinesOk
<1>6. ASSUME NEW q \in Auditor, Pending(q)'
      PROVE  /\ DOMAIN audit'.call[q] = CallFields /\ audit'.call[q].op \in {"write", "mutate", "decay"}
             /\ audit'.call[q].id \in 1..n /\ Unused(audit'.call[q].id, file.lines)
             /\ \A r \in Auditor : Pending(r)' /\ audit'.call[r].id = audit'.call[q].id => r = q
  <2>1. \A r \in Auditor \ {p} : Pending(r)' =>
          /\ DOMAIN audit'.call[r] = CallFields /\ audit'.call[r].op \in {"write", "mutate", "decay"}
          /\ audit'.call[r].id \in 1..(n - 1) /\ Unused(audit'.call[r].id, file.lines)
          /\ \A t \in Auditor \ {p} : Pending(t)' /\ audit'.call[t].id = audit'.call[r].id => t = r
    BY <1>4 DEF Pending, AuditInv
  <2> QED
    BY <1>2, <1>3, <1>4, <1>5, <1>6, <2>1
<1>7. file'.lines = file.lines /\ file'.open = file.open /\ DOMAIN file' = DOMAIN file
  BY <1>1
<1> QED
  BY <1>1, <1>2, <1>4, <1>5, <1>6, <1>7 DEF AuditInv, Pending, Verifies, Entered, Unused, Parsed

\* A call that logs nothing changed nothing, and is answered by no entry.
LEMMA CallKeeps ==
  ASSUME AuditInv, NEW p \in Auditor, call_inner(p)
  PROVE  AuditInv'
<1> DEFINE c == audit.call[p]
           n == audit.next
<1>1. c # NoCall /\ file' = file
  BY DEF call_inner
<1>2. PICK out \in Outcomes(c) :
        audit' = [audit EXCEPT !.call[p] = IF Logs(c.op, c.before, out # held, out)
                                             THEN [c EXCEPT !.at = "log", !.out = out] ELSE NoCall,
                               !.answered = IF ~Logs(c.op, c.before, out # held, out) /\ out # held
                                              THEN @ \cup {c.id} ELSE @]
  BY DEF call_inner
<1> DEFINE new == IF Logs(c.op, c.before, out # held, out) THEN [c EXCEPT !.at = "log", !.out = out] ELSE NoCall
           silent == ~Logs(c.op, c.before, out # held, out) /\ out # held
<1>3. DOMAIN audit = {"head", "call", "answered", "next"} /\ n \in Nat \ {0} /\ DOMAIN audit.call = Auditor
  BY DEF AuditInv
<1>4. DOMAIN c = CallFields /\ c.op \in {"write", "mutate", "decay"} /\ c.id \in 1..(n - 1)
  BY <1>1 DEF AuditInv, Pending
<1>5. ~silent
  <2>1. CASE c.op = "write"
    BY <2>1 DEF Logs
  <2>2. CASE c.op = "decay"
    BY <2>2 DEF Logs
  <2>3. CASE c.op = "mutate"
    <3>1. out = IF held = 0 THEN 0 ELSE c.id
      BY <2>3 DEF Outcomes
    <3>2. silent => out = 0
      BY <2>3 DEF Logs
    <3> QED
      BY <1>3, <1>4, <3>1, <3>2
  <2> QED
    BY <1>4, <2>1, <2>2, <2>3
<1>6. new # NoCall => DOMAIN new = CallFields /\ new.op = c.op /\ new.id = c.id
  BY <1>4 DEF CallFields
<1>7. audit' = [audit EXCEPT !.call[p] = new, !.answered = @]
  BY <1>2, <1>5
<1> HIDE DEF new, c
<1>8. /\ DOMAIN audit' = {"head", "call", "answered", "next"} /\ audit'.next = n
      /\ audit'.answered = audit.answered /\ DOMAIN audit'.call = Auditor /\ audit'.call[p] = new
      /\ \A q \in Auditor \ {p} : audit'.call[q] = audit.call[q]
  BY <1>3, <1>7
<1>9. \A q \in Auditor : Pending(q)' =>
        Pending(q) /\ audit'.call[q].id = audit.call[q].id /\ audit'.call[q].op = audit.call[q].op
        /\ DOMAIN audit'.call[q] = CallFields
  BY <1>1, <1>6, <1>8 DEF Pending, AuditInv, c
<1>10. file'.lines = file.lines /\ file'.open = file.open /\ DOMAIN file' = DOMAIN file
  BY <1>1
<1>11. ASSUME NEW q \in Auditor, Pending(q)'
       PROVE  /\ DOMAIN audit'.call[q] = CallFields /\ audit'.call[q].op \in {"write", "mutate", "decay"}
              /\ audit'.call[q].id \in 1..(n - 1) /\ Unused(audit'.call[q].id, file.lines)
              /\ \A r \in Auditor : Pending(r)' /\ audit'.call[r].id = audit'.call[q].id => r = q
  BY <1>9, <1>11 DEF AuditInv
<1> QED
  BY <1>3, <1>8, <1>10, <1>11 DEF AuditInv, Pending, LinesOk, LineOk, Verifies, Entered, Unused, Parsed

\* What a process writes is its call's line, or a part of it.
LEMMA LineWritten ==
  ASSUME NEW p, audit.call[p].id \in 1..(audit.next - 1)
  PROVE  LineOk(Line(p), audit.next) /\ ~Line(p).torn /\ Line(p).hash = audit.call[p].id
BY DEF Line, Entry, LineOk

\* A process is done with its call: its line is in the file, or it died.
LEMMA DoneKeeps ==
  ASSUME AuditInv, NEW p \in Auditor, NEW done,
         /\ DOMAIN audit' = {"head", "call", "answered", "next"} /\ audit'.next = audit.next
         /\ audit'.answered = audit.answered \cup done /\ DOMAIN audit'.call = Auditor
         /\ audit'.call[p] = NoCall /\ \A q \in Auditor \ {p} : audit'.call[q] = audit.call[q],
         /\ DOMAIN file' = {"lines", "open"} /\ file'.open \in BOOLEAN /\ (file'.open => file'.lines # <<>>)
         /\ LinesOk(file'.lines, audit.next)
         /\ \A id : Unused(id, file.lines) /\ (Pending(p) => id # audit.call[p].id) => Unused(id, file'.lines),
         Verifies(file'.lines) =>
           /\ Verifies(file.lines) /\ \A id \in done : Entered(id, file'.lines)
           /\ \A id \in audit.answered : Entered(id, file.lines) => Entered(id, file'.lines)
  PROVE  AuditInv'
<1>1. audit.next \in Nat \ {0}
  BY DEF AuditInv
<1>2. ASSUME NEW q \in Auditor, Pending(q)'
      PROVE  /\ DOMAIN audit'.call[q] = CallFields /\ audit'.call[q].op \in {"write", "mutate", "decay"}
             /\ audit'.call[q].id \in 1..(audit.next - 1) /\ Unused(audit'.call[q].id, file'.lines)
             /\ \A r \in Auditor : Pending(r)' /\ audit'.call[r].id = audit'.call[q].id => r = q
  <2>1. \A r \in Auditor : Pending(r)' => r # p /\ Pending(r) /\ audit'.call[r] = audit.call[r]
    BY DEF Pending
  <2>2. /\ DOMAIN audit.call[q] = CallFields /\ audit.call[q].op \in {"write", "mutate", "decay"}
        /\ audit.call[q].id \in 1..(audit.next - 1) /\ Unused(audit.call[q].id, file.lines)
        /\ \A r \in Auditor : Pending(r) /\ audit.call[r].id = audit.call[q].id => r = q
    BY <1>2, <2>1 DEF AuditInv
  <2>3. Pending(p) => audit.call[q].id # audit.call[p].id
    BY <1>2, <2>1, <2>2
  <2> QED
    BY <1>2, <2>1, <2>2, <2>3
<1>3. Verifies(file'.lines) => \A id \in audit'.answered : Entered(id, file'.lines)
  BY DEF AuditInv
<1> QED
  BY <1>1, <1>2, <1>3 DEF AuditInv, Pending, LinesOk, LineOk, Verifies, Entered, Unused, Parsed

LEMMA AppendKeeps ==
  ASSUME AuditInv, NEW p \in Auditor, append(p)
  PROVE  AuditInv'
<1> DEFINE c == audit.call[p]
           l == Line(p)
           ls == Appended(l)
<1>1. c # NoCall /\ file' = [lines |-> ls, open |-> FALSE]
      /\ audit' = [audit EXCEPT !.head[p] = c.id, !.call[p] = NoCall, !.answered = @ \cup {c.id}]
  BY DEF append
<1>2. c.id \in 1..(audit.next - 1) /\ Unused(c.id, file.lines) /\ Pending(p)
  BY <1>1 DEF AuditInv, Pending
<1>3. LineOk(l, audit.next) /\ ~l.torn /\ l.hash = c.id
  BY <1>2, LineWritten
<1> HIDE DEF l
<1>4. /\ LinesOk(ls, audit.next)
      /\ Verifies(ls) => /\ Verifies(file.lines) /\ Entered(l.hash, ls)
                         /\ \A id : Entered(id, file.lines) => Entered(id, ls)
      /\ \A id : Unused(id, file.lines) /\ (l.torn \/ id # l.hash) => Unused(id, ls)
  BY <1>2, <1>3, FileGrows
<1>5. DOMAIN audit = {"head", "call", "answered", "next"} /\ DOMAIN audit.call = Auditor
  BY DEF AuditInv
<1>6. /\ DOMAIN audit' = {"head", "call", "answered", "next"} /\ audit'.next = audit.next
      /\ audit'.answered = audit.answered \cup {c.id} /\ DOMAIN audit'.call = Auditor
      /\ audit'.call[p] = NoCall /\ \A q \in Auditor \ {p} : audit'.call[q] = audit.call[q]
  BY <1>1, <1>5
<1> HIDE DEF ls
<1>7. DOMAIN file' = {"lines", "open"} /\ file'.open = FALSE /\ file'.lines = ls
  BY <1>1
<1> DEFINE done == {c.id}
<1>8. /\ DOMAIN file' = {"lines", "open"} /\ file'.open \in BOOLEAN /\ (file'.open => file'.lines # <<>>)
      /\ LinesOk(file'.lines, audit.next)
      /\ \A id : Unused(id, file.lines) /\ (Pending(p) => id # audit.call[p].id) => Unused(id, file'.lines)
  BY <1>2, <1>3, <1>4, <1>7
<1>9. Verifies(file'.lines) =>
           /\ Verifies(file.lines) /\ \A id \in done : Entered(id, file'.lines)
           /\ \A id \in audit.answered : Entered(id, file.lines) => Entered(id, file'.lines)
  BY <1>3, <1>4, <1>7
<1>10. audit'.answered = audit.answered \cup done
  BY <1>6
<1> HIDE DEF done, c
<1> QED
  BY <1>6, <1>8, <1>9, <1>10, DoneKeeps

LEMMA CrashKeeps ==
  ASSUME AuditInv, NEW p \in Auditor, Crash(p)
  PROVE  AuditInv'
<1> DEFINE c == audit.call[p]
<1>1. audit' = [audit EXCEPT !.head[p] = NoHead, !.call[p] = NoCall]
  BY DEF Crash
<1>2. DOMAIN audit = {"head", "call", "answered", "next"} /\ DOMAIN audit.call = Auditor
      /\ DOMAIN file = {"lines", "open"} /\ file.open \in BOOLEAN /\ (file.open => file.lines # <<>>)
      /\ LinesOk(file.lines, audit.next)
  BY DEF AuditInv
<1>3. /\ DOMAIN audit' = {"head", "call", "answered", "next"} /\ audit'.next = audit.next
      /\ audit'.answered = audit.answered \cup {} /\ DOMAIN audit'.call = Auditor
      /\ audit'.call[p] = NoCall /\ \A q \in Auditor \ {p} : audit'.call[q] = audit.call[q]
  BY <1>1, <1>2
<1>4. CASE UNCHANGED file
  BY <1>2, <1>3, <1>4, DoneKeeps
<1>5. CASE c # NoCall /\ file' \in {[lines |-> Appended(l), open |-> o] : l \in {Line(p), Torn}, o \in BOOLEAN}
  <2>1. PICK l \in {Line(p), Torn}, o \in BOOLEAN : file' = [lines |-> Appended(l), open |-> o]
    BY <1>5
  <2> DEFINE ls == Appended(l)
  <2>2. c.id \in 1..(audit.next - 1) /\ Unused(c.id, file.lines) /\ Pending(p)
    BY <1>5 DEF AuditInv, Pending
  <2>3. LineOk(l, audit.next) /\ (l.torn \/ l.hash = c.id)
    <3>1. LineOk(Torn, audit.next) /\ Torn.torn
      BY DEF LineOk, Torn
    <3> QED
      BY <2>2, <3>1, LineWritten
  <2>4. /\ LinesOk(ls, audit.next) /\ ls # <<>>
        /\ Verifies(ls) => Verifies(file.lines) /\ \A id : Entered(id, file.lines) => Entered(id, ls)
        /\ \A id : Unused(id, file.lines) /\ (l.torn \/ id # l.hash) => Unused(id, ls)
    BY <2>2, <2>3, FileGrows
  <2> HIDE DEF ls
  <2>5. DOMAIN file' = {"lines", "open"} /\ file'.open = o /\ file'.lines = ls
    BY <2>1 DEF ls
  <2> QED
    BY <1>3, <2>2, <2>3, <2>4, <2>5, DoneKeeps
<1> QED
  BY <1>4, <1>5 DEF Crash

\* A file that somebody changed does not verify; no id is used that was not.
LEMMA TamperKeeps ==
  ASSUME AuditInv, UNCHANGED audit,
         DOMAIN file' = {"lines", "open"}, file'.open = file.open, file'.lines # <<>>,
         LinesOk(file'.lines, audit.next), ~Verifies(file'.lines),
         \A id : Unused(id, file.lines) => Unused(id, file'.lines)
  PROVE  AuditInv'
<1>1. \A p \in Auditor : Pending(p)' = Pending(p)
  BY DEF Pending
<1>2. (file.open \in BOOLEAN)' /\ (file.open => file.lines # <<>>)' /\ (DOMAIN file = {"lines", "open"})'
  BY DEF AuditInv
<1>3. LinesOk(file.lines, audit.next)'
  BY DEF LinesOk, LineOk, Parsed
<1>4. ~Verifies(file.lines)'
  BY DEF Verifies
<1>5. ASSUME NEW p \in Auditor, Pending(p)
      PROVE  /\ DOMAIN audit.call[p] = CallFields /\ audit.call[p].op \in {"write", "mutate", "decay"}
             /\ audit.call[p].id \in 1..(audit.next - 1) /\ Unused(audit.call[p].id, file'.lines)
             /\ \A q \in Auditor : Pending(q) /\ audit.call[q].id = audit.call[p].id => q = p
  BY <1>5 DEF AuditInv
<1> QED
  BY <1>1, <1>2, <1>3, <1>4, <1>5 DEF AuditInv, Unused, Parsed

LEMMA EditKeeps ==
  ASSUME AuditInv, EditLine
  PROVE  AuditInv'
<1> DEFINE ls == file.lines
<1>1. PICK k \in DOMAIN ls : file' = [file EXCEPT !.lines[k].intact = FALSE]
  BY DEF EditLine
<1>2. DOMAIN file = {"lines", "open"} /\ LinesOk(ls, audit.next)
  BY DEF AuditInv
<1> DEFINE line == [ls[k] EXCEPT !.intact = FALSE]
           new == [ls EXCEPT ![k] = line]
<1>3. DOMAIN file' = {"lines", "open"} /\ file'.open = file.open /\ file'.lines = new
  BY <1>1, <1>2
<1>4. LineOk(ls[k], audit.next) /\ IsLog(ls)
  BY <1>2 DEF LinesOk
<1>5. line.torn = ls[k].torn /\ line.hash = ls[k].hash /\ ~line.intact /\ DOMAIN line = DOMAIN ls[k]
  BY <1>4 DEF LineOk
<1>6. LineOk(line, audit.next)
  BY <1>4, <1>5 DEF LineOk
<1> HIDE DEF line
<1>7. ls \in Seq({ls[i] : i \in DOMAIN ls}) /\ Len(ls) \in Nat /\ DOMAIN ls = 1..Len(ls)
  BY <1>4 DEF IsLog
<1>8. DOMAIN new = DOMAIN ls /\ new[k] = line /\ \A i \in DOMAIN ls \ {k} : new[i] = ls[i]
  OBVIOUS
<1>9. IsLog(new)
  <2> DEFINE S == {ls[i] : i \in DOMAIN ls} \cup {line}
  <2>1. ls \in Seq(S)
    BY <1>7
  <2>2. new \in Seq(S)
    BY <1>7, <2>1
  <2> HIDE DEF new, S
  <2> QED
    BY <2>2, LogOfSeq
<1> HIDE DEF new
<1>10. \A i \in DOMAIN new : new[i].torn = ls[i].torn /\ new[i].hash = ls[i].hash /\ LineOk(new[i], audit.next)
  BY <1>2, <1>5, <1>6, <1>8 DEF LinesOk
<1>11. LinesOk(new, audit.next) /\ \A id : Unused(id, ls) => Unused(id, new)
  BY <1>2, <1>8, <1>9, <1>10 DEF LinesOk, Parsed, Unused
<1>12. ~Verifies(new) /\ new # <<>>
  BY <1>5, <1>8 DEF Verifies
<1> QED
  BY <1>3, <1>11, <1>12, TamperKeeps DEF EditLine

LEMMA DeleteKeeps ==
  ASSUME AuditInv, DeleteLine
  PROVE  AuditInv'
<1> DEFINE ls == file.lines
           n == Len(ls)
<1>1. PICK k \in 1..(n - 1) : file' = [file EXCEPT !.lines = RemoveAt(@, k)]
  BY DEF DeleteLine
<1> DEFINE new == RemoveAt(ls, k)
<1>2. DOMAIN file = {"lines", "open"} /\ LinesOk(ls, audit.next) /\ audit.next \in Nat \ {0}
  BY DEF AuditInv
<1>3. DOMAIN file' = {"lines", "open"} /\ file'.open = file.open /\ file'.lines = new
  BY <1>1, <1>2
<1>4. IsLog(ls)
  BY <1>2 DEF LinesOk
<1>5. /\ IsLog(new) /\ n \in Nat /\ DOMAIN ls = 1..n /\ DOMAIN new = 1..(n - 1)
      /\ \A j \in 1..(n - 1) : new[j] = IF j < k THEN ls[j] ELSE ls[j + 1]
  BY <1>4, TakeOut
<1> HIDE DEF new, n, ls
<1> DEFINE Before(j) == IF j < k THEN j ELSE j + 1
<1>6. \A j \in 1..(n - 1) : Before(j) \in 1..n /\ new[j] = ls[Before(j)]
  BY <1>1, <1>5
<1>7. \A i, j \in 1..(n - 1) : Before(i) = Before(j) => i = j
  BY <1>1, <1>5
<1> HIDE DEF Before
<1>8. LinesOk(new, audit.next)
  <2>1. \A j \in DOMAIN new : LineOk(new[j], audit.next)
    BY <1>2, <1>5, <1>6 DEF LinesOk
  <2>2. \A j \in Parsed(new) : j \in 1..(n - 1) /\ Before(j) \in Parsed(ls) /\ new[j] = ls[Before(j)]
    BY <1>5, <1>6 DEF Parsed
  <2> QED
    BY <1>2, <1>5, <1>7, <2>1, <2>2 DEF LinesOk
<1>9. \A id : Unused(id, ls) => Unused(id, new)
  BY <1>5, <1>6 DEF Unused, Parsed
<1>10. ~Verifies(new)
  <2>1. \A i \in 1..n : ~ls[i].torn /\ ls[i].prev = (IF i = 1 THEN _GENESIS ELSE ls[i - 1].hash)
    BY <1>5 DEF DeleteLine, verify, ls
  <2>2. k \in 1..n /\ k + 1 \in 1..n /\ k + 1 # 1 /\ (k + 1) - 1 = k /\ (k # 1 => k - 1 \in 1..n)
    BY <1>1, <1>5
  <2>3. new[k] = ls[k + 1] /\ ls[k + 1].prev = ls[k].hash
    BY <1>1, <1>5, <2>1, <2>2
  <2>4. Parsed(ls) = 1..n
    BY <1>5, <2>1 DEF Parsed
  <2>5. LineOk(ls[k], audit.next)
    BY <1>2, <1>5, <2>2 DEF LinesOk
  <2>6. ls[k].hash \in 1..(audit.next - 1)
    BY <2>1, <2>2, <2>5 DEF LineOk
  <2>7. CASE k = 1
    BY <1>1, <1>2, <1>5, <2>3, <2>6, <2>7 DEF Verifies, _GENESIS
  <2>8. CASE k # 1
    <3>1. k - 1 \in 1..n /\ k - 1 \in 1..(n - 1) /\ k - 1 < k /\ k - 1 # k
      BY <1>1, <1>5, <2>8
    <3>2. new[k - 1] = ls[k - 1]
      BY <1>5, <3>1
    <3>3. ls[k - 1].hash # ls[k].hash
      BY <1>2, <2>2, <2>4, <3>1 DEF LinesOk
    <3> QED
      BY <1>1, <1>5, <2>3, <2>8, <3>2, <3>3 DEF Verifies
  <2> QED
    BY <2>7, <2>8
<1>11. new # <<>>
  BY <1>1, <1>5
<1> QED
  BY <1>3, <1>8, <1>9, <1>10, <1>11, TamperKeeps DEF DeleteLine, ls

LEMMA AuditStart == AuditInit => AuditInv
<1> SUFFICES ASSUME AuditInit PROVE AuditInv
  OBVIOUS
<1>1. file = [lines |-> <<>>, open |-> FALSE] /\ DOMAIN <<>> = {}
  BY DEF AuditInit
<1>2. LinesOk(file.lines, 1) /\ Parsed(file.lines) = {}
  BY <1>1, EmptyIsLog DEF LinesOk, Parsed
<1> QED
  BY <1>1, <1>2 DEF AuditInit, AuditInv, Pending

LEMMA AuditStep == AuditInv /\ [AuditNext]_auditVars => AuditInv'
<1> SUFFICES ASSUME AuditInv, [AuditNext]_auditVars PROVE AuditInv'
  OBVIOUS
<1>1. ASSUME NEW p \in Auditor, NEW op \in {"write", "mutate", "decay"}, get_before(p, op) PROVE AuditInv'
  BY <1>1, GetBeforeKeeps
<1>2. ASSUME NEW p \in Auditor, call_inner(p) \/ append(p) \/ Crash(p) PROVE AuditInv'
  BY <1>2, CallKeeps, AppendKeeps, CrashKeeps
<1>3. CASE EditLine \/ DeleteLine
  BY <1>3, EditKeeps, DeleteKeeps
<1>4. CASE UNCHANGED auditVars
  BY <1>4 DEF auditVars, AuditInv, Pending, LinesOk, LineOk, Verifies, Entered, Unused, Parsed
<1> QED
  BY <1>1, <1>2, <1>3, <1>4 DEF AuditNext

\* A log that verifies has every mutation whose call returned, unaltered and once,
\* for any processes, any number of calls, and crashes, tears, edits and deletions
\* wherever they fall.
THEOREM VerifiedIsComplete == AuditSpec => []VerifiedMeansComplete
<1>1. AuditInv => VerifiedMeansComplete
  <2> SUFFICES ASSUME AuditInv, verify, NEW id \in audit.answered
               PROVE  Cardinality({i \in DOMAIN file.lines : file.lines[i].hash = id /\ file.lines[i].intact}) = 1
    BY DEF VerifiedMeansComplete
  <2> DEFINE ls == file.lines
             hits == {i \in DOMAIN ls : ls[i].hash = id /\ ls[i].intact}
  <2>1. Verifies(ls) /\ \A i \in DOMAIN ls : ~ls[i].torn
    BY DEF verify, Verifies
  <2>2. PICK k \in DOMAIN ls : ls[k].hash = id /\ ls[k].intact
    BY <2>1 DEF AuditInv, Entered
  <2>3. \A i, j \in DOMAIN ls : ls[i].hash = ls[j].hash => i = j
    BY <2>1 DEF AuditInv, LinesOk, Parsed
  <2>4. hits = {k}
    BY <2>2, <2>3
  <2> HIDE DEF hits
  <2>5. Cardinality(hits) = 1
    BY <2>4, FS_Singleton
  <2> QED
    BY <2>5 DEF hits
<1> QED
  BY AuditStart, AuditStep, <1>1, PTL DEF AuditSpec

-----------------------------------------------------------------------------
(* Induced knowledge.  A climb changes no schema's members and no order,   *)
(* so who stands above whom, and whether the store is layered, is fixed    *)
(* while it lasts, and so is which members the model is shown.  Every      *)
(* schema above a re-derived subject it is shown is up to date, doubted or *)
(* rejected, or still waits in some frame of the recursion; and            *)
(* in a layered store a frame is never deeper than the orders it deals     *)
(* with, so the depth limit cuts nothing off.                              *)

Frames == [todo : SUBSET Schemas, depth : Nat]
Calls ==
  {Idle} \cup [at : {"consolidate"}, todo : SUBSET Kinds]
  \cup [at : {"induce"}, order : 1..(MaxOrder - 1), todo : SUBSET SUBSET Subjects, wrote : BOOLEAN]
  \cup [at : {"decay"}]
  \cup [at : {"split"}, rule : Rules, kind : Kinds \cup {"schema"}]
  \cup [at : {"climb"}, stack : Seq(Frames), doubted : SUBSET Schemas, mine : [Subjects -> Nat]]
  \cup [at : {"returned"}, mine : [Subjects -> Nat], doubted : SUBSET Schemas]

UpToDate(m, s) == m \in Listed(kb[s].subsumes) => Follows(s, m)
Waits(s) == \E i \in 1..Len(call.stack) : s \in call.stack[i].todo

KnowledgeInv ==
  /\ IsStore(kb) /\ call \in Calls
  /\ call.at = "climb" =>
       /\ call.stack # <<>>
       /\ \A m \in Subjects : call.mine[m] = 0 \/ (Present(m) /\ kb[m].ver >= call.mine[m])
       /\ \A i \in 1..Len(call.stack) : \A s \in call.stack[i].todo :
            Present(s) /\ (Layered => kb[s].order >= call.stack[i].depth + 2)
       /\ Layered => \A m \in Subjects : \A s \in Above(m) : UpToDate(m, s) \/ Waits(s)
  /\ call.at = "returned" => SchemasFollow

LEMMA InsightLemma ==
  ASSUME NEW r, r \in Insight
  PROVE  /\ r # Absent /\ r.ver \in Nat /\ r.order \in 1..MaxOrder /\ r.cx \in Nat /\ r.sup \in Nat
         /\ r.ec \in 0..2 /\ r.kind \in Kinds \cup {"schema"} /\ r.trust \in {"candidate", "rejected"}
         /\ r.subsumes \in Seq(Subjects) /\ r.basis \in [Subjects -> Nat]
  BY DEF Insight, Absent

LEMMA InducedLemma ==
  ASSUME NEW ver \in Nat, NEW kind \in Kinds \cup {"schema"}, NEW order \in 1..MaxOrder,
         NEW ms \in Seq(Subjects), NEW basis \in [Subjects -> Nat], NEW sup \in Nat
  PROVE  LET r == Induced(ver, kind, order, ms, basis, sup)
         IN /\ r \in Insight /\ r.ver = ver /\ r.kind = kind /\ r.order = order
            /\ r.subsumes = ms /\ r.basis = basis /\ r.trust = "candidate"
  BY DEF Induced, Insight

\* What is shown of a list of members is what their records say.
LEMMA VersionsLemma ==
  ASSUME IsStore(kb), NEW ms
  PROVE  /\ VersionsOf(ms) \in [Subjects -> Nat]
         /\ \A m \in Subjects : m \in Listed(ms) => Present(m) /\ VersionsOf(ms)[m] = kb[m].ver
  <1>1. \A m \in Listed(ms) : Present(m)
    BY DEF Listed
  <1>2. \A m \in Subjects : Present(m) => kb[m].ver \in Nat
    BY InsightLemma DEF IsStore, Present
  <1>3. \A m \in Subjects : (IF m \in Listed(ms) THEN kb[m].ver ELSE 0) \in Nat
    BY <1>1, <1>2
  <1>4. QED BY <1>1, <1>3 DEF VersionsOf

LEMMA SchemaLemma ==
  ASSUME IsStore(kb), NEW order \in 1..MaxOrder, NEW ms \in Seq(Subjects), NEW sup \in Nat
  PROVE  LET r == Schema(order, ms, sup)
         IN r \in Insight /\ r.order = order /\ r.subsumes = ms /\ r.basis = VersionsOf(ms)
  <1>1. PICK B \in [Subjects -> Nat] : B = VersionsOf(ms)
    BY VersionsLemma
  <1>2. PICK v \in Nat, k \in Kinds \cup {"schema"} : v = 1 /\ k = "schema"
    OBVIOUS
  <1>3. Schema(order, ms, sup) = Induced(v, k, order, ms, B, sup)
    BY <1>1, <1>2 DEF Schema
  <1>4. LET r == Induced(v, k, order, ms, B, sup)
        IN r \in Insight /\ r.order = order /\ r.subsumes = ms /\ r.basis = B
    BY <1>2, InducedLemma
  <1>5. QED BY <1>1, <1>3, <1>4

\* write() keeps a record a record; what it makes of a schema's new members.
LEMMA StoredLemma ==
  ASSUME IsStore(kb), NEW i \in Subjects, NEW same \in BOOLEAN, NEW new, new \in Insight
  PROVE  LET r == Stored(i, new, same)
             taken == r.subsumes = new.subsumes /\ r.basis = new.basis /\ r.order = new.order
         IN /\ r \in Insight
            /\ r.trust = "rejected" \/ taken
            /\ Present(i) => r.ver >= kb[i].ver /\ (taken \/ r = kb[i])
  <1>0. PICK old : old = kb[i]
    OBVIOUS
  <1>1. CASE old = Absent
    <2>1. Stored(i, new, same) = new /\ ~Present(i)
      BY <1>0, <1>1 DEF Stored, Present
    <2>2. QED BY <2>1
  <1>2. CASE old # Absent
    <2>1. old \in Insight
      BY <1>0, <1>2 DEF IsStore
    <2>4. CASE ~same
      <3> DEFINE r == [new EXCEPT !.ver = old.ver + 1, !.sup = 1]
      <3>1. Stored(i, new, same) = r
        BY <1>0, <1>2, <2>4 DEF Stored
      <3>2. old.ver \in Nat
        BY <2>1, InsightLemma
      <3>3. /\ r \in Insight /\ r.ver = old.ver + 1
            /\ r.subsumes = new.subsumes /\ r.basis = new.basis /\ r.order = new.order
        <4>1. PICK v \in Nat : v = old.ver + 1
          BY <3>2
        <4>2. r = [new EXCEPT !.ver = v, !.sup = 1]
          BY <4>1
        <4> HIDE DEF r
        <4>3. QED BY <4>1, <4>2 DEF Insight
      <3> HIDE DEF r
      <3>4. r.ver >= old.ver
        BY <3>2, <3>3
      <3>5. QED BY <1>0, <3>1, <3>3, <3>4
    <2>5. CASE same /\ old.trust = "rejected"
      <3>1. Stored(i, new, same) = old /\ old.ver \in Nat
        BY <1>0, <1>2, <2>1, <2>5, InsightLemma DEF Stored
      <3>2. old.ver >= old.ver
        BY <3>1
      <3>3. QED BY <1>0, <2>1, <2>5, <3>1, <3>2
    <2>6. CASE same /\ old.trust # "rejected"
      <3> DEFINE r == [old EXCEPT !.subsumes = new.subsumes, !.basis = new.basis,
                                 !.order = new.order, !.kind = new.kind, !.sup = 2]
      <3>1. Stored(i, new, same) = r
        BY <1>0, <1>2, <2>6 DEF Stored
      <3>2. /\ r \in Insight /\ r.ver = old.ver /\ old.ver \in Nat
            /\ r.subsumes = new.subsumes /\ r.basis = new.basis /\ r.order = new.order
        BY <2>1 DEF Insight
      <3> HIDE DEF r
      <3>3. r.ver >= old.ver
        BY <3>2
      <3>4. QED BY <1>0, <3>1, <3>2, <3>3
    <2>7. QED BY <2>4, <2>5, <2>6
  <1>3. QED BY <1>1, <1>2

\* contradict() touches confidence and trust, and nothing else here.
LEMMA ContradictedLemma ==
  ASSUME NEW r, r \in Insight, NEW n \in Nat, NEW c \in Contradicted([r EXCEPT !.cx = n])
  PROVE  /\ c \in Insight /\ c.subsumes = r.subsumes /\ c.basis = r.basis /\ c.order = r.order
         /\ c.ver = r.ver /\ c.kind = r.kind
  <1>1. PICK e \in 0..2, t \in {"candidate", "rejected"} :
          c = [[r EXCEPT !.cx = n] EXCEPT !.ec = e, !.trust = t]
    <2> DEFINE q == [r EXCEPT !.cx = n]
    <2>1. q.trust \in {"candidate", "rejected"}
      BY DEF Insight
    <2> HIDE DEF q
    <2>2. PICK e \in (IF q.ec = 2 THEN {1, 2} ELSE {0}) :
            c = [q EXCEPT !.ec = e, !.trust = IF e = 0 THEN "rejected" ELSE @]
      BY DEF Contradicted, q
    <2>3. e \in 0..2
      BY <2>2
    <2>4. QED BY <2>1, <2>2, <2>3 DEF q
  <1>2. QED BY <1>1 DEF Insight

LEMMA DoubtedLemma ==
  ASSUME NEW r, r \in Insight, NEW c \in Contradicted(r)
  PROVE  /\ c \in Insight /\ c.subsumes = r.subsumes /\ c.basis = r.basis /\ c.order = r.order
         /\ c.ver = r.ver /\ c.kind = r.kind
  <1>1. r.cx \in Nat /\ r = [r EXCEPT !.cx = r.cx]
    BY DEF Insight
  <1>2. QED BY <1>1, ContradictedLemma

LEMMA PutLemma ==
  ASSUME IsStore(kb), NEW i \in Subjects, NEW r, r \in Insight
  PROVE  IsStore([kb EXCEPT ![i] = r])
  <1> DEFINE T == [kb EXCEPT ![i] = r]
  <1>1. \A j \in Subjects : T[j] = IF j = i THEN r ELSE kb[j]
    BY DEF IsStore
  <1>2. T = [j \in Subjects |-> T[j]]
    BY DEF IsStore
  <1> HIDE DEF T
  <1>3. IsStore(T)
    BY <1>1, <1>2 DEF IsStore
  <1>4. QED BY <1>3 DEF T

LEMMA CallLemma ==
  ASSUME call \in Calls
  PROVE  /\ call.at = "consolidate" => call \in [at : {"consolidate"}, todo : SUBSET Kinds]
         /\ call.at = "induce" => call \in [at : {"induce"}, order : 1..(MaxOrder - 1),
                                            todo : SUBSET SUBSET Subjects, wrote : BOOLEAN]
         /\ call.at = "split" => call \in [at : {"split"}, rule : Rules, kind : Kinds \cup {"schema"}]
         /\ call.at = "climb" => call \in [at : {"climb"}, stack : Seq(Frames),
                                           doubted : SUBSET Schemas, mine : [Subjects -> Nat]]
         /\ call.at = "returned" => call \in [at : {"returned"}, mine : [Subjects -> Nat],
                                              doubted : SUBSET Schemas]
  BY DEF Calls, Idle

\* Outside of a climb the types are all there is.
LEMMA QuietStep ==
  ASSUME IsStore(kb'), call' \in Calls, call'.at \notin {"climb", "returned"}
  PROVE  KnowledgeInv'
  BY DEF KnowledgeInv

LEMMA ReturnedStep ==
  ASSUME IsStore(kb'), call' \in Calls, call'.at = "returned", SchemasFollow'
  PROVE  KnowledgeInv'
  BY DEF KnowledgeInv

LEMMA IdleCall == Idle \in Calls /\ Idle.at = "idle"
  BY DEF Calls, Idle

\* A design rule subsumes nothing.
LEMMA RuleInsight ==
  ASSUME NEW k \in Kinds \cup {"schema"}, NEW sup \in Nat
  PROVE  DesignRule(k, sup) \in Insight
  <1>1. 1 \in Nat /\ 1 \in 1..MaxOrder /\ <<>> \in Seq(Subjects)
    BY KnowledgeAssumption
  <1>2. [m \in Subjects |-> 0] \in [Subjects -> Nat]
    OBVIOUS
  <1>3. QED BY <1>1, <1>2, InducedLemma DEF DesignRule

LEMMA ConsolidateStep == ASSUME KnowledgeInv, consolidate_failures PROVE KnowledgeInv'
  <1>1. call \in [at : {"consolidate"}, todo : SUBSET Kinds] /\ IsStore(kb)
    BY CallLemma DEF KnowledgeInv, consolidate_failures
  <1>2. PICK k \in call.todo :
          /\ call' = [call EXCEPT !.todo = @ \ {k}]
          /\ \/ UNCHANGED kb
             \/ \E r \in Rules, same \in BOOLEAN :
                  kb' = [kb EXCEPT ![r] = Stored(r, DesignRule(k, 2), same)]
    BY DEF consolidate_failures
  <1>3. call' \in [at : {"consolidate"}, todo : SUBSET Kinds]
    BY <1>1, <1>2
  <1>4. call' \in Calls /\ call'.at = "consolidate"
    BY <1>3 DEF Calls
  <1>5. IsStore(kb')
    <2>1. CASE UNCHANGED kb
      BY <1>1, <2>1
    <2>2. ASSUME NEW r \in Rules, NEW same \in BOOLEAN,
                 kb' = [kb EXCEPT ![r] = Stored(r, DesignRule(k, 2), same)]
          PROVE  IsStore(kb')
      <3>1. DesignRule(k, 2) \in Insight /\ r \in Subjects
        BY <1>1, RuleInsight DEF Subjects
      <3>2. Stored(r, DesignRule(k, 2), same) \in Insight
        BY <1>1, <3>1, StoredLemma
      <3>3. QED BY <1>1, <2>2, <3>1, <3>2, PutLemma
    <2>3. QED BY <1>2, <2>1, <2>2
  <1>6. QED BY <1>4, <1>5, QuietStep

LEMMA LevelLemma ==
  ASSUME KnowledgeInv, UNCHANGED kb, NEW order \in 1..MaxOrder, NEW wrote \in BOOLEAN,
         call' = Level(order, wrote)
  PROVE  KnowledgeInv'
  <1>1. CASE order < MaxOrder /\ wrote
    <2>1. call' = [at |-> "induce", order |-> order, todo |-> Clusters(order), wrote |-> FALSE]
      BY <1>1 DEF Level
    <2>2. _sources_at(order) \subseteq Subjects
      BY DEF _sources_at, Subjects
    <2>3. \A g \in Clusters(order) : g \subseteq _sources_at(order)
      BY DEF Clusters
    <2>4. order \in 1..(MaxOrder - 1) /\ Clusters(order) \in SUBSET SUBSET Subjects
      BY <1>1, <2>2, <2>3, KnowledgeAssumption
    <2>5. call' \in Calls /\ call'.at = "induce" /\ call'.todo = Clusters(order)
      <3> DEFINE C == Clusters(order)
      <3> HIDE DEF C
      <3>1. C \in SUBSET SUBSET Subjects /\ call' = [at |-> "induce", order |-> order, todo |-> C, wrote |-> FALSE]
        BY <2>1, <2>4 DEF C
      <3>2. call' \in [at : {"induce"}, order : 1..(MaxOrder - 1),
                       todo : SUBSET SUBSET Subjects, wrote : BOOLEAN]
        BY <2>4, <3>1
      <3>3. QED BY <3>1, <3>2 DEF Calls, C
    <2>6. IsStore(kb')
      BY DEF KnowledgeInv
    <2>7. QED BY <2>5, <2>6, QuietStep
  <1>2. CASE ~(order < MaxOrder /\ wrote)
    <2>1. call' = [at |-> "decay"]
      BY <1>2 DEF Level
    <2>2. call' \in Calls /\ call'.at = "decay"
      BY <2>1 DEF Calls
    <2>3. QED BY <2>2, QuietStep DEF KnowledgeInv
  <1>3. QED BY <1>1, <1>2

LEMMA NextLevelStep == ASSUME KnowledgeInv, NextLevel PROVE KnowledgeInv'
  <1>1. CASE call.at = "consolidate" /\ call' = Level(1, TRUE)
    <2>1. 1 \in 1..MaxOrder
      BY KnowledgeAssumption
    <2>2. QED BY <1>1, <2>1, LevelLemma DEF NextLevel
  <1>2. CASE call.at = "induce" /\ call' = Level(call.order + 1, call.wrote)
    <2>1. call.order \in 1..(MaxOrder - 1) /\ call.wrote \in BOOLEAN
      BY <1>2, CallLemma DEF KnowledgeInv
    <2>2. call.order + 1 \in 1..MaxOrder
      BY <2>1, KnowledgeAssumption
    <2>3. QED BY <1>2, <2>1, <2>2, LevelLemma DEF NextLevel
  <1>3. QED BY <1>1, <1>2 DEF NextLevel

LEMMA ListLemma ==
  ASSUME NEW g \in SUBSET Subjects, NEW ms \in SetToSeqs(g)
  PROVE  ms \in Seq(Subjects)
  <1>1. IsFiniteSet(g)
    BY KnowledgeAssumption, FS_Subset
  <1>2. PICK n \in Nat : n = Cardinality(g)
    BY <1>1, FS_CardinalityType
  <1>3. ms \in [1..n -> g]
    BY <1>2 DEF SetToSeqs
  <1>4. ms \in [1..n -> Subjects]
    BY <1>3
  <1>5. QED BY <1>2, <1>4, SeqDef

LEMMA InduceStep == ASSUME KnowledgeInv, _induce_level PROVE KnowledgeInv'
  <1>1. /\ call \in [at : {"induce"}, order : 1..(MaxOrder - 1), todo : SUBSET SUBSET Subjects, wrote : BOOLEAN]
        /\ IsStore(kb)
    BY CallLemma DEF KnowledgeInv, _induce_level
  <1>2. PICK g \in call.todo :
          \/ call' = [call EXCEPT !.todo = @ \ {g}] /\ UNCHANGED kb
          \/ \E s \in Schemas, members \in SetToSeqs(g), same \in BOOLEAN :
               /\ kb' = [kb EXCEPT ![s] = Stored(s, Schema(call.order + 1, members, 2), same)]
               /\ call' = [call EXCEPT !.todo = @ \ {g}, !.wrote = TRUE]
    BY DEF _induce_level
  <1>3. call' \in Calls /\ call'.at = "induce"
    <2>1. call' \in [at : {"induce"}, order : 1..(MaxOrder - 1), todo : SUBSET SUBSET Subjects, wrote : BOOLEAN]
      <3>1. call.todo \ {g} \in SUBSET SUBSET Subjects
        BY <1>1
      <3>2. CASE call' = [call EXCEPT !.todo = @ \ {g}]
        BY <1>1, <3>1, <3>2
      <3>3. CASE call' = [call EXCEPT !.todo = @ \ {g}, !.wrote = TRUE]
        BY <1>1, <3>1, <3>3
      <3>4. QED BY <1>2, <3>2, <3>3
    <2>2. QED BY <2>1 DEF Calls
  <1>4. IsStore(kb')
    <2>1. CASE UNCHANGED kb
      BY <1>1, <2>1
    <2>2. ASSUME NEW s \in Schemas, NEW ms \in SetToSeqs(g), NEW same \in BOOLEAN,
                 kb' = [kb EXCEPT ![s] = Stored(s, Schema(call.order + 1, ms, 2), same)]
          PROVE  IsStore(kb')
      <3>1. ms \in Seq(Subjects)
        BY <1>1, <2>2, ListLemma
      <3>2. PICK o \in 1..MaxOrder : o = call.order + 1
        BY <1>1, KnowledgeAssumption
      <3>3. s \in Subjects /\ 2 \in Nat
        BY DEF Subjects
      <3>4. PICK new \in Insight : new = Schema(o, ms, 2)
        BY <1>1, <3>1, <3>2, <3>3, SchemaLemma
      <3>5. Stored(s, new, same) \in Insight
        BY <1>1, <3>3, <3>4, StoredLemma
      <3>6. QED BY <1>1, <2>2, <3>2, <3>3, <3>4, <3>5, PutLemma
    <2>3. QED BY <1>2, <2>1, <2>2
  <1>5. QED BY <1>3, <1>4, QuietStep

LEMMA DecayStep == ASSUME KnowledgeInv, DecayPass PROVE KnowledgeInv'
  <1>1. PICK gone : kb' = [i \in DOMAIN kb |-> IF i \in gone THEN Absent ELSE kb[i]]
    BY DEF DecayPass
  <1>2. IsStore(kb) /\ DOMAIN kb = Subjects
    BY DEF KnowledgeInv, IsStore
  <1>3. IsStore(kb')
    BY <1>1, <1>2 DEF IsStore
  <1>4. QED BY <1>3, IdleCall, QuietStep DEF DecayPass, Finish

LEMMA ReviseStep ==
  ASSUME KnowledgeInv, NEW r \in Rules, revise_with_counterexample(r) PROVE KnowledgeInv'
  <1>1. r \in Subjects /\ IsStore(kb)
    BY DEF Subjects, KnowledgeInv
  <1>2. kb[r] \in Insight
    BY <1>1 DEF IsStore, revise_with_counterexample, Present
  <1>3. kb[r].cx + 1 \in Nat /\ kb[r].kind \in Kinds \cup {"schema"}
    BY <1>2, InsightLemma
  <1>4. PICK c \in Contradicted([kb[r] EXCEPT !.cx = kb[r].cx + 1]) :
          /\ kb' = [kb EXCEPT ![r] = c]
          /\ call' = IF c.trust # "rejected" /\ c.cx >= SplitAfter
                       THEN [at |-> "split", rule |-> r, kind |-> kb[r].kind] ELSE Idle
    BY DEF revise_with_counterexample
  <1>5. c \in Insight
    BY <1>2, <1>3, <1>4, ContradictedLemma
  <1>6. IsStore(kb')
    BY <1>1, <1>4, <1>5, PutLemma
  <1>7. call' \in Calls /\ call'.at \in {"split", "idle"}
    BY <1>3, <1>4, IdleCall DEF Calls
  <1>8. QED BY <1>6, <1>7, QuietStep

\* What a climb looks at: presence, members and orders of the schemas.  While
\* they stay, so do who is above whom and the layers.
SameShape ==
  /\ \A i \in Subjects : (kb'[i] # Absent) <=> Present(i)
  /\ \A i \in Subjects : Present(i) => kb'[i].order = kb[i].order
  /\ \A s \in Schemas : Present(s) => kb'[s].subsumes = kb[s].subsumes

LEMMA ShapeLemma ==
  ASSUME SameShape, IsStore(kb)
  PROVE  /\ \A m \in Subjects : \A s : s \in Above(m) <=> (s \in Above(m))'
         /\ Layered <=> Layered'
  <1>1. \A m \in Subjects : \A s : s \in Above(m) <=> (s \in Above(m))'
    BY DEF SameShape, Above, Present, Subjects
  <1>2. \A s \in Schemas : Present(s) => \A m \in ToSet(kb[s].subsumes) : m \in Subjects
    <2>1. ASSUME NEW s \in Schemas, Present(s) PROVE kb[s].subsumes \in Seq(Subjects)
      BY <2>1, InsightLemma DEF IsStore, Present, Subjects
    <2>2. \A q \in Seq(Subjects) : \A m \in ToSet(q) : m \in Subjects
      BY DEF ToSet
    <2>3. QED BY <2>1, <2>2
  <1>3. Layered <=> Layered'
    BY <1>2 DEF SameShape, Layered, Present, Subjects
  <1>4. QED BY <1>1, <1>3

\* And so does what the model is shown of a list of members.
LEMMA ListedLemma ==
  ASSUME SameShape, NEW q \in Seq(Subjects)
  PROVE  Listed(q)' = Listed(q)
  <1> DEFINE P(k) == Present(q[k])
             N(k) == kb'[q[k]] # Absent
  <1>1. \A k \in DOMAIN q : N(k) <=> P(k)
    <2>1. \A k \in DOMAIN q : q[k] \in Subjects
      OBVIOUS
    <2>2. QED BY <2>1 DEF SameShape
  <1>2. \A j \in DOMAIN q : \A k \in 1..j : k \in DOMAIN q
    OBVIOUS
  <1>3. \A j \in DOMAIN q : {k \in 1..j : N(k)} = {k \in 1..j : P(k)}
    BY <1>1, <1>2
  <1>4. {j \in DOMAIN q : N(j) /\ Cardinality({k \in 1..j : N(k)}) <= Shown}
          = {j \in DOMAIN q : P(j) /\ Cardinality({k \in 1..j : P(k)}) <= Shown}
    <2> HIDE DEF P, N
    <2>1. QED BY <1>1, <1>3
  <1>5. QED BY <1>4 DEF Listed, Present

LEMMA AboveLemma ==
  ASSUME IsStore(kb), NEW m \in Subjects, NEW s \in Above(m)
  PROVE  /\ s \in Schemas /\ s \in Subjects /\ s # m /\ kb[s] \in Insight /\ Present(s)
         /\ m \in ToSet(kb[s].subsumes) /\ kb[s].subsumes \in Seq(Subjects) /\ kb[s].basis[m] \in Nat
  <1>1. s \in Schemas /\ s \in Subjects /\ s # m /\ Present(s) /\ m \in ToSet(kb[s].subsumes)
    BY DEF Above, Subjects
  <1>2. kb[s] \in Insight
    BY <1>1 DEF IsStore, Present
  <1>3. kb[s].basis[m] \in Nat /\ kb[s].subsumes \in Seq(Subjects)
    BY <1>2, InsightLemma
  <1>4. QED BY <1>1, <1>2, <1>3

LEMMA SplitStep == ASSUME KnowledgeInv, split PROVE KnowledgeInv'
  <1>1. IsStore(kb) /\ call \in [at : {"split"}, rule : Rules, kind : Kinds \cup {"schema"}]
    BY CallLemma DEF KnowledgeInv, split
  <1>2. CASE Finish(Idle) /\ UNCHANGED kb
    BY <1>1, <1>2, IdleCall, QuietStep DEF Finish
  <1>3. ASSUME NEW e \in Rules, NEW same \in BOOLEAN, NEW r, r = call.rule,
               NEW narrowed, narrowed = _write_narrowed(r, call.kind, same),
               NEW exception, exception = _write_exception(e, r, call.kind, narrowed),
               kb' = [[kb EXCEPT ![r] = narrowed] EXCEPT ![e] = exception],
               call' = [at |-> "climb", stack |-> <<Frame_(r, 0)>>, doubted |-> {},
                        mine |-> [m \in Subjects |-> IF m = r THEN kb'[m].ver ELSE 0]]
        PROVE  KnowledgeInv'
    <2>1. r \in Subjects /\ e \in Subjects /\ r \in Rules /\ call.kind \in Kinds \cup {"schema"}
      BY <1>1, <1>3 DEF Subjects
    <2>2. DesignRule(call.kind, 1) \in Insight
      BY <2>1, RuleInsight
    <2>3. narrowed \in Insight
      BY <1>1, <1>3, <2>1, <2>2, StoredLemma DEF _write_narrowed
    <2>4. exception \in Insight
      <3>1. CASE e = r
        <4>1. PICK v \in Nat : v = narrowed.ver + 1
          BY <2>3, InsightLemma
        <4>2. PICK d \in Insight : d = DesignRule(call.kind, 1)
          BY <2>2
        <4>3. exception = [d EXCEPT !.ver = v]
          BY <1>3, <3>1, <4>1, <4>2 DEF _write_exception
        <4>4. QED BY <4>3 DEF Insight
      <3>2. CASE e # r
        <4>1. exception = Stored(e, DesignRule(call.kind, 1), FALSE)
          BY <1>3, <3>2 DEF _write_exception
        <4>2. QED BY <1>1, <2>1, <2>2, <4>1, StoredLemma
      <3>3. QED BY <3>1, <3>2
    <2>5. /\ \A j \in Subjects \ {r, e} : kb'[j] = kb[j]
          /\ kb'[r] \in Insight /\ kb'[e] \in Insight /\ kb' = [j \in Subjects |-> kb'[j]]
      BY <1>1, <1>3, <2>1, <2>3, <2>4 DEF IsStore
    <2>6. IsStore(kb')
      BY <1>1, <2>1, <2>5 DEF IsStore
    <2>7. \A j \in Schemas : kb'[j] = kb[j] /\ j \in Subjects
      BY <2>1, <2>5, KnowledgeAssumption DEF Subjects
    <2>8. \A m \in Subjects : \A t : t \in Above(m) <=> (t \in Above(m))'
      BY <2>7 DEF Above, Present
    <2>9. /\ kb'[r] # Absent /\ kb'[r].ver \in Nat /\ kb'[r].order \in 1..MaxOrder
      BY <2>5, InsightLemma
    <2> DEFINE f == Frame_(r, 0)
    <2>10. f \in Frames /\ f.todo = Above(r) /\ f.depth = 0
      BY KnowledgeAssumption DEF Frame_, Frames, Above
    <2> DEFINE mine == [m \in Subjects |-> IF m = r THEN kb'[m].ver ELSE 0]
    <2>11. mine \in [Subjects -> Nat]
      BY <2>9
    <2>12. /\ call'.at = "climb" /\ call'.stack = <<f>> /\ call'.mine = mine /\ call'.doubted = {}
           /\ call' = [at |-> "climb", stack |-> <<f>>, doubted |-> {}, mine |-> mine]
      BY <1>3
    <2>13. <<f>> \in Seq(Frames) /\ Len(<<f>>) = 1 /\ <<f>>[1] = f /\ <<f>> # <<>>
      BY <2>10
    <2>14. call' \in Calls
      <3> HIDE DEF f, mine
      <3>1. call' \in [at : {"climb"}, stack : Seq(Frames), doubted : SUBSET Schemas,
                       mine : [Subjects -> Nat]]
        BY <2>11, <2>12, <2>13
      <3>2. QED BY <3>1 DEF Calls
    <2>15. \A m \in Subjects : mine[m] = 0 \/ (kb'[m] # Absent /\ kb'[m].ver >= mine[m])
      BY <2>9
    <2>16. ASSUME NEW s \in Above(r)
           PROVE  kb'[s] # Absent /\ (Layered' => kb'[s].order >= 2)
      <3>1. s \in Schemas /\ Present(s) /\ r \in ToSet(kb[s].subsumes) /\ kb[s] \in Insight
        BY <1>1, <2>1, AboveLemma
      <3>2. kb'[s] = kb[s] /\ kb[s].order \in 1..MaxOrder
        BY <2>7, <3>1, InsightLemma
      <3>3. Layered' => kb'[r].order < kb'[s].order
        BY <2>9, <3>1, <3>2 DEF Layered, Present
      <3>4. QED BY <2>9, <3>1, <3>2, <3>3, KnowledgeAssumption DEF Present
    <2>17. ASSUME NEW m \in Subjects, NEW s, (s \in Above(m))'
           PROVE  (UpToDate(m, s) \/ Waits(s))'
      <3>1. s \in Above(m)
        BY <2>8, <2>17
      <3>2. CASE m = r
        BY <2>10, <2>12, <2>13, <3>1, <3>2 DEF Waits
      <3>3. CASE m # r
        <4>1. kb'[s].basis[m] \in Nat
          BY <1>1, <2>7, <3>1, AboveLemma
        <4>2. call'.mine[m] = 0
          BY <2>12, <3>3
        <4>3. QED BY <4>1, <4>2 DEF UpToDate, Follows
      <3>4. QED BY <3>2, <3>3
    <2> HIDE DEF f, mine
    <2>18. \A i \in 1..Len(call'.stack) : \A s \in call'.stack[i].todo :
             kb'[s] # Absent /\ (Layered' => kb'[s].order >= call'.stack[i].depth + 2)
      <3> SUFFICES ASSUME NEW i \in 1..Len(call'.stack), NEW s \in call'.stack[i].todo
                   PROVE  kb'[s] # Absent /\ (Layered' => kb'[s].order >= call'.stack[i].depth + 2)
        OBVIOUS
      <3>1. i = 1 /\ call'.stack[i] = f
        BY <2>12, <2>13
      <3>2. QED BY <2>10, <2>16, <3>1
    <2>19. call'.stack # <<>> /\ \A m \in Subjects : call'.mine[m] = 0 \/ (kb'[m] # Absent /\ kb'[m].ver >= call'.mine[m])
      BY <2>12, <2>13, <2>15
    <2>20. QED BY <2>6, <2>12, <2>14, <2>17, <2>18, <2>19 DEF KnowledgeInv, Present
  <1>4. QED BY <1>2, <1>3 DEF split

LEMMA LeftLemma ==
  ASSUME call.stack \in Seq(Frames), call.stack # <<>>, NEW s
  PROVE  LET n == Len(call.stack)
         IN /\ n \in Nat \ {0} /\ Last(call.stack) = call.stack[n]
            /\ Left(s) \in Seq(Frames) /\ Len(Left(s)) = n /\ Left(s) # <<>>
            /\ \A i \in 1..n : /\ Left(s)[i].depth = call.stack[i].depth
                              /\ Left(s)[i].todo = IF i = n THEN call.stack[i].todo \ {s}
                                                   ELSE call.stack[i].todo
  <1> DEFINE n == Len(call.stack)
             f == [call.stack[n] EXCEPT !.todo = @ \ {s}]
  <1>1. n \in Nat \ {0} /\ Last(call.stack) = call.stack[n] /\ call.stack[n] \in Frames
    BY DEF Last
  <1>2. f \in Frames /\ f.depth = call.stack[n].depth /\ f.todo = call.stack[n].todo \ {s}
    BY <1>1 DEF Frames
  <1>3. Left(s) = [call.stack EXCEPT ![n] = f]
    BY DEF Left
  <1> HIDE DEF f
  <1>4. Left(s) \in Seq(Frames) /\ Len(Left(s)) = n
    BY <1>1, <1>2, <1>3
  <1>5. \A i \in 1..n : Left(s)[i] = IF i = n THEN f ELSE call.stack[i]
    BY <1>1, <1>3
  <1>6. Left(s) # <<>>
    BY <1>1, <1>4
  <1>7. QED BY <1>1, <1>2, <1>4, <1>5, <1>6

\* One schema of the climb, its record new: up to date, doubted or rejected.
LEMMA ClimbLemma ==
  ASSUME KnowledgeInv, call.at = "climb", NEW s \in Last(call.stack).todo,
         NEW new, new \in Insight, kb' = [kb EXCEPT ![s] = new],
         new.order = kb[s].order, new.subsumes = kb[s].subsumes, new.ver >= kb[s].ver,
         call' \in [at : {"climb"}, stack : Seq(Frames), doubted : SUBSET Schemas,
                   mine : [Subjects -> Nat]],
         call.doubted \subseteq call'.doubted,
         \A m \in Subjects \ {s} : call'.mine[m] = call.mine[m],
         \A m \in Subjects \ {s} : s \in Above(m) => UpToDate(m, s)',
         \/ call'.stack = Left(s) /\ call'.mine = call.mine
         \/ call'.stack = Climb(Left(s), s) /\ call'.mine[s] = new.ver
  PROVE  KnowledgeInv'
  <1> DEFINE n == Len(call.stack)
  <1>1. /\ IsStore(kb) /\ call.stack # <<>>
        /\ call \in [at : {"climb"}, stack : Seq(Frames), doubted : SUBSET Schemas, mine : [Subjects -> Nat]]
        /\ \A m \in Subjects : call.mine[m] = 0 \/ (Present(m) /\ kb[m].ver >= call.mine[m])
        /\ \A i \in 1..n : \A t \in call.stack[i].todo :
             Present(t) /\ (Layered => kb[t].order >= call.stack[i].depth + 2)
        /\ Layered => \A m \in Subjects : \A t \in Above(m) : UpToDate(m, t) \/ Waits(t)
    BY CallLemma DEF KnowledgeInv
  <1>2. /\ n \in Nat \ {0} /\ Last(call.stack) = call.stack[n]
        /\ Left(s) \in Seq(Frames) /\ Len(Left(s)) = n /\ Left(s) # <<>>
        /\ \A i \in 1..n : /\ Left(s)[i].depth = call.stack[i].depth
                          /\ Left(s)[i].todo = IF i = n THEN call.stack[i].todo \ {s}
                                               ELSE call.stack[i].todo
    BY <1>1, LeftLemma
  <1>3. call.stack[n] \in Frames
    BY <1>1, <1>2
  <1>4. s \in Schemas /\ s \in Subjects /\ Present(s) /\ call.stack[n].depth \in Nat
        /\ (Layered => kb[s].order >= call.stack[n].depth + 2)
    <2>1. n \in 1..n /\ s \in call.stack[n].todo
      BY <1>2
    <2>2. s \in Schemas /\ call.stack[n].depth \in Nat
      BY <1>3, <2>1 DEF Frames
    <2>3. Present(s) /\ (Layered => kb[s].order >= call.stack[n].depth + 2)
      BY <1>1, <2>1
    <2>4. QED BY <2>2, <2>3 DEF Subjects
  <1>5. IsStore(kb') /\ kb'[s] = new /\ \A j \in Subjects \ {s} : kb'[j] = kb[j]
    <2>1. IsStore(kb')
      BY <1>1, <1>4, PutLemma
    <2>2. kb'[s] = new /\ \A j \in Subjects \ {s} : kb'[j] = kb[j]
      BY <1>1, <1>4 DEF IsStore
    <2>3. QED BY <2>1, <2>2
  <1>6. new # Absent /\ new.ver \in Nat /\ kb[s] \in Insight /\ kb[s].ver \in Nat
    BY <1>1, <1>4, InsightLemma DEF IsStore, Present
  <1>7. SameShape
    BY <1>4, <1>5, <1>6 DEF SameShape, Present, Subjects
  <1>8. /\ \A m \in Subjects : \A t : t \in Above(m) <=> (t \in Above(m))'
        /\ Layered <=> Layered'
    BY <1>1, <1>7, ShapeLemma
  <1> DEFINE L == Left(s)
             f == Frame_(s, Last(L).depth + 1)
  <1>9. /\ f.depth = call.stack[n].depth + 1 /\ f \in Frames
        /\ f.todo \subseteq Above(s)
        /\ (f.depth <= MaxDepth => f.todo = Above(s))
    <2>1. Last(L) = L[n]
      <3> HIDE DEF L
      <3>1. QED BY <1>2 DEF Last, L
    <2>2. L[n].depth = call.stack[n].depth
      <3>1. n \in 1..n
        BY <1>2
      <3> HIDE DEF n
      <3>2. QED BY <1>2, <3>1
    <2>3. PICK d \in Nat : d = Last(L).depth + 1 /\ d = call.stack[n].depth + 1
      BY <1>4, <2>1, <2>2
    <2>4. f = Frame_(s, d)
      BY <2>3
    <2> HIDE DEF f, L
    <2>5. QED BY <2>3, <2>4, KnowledgeAssumption DEF Frame_, Frames, Above
  <1>10. Climb(L, s) = Append(L, f)
    BY DEF Climb
  <1>19. /\ L \in Seq(Frames) /\ Len(L) = n /\ L # <<>> /\ L = Left(s)
         /\ \A i \in 1..n : /\ L[i].depth = call.stack[i].depth
                           /\ L[i].todo = IF i = n THEN call.stack[i].todo \ {s}
                                          ELSE call.stack[i].todo
    BY <1>2
  <1> HIDE DEF f, L
  <1>20. /\ Len(Append(L, f)) = n + 1 /\ Append(L, f) # <<>> /\ Append(L, f)[n + 1] = f
         /\ \A i \in 1..n : Append(L, f)[i] = L[i]
    BY <1>2, <1>9, <1>19, SMTT(30)
  <1>21. call'.stack = L \/ (call'.stack = Append(L, f) /\ call'.mine[s] = new.ver)
    <2>1. CASE call'.stack = Left(s)
      BY <2>1 DEF L
    <2>2. CASE call'.stack = Climb(Left(s), s) /\ call'.mine[s] = new.ver
      BY <1>10, <1>19, <2>2
    <2>3. QED BY <2>1, <2>2
  \* A frame of the new stack, and a subject that waited.
  <1>11. ASSUME NEW i \in 1..Len(call'.stack), NEW t \in call'.stack[i].todo
         PROVE  /\ \/ \E j \in 1..n : t \in call.stack[j].todo /\ call'.stack[i].depth = call.stack[j].depth
                   \/ t \in Above(s) /\ call'.stack[i].depth = call.stack[n].depth + 1
    <2>1. CASE i \in 1..n
      <3>1. call'.stack[i] = L[i]
        BY <1>20, <1>21, <2>1
      <3>2. QED BY <1>11, <1>19, <2>1, <3>1, ZenonT(30)
    <2>2. CASE i \notin 1..n
      <3>1. call'.stack = Append(L, f) /\ i = n + 1 /\ call'.stack[i] = f
        BY <1>2, <1>11, <1>19, <1>20, <1>21, <2>2
      <3>2. QED BY <1>9, <1>11, <3>1
    <2>3. QED BY <2>1, <2>2
  <1>12. ASSUME NEW t, t # s, Waits(t) PROVE Waits(t)'
    <2>1. PICK i \in 1..n : t \in call.stack[i].todo
      BY <1>12 DEF Waits
    <2>2. t \in L[i].todo
      BY <1>12, <1>19, <2>1
    <2>3. i \in 1..Len(call'.stack) /\ call'.stack[i] = L[i]
      <3>1. CASE call'.stack = L
        BY <1>19, <2>1, <3>1
      <3>2. CASE call'.stack = Append(L, f)
        BY <1>2, <1>20, <2>1, <3>2
      <3>3. QED BY <1>21, <3>1, <3>2
    <2>4. QED BY <2>2, <2>3 DEF Waits
  <1>13. \A m \in Subjects : call'.mine[m] = 0 \/ (kb'[m] # Absent /\ kb'[m].ver >= call'.mine[m])
    <2>1. ASSUME NEW m \in Subjects \ {s}
          PROVE  call'.mine[m] = 0 \/ (kb'[m] # Absent /\ kb'[m].ver >= call'.mine[m])
      BY <1>1, <1>5, <2>1 DEF Present
    <2>2. call'.mine[s] = 0 \/ (kb'[s] # Absent /\ kb'[s].ver >= call'.mine[s])
      <3>1. call.mine[s] \in Nat
        BY <1>1, <1>4
      <3>2. QED BY <1>1, <1>4, <1>5, <1>6, <3>1
    <2>3. QED BY <2>1, <2>2
  \* Above a schema stands one of a higher order.
  <1>14. \A t \in Above(s) : /\ Present(t) /\ t \in Subjects
                             /\ Layered => kb[t].order >= call.stack[n].depth + 3
                             /\ kb[t].order <= MaxOrder
    <2> SUFFICES ASSUME NEW t \in Above(s)
                 PROVE  /\ Present(t) /\ t \in Subjects
                        /\ Layered => kb[t].order >= call.stack[n].depth + 3
                        /\ kb[t].order <= MaxOrder
      OBVIOUS
    <2>1. t \in Schemas /\ t \in Subjects /\ kb[t] \in Insight /\ Present(t) /\ s \in ToSet(kb[t].subsumes)
      BY <1>1, <1>4, AboveLemma
    <2>2. kb[t].order \in 1..MaxOrder /\ kb[s].order \in 1..MaxOrder
      BY <1>6, <2>1, InsightLemma
    <2>3. ASSUME Layered PROVE kb[s].order < kb[t].order
      BY <1>4, <2>1, <2>3 DEF Layered
    <2>4. ASSUME Layered PROVE kb[t].order >= call.stack[n].depth + 3
      <3>1. kb[s].order < kb[t].order /\ kb[s].order >= call.stack[n].depth + 2
        BY <1>4, <2>3, <2>4
      <3>2. PICK d \in Nat : d = call.stack[n].depth
        BY <1>4
      <3>3. PICK o \in Nat, q \in Nat : o = kb[s].order /\ q = kb[t].order
        BY <2>2, KnowledgeAssumption
      <3>4. o < q /\ o >= d + 2
        BY <3>1, <3>2, <3>3
      <3>5. q >= d + 3
        BY <3>4
      <3>6. QED BY <3>2, <3>3, <3>5
    <2>5. QED BY <2>1, <2>2, <2>4
  <1>15. ASSUME NEW i \in 1..Len(call'.stack), NEW t \in call'.stack[i].todo
         PROVE  kb'[t] # Absent /\ (Layered' => kb'[t].order >= call'.stack[i].depth + 2)
    <2>1. CASE \E j \in 1..n : t \in call.stack[j].todo /\ call'.stack[i].depth = call.stack[j].depth
      <3>1. PICK j \in 1..n : t \in call.stack[j].todo /\ call'.stack[i].depth = call.stack[j].depth
        BY <2>1
      <3>2. Present(t) /\ (Layered => kb[t].order >= call.stack[j].depth + 2)
        BY <1>1, <3>1
      <3>3. t \in Subjects
        <4>1. call.stack[j] \in Frames
          BY <1>1, <3>1
        <4>2. QED BY <3>1, <4>1 DEF Frames, Subjects
      <3>4. kb'[t] # Absent /\ kb'[t].order = kb[t].order
        BY <1>7, <3>2, <3>3 DEF SameShape
      <3>5. QED BY <1>8, <3>1, <3>2, <3>4
    <2>2. CASE t \in Above(s) /\ call'.stack[i].depth = call.stack[n].depth + 1
      <3>1. /\ Present(t) /\ t \in Subjects /\ kb[t].order <= MaxOrder
            /\ Layered => kb[t].order >= call.stack[n].depth + 3
        BY <1>14, <2>2
      <3>2. kb'[t] # Absent /\ kb'[t].order = kb[t].order
        BY <1>7, <3>1 DEF SameShape
      <3>3. QED BY <1>4, <1>8, <2>2, <3>1, <3>2, SMTT(30)
    <2>3. QED BY <1>11, <2>1, <2>2
  <1>16. ASSUME Layered', NEW m \in Subjects, NEW t, (t \in Above(m))'
         PROVE  (UpToDate(m, t) \/ Waits(t))'
    <2>1. t \in Above(m) /\ t \in Schemas /\ t \in Subjects /\ t # m /\ Layered
      BY <1>1, <1>8, <1>16, AboveLemma
    <2>2. CASE t = s
      BY <2>1, <2>2
    <2>3. CASE t # s /\ (m # s \/ call'.mine = call.mine)
      <3>1. UpToDate(m, t) \/ Waits(t)
        BY <1>1, <2>1
      <3>2. kb'[t] = kb[t] /\ call'.mine[m] = call.mine[m]
        BY <1>5, <2>1, <2>3
      <3>3. UpToDate(m, t) => UpToDate(m, t)'
        <4>1. PICK q \in Seq(Subjects) : q = kb[t].subsumes
          BY <1>1, <2>1, AboveLemma
        <4>2. Listed(q)' = Listed(q)
          BY <1>7, ListedLemma
        <4>3. Listed(kb[t].subsumes) = Listed(q) /\ (Listed(kb[t].subsumes))' = Listed(q)'
          BY <3>2, <4>1
        <4>4. Follows(t, m) => Follows(t, m)'
          BY <3>2 DEF Follows
        <4>5. QED BY <4>2, <4>3, <4>4 DEF UpToDate
      <3>4. QED BY <1>12, <2>3, <3>1, <3>3
    <2>4. CASE m = s /\ call'.stack = Climb(Left(s), s)
      <3>1. f.depth <= MaxDepth
        <4>1. PICK d \in Nat : d = call.stack[n].depth
          BY <1>4
        <4>2. kb[t].order >= d + 3 /\ kb[t].order <= MaxOrder /\ f.depth = d + 1
          BY <1>9, <1>14, <2>1, <2>4, <4>1
        <4>3. kb[t] \in Insight
          BY <1>1, <2>1, <2>4, AboveLemma
        <4>4. kb[t].order \in 1..MaxOrder
          BY <4>3, InsightLemma
        <4>5. PICK o \in Nat : o = kb[t].order
          BY <4>4, KnowledgeAssumption
        <4>6. d + 1 <= MaxDepth
          BY <4>2, <4>5, KnowledgeAssumption
        <4>7. QED BY <4>2, <4>6
      <3>2. t \in f.todo
        BY <1>9, <2>1, <2>4, <3>1
      <3>3. n + 1 \in 1..Len(call'.stack) /\ call'.stack[n + 1] = f
        BY <1>2, <1>10, <1>19, <1>20, <2>4
      <3>4. QED BY <3>2, <3>3 DEF Waits
    <2>5. QED BY <2>2, <2>3, <2>4
  <1>17. call'.stack # <<>> /\ call' \in Calls /\ call'.at = "climb"
    <2>1. call'.stack # <<>>
      BY <1>19, <1>20, <1>21
    <2>2. QED BY <2>1 DEF Calls
  <1>18. QED BY <1>5, <1>13, <1>15, <1>16, <1>17 DEF KnowledgeInv, Present

LEMMA ClimbFacts ==
  ASSUME KnowledgeInv, call.at = "climb"
  PROVE  /\ IsStore(kb) /\ call.stack # <<>>
         /\ call \in [at : {"climb"}, stack : Seq(Frames), doubted : SUBSET Schemas, mine : [Subjects -> Nat]]
         /\ \A s \in Last(call.stack).todo : s \in Schemas /\ s \in Subjects /\ Present(s) /\ kb[s] \in Insight
  <1>1. /\ IsStore(kb) /\ call.stack # <<>>
        /\ call \in [at : {"climb"}, stack : Seq(Frames), doubted : SUBSET Schemas, mine : [Subjects -> Nat]]
        /\ \A i \in 1..Len(call.stack) : \A s \in call.stack[i].todo : Present(s)
    BY CallLemma DEF KnowledgeInv
  <1>2. PICK n \in Nat \ {0} : n = Len(call.stack) /\ Last(call.stack) = call.stack[n]
    BY <1>1, LeftLemma
  <1>3. n \in 1..Len(call.stack) /\ call.stack[n] \in Frames
    BY <1>1, <1>2
  <1>4. ASSUME NEW s \in Last(call.stack).todo
        PROVE  s \in Schemas /\ s \in Subjects /\ Present(s) /\ kb[s] \in Insight
    <2>1. s \in Schemas /\ s \in Subjects /\ Present(s)
      BY <1>1, <1>2, <1>3 DEF Frames, Subjects
    <2>2. QED BY <1>1, <2>1 DEF IsStore, Present
  <1>5. QED BY <1>1, <1>4

LEMMA DoubtStep ==
  ASSUME KnowledgeInv, call.at = "climb", NEW s \in Last(call.stack).todo,
         NEW c \in Contradicted(kb[s]), kb' = [kb EXCEPT ![s] = c],
         call' = [call EXCEPT !.stack = Left(s), !.doubted = @ \cup {s}]
  PROVE  KnowledgeInv'
  <1>1. /\ IsStore(kb) /\ call.stack # <<>> /\ call.stack \in Seq(Frames)
        /\ call \in [at : {"climb"}, stack : Seq(Frames), doubted : SUBSET Schemas, mine : [Subjects -> Nat]]
        /\ s \in Schemas /\ s \in Subjects /\ Present(s) /\ kb[s] \in Insight
    BY ClimbFacts
  <1>2. c \in Insight /\ c.subsumes = kb[s].subsumes /\ c.order = kb[s].order /\ c.ver = kb[s].ver
    BY <1>1, DoubtedLemma
  <1>3. c.ver >= kb[s].ver
    BY <1>1, <1>2, InsightLemma
  <1>4. Left(s) \in Seq(Frames)
    BY <1>1, LeftLemma
  <1>5. /\ call' \in [at : {"climb"}, stack : Seq(Frames), doubted : SUBSET Schemas, mine : [Subjects -> Nat]]
        /\ call'.stack = Left(s) /\ call'.mine = call.mine
        /\ s \in call'.doubted /\ call.doubted \subseteq call'.doubted
    BY <1>1, <1>4
  <1>6. \A m \in Subjects \ {s} : UpToDate(m, s)'
    BY <1>5 DEF UpToDate, Follows
  <1>7. QED BY <1>1, <1>2, <1>3, <1>5, <1>6, ClimbLemma

LEMMA RederiveStep ==
  ASSUME KnowledgeInv, call.at = "climb", NEW s \in Last(call.stack).todo, NEW same \in BOOLEAN,
         NEW new, new = Stored(s, Schema(kb[s].order, kb[s].subsumes, 1), same),
         kb' = [kb EXCEPT ![s] = new],
         call' = [call EXCEPT !.stack = Climb(Left(s), s), !.mine[s] = kb'[s].ver]
  PROVE  KnowledgeInv'
  <1>1. /\ IsStore(kb) /\ call.stack # <<>> /\ call.stack \in Seq(Frames)
        /\ call \in [at : {"climb"}, stack : Seq(Frames), doubted : SUBSET Schemas, mine : [Subjects -> Nat]]
        /\ s \in Schemas /\ s \in Subjects /\ Present(s) /\ kb[s] \in Insight
    BY ClimbFacts
  <1>2. PICK o \in 1..MaxOrder, q \in Seq(Subjects) : o = kb[s].order /\ q = kb[s].subsumes
    BY <1>1, InsightLemma
  <1>3. PICK d \in Insight :
          d = Schema(o, q, 1) /\ d.order = o /\ d.subsumes = q /\ d.basis = VersionsOf(q)
    <2>1. PICK n \in Nat : n = 1
      OBVIOUS
    <2>2. /\ Schema(o, q, n) \in Insight /\ Schema(o, q, n).order = o
          /\ Schema(o, q, n).subsumes = q /\ Schema(o, q, n).basis = VersionsOf(q)
      BY <1>1, SchemaLemma
    <2>3. QED BY <2>1, <2>2
  <1>4. new = Stored(s, d, same)
    BY <1>2, <1>3
  <1>5. /\ new \in Insight /\ new.ver >= kb[s].ver
        /\ new.trust = "rejected" \/ new.basis = VersionsOf(q)
        /\ (new.subsumes = q /\ new.order = o) \/ new = kb[s]
    BY <1>1, <1>3, <1>4, StoredLemma
  <1>6. new.order = kb[s].order /\ new.subsumes = kb[s].subsumes
    BY <1>2, <1>5
  <1>7. new.ver \in Nat /\ kb'[s] = new
    BY <1>1, <1>5, InsightLemma DEF IsStore
  <1>8. SameShape
    <2>1. new # Absent
      BY <1>5, InsightLemma
    <2>2. \A j \in Subjects \ {s} : kb'[j] = kb[j]
      BY <1>1 DEF IsStore
    <2>3. QED BY <1>1, <1>6, <1>7, <2>1, <2>2 DEF SameShape, Present, Subjects
  <1>9. Climb(Left(s), s) \in Seq(Frames)
    <2>1. PICK n \in Nat \ {0}, L \in Seq(Frames) : L = Left(s) /\ Len(L) = n
      BY <1>1, LeftLemma
    <2>2. L[n] \in Frames /\ Last(L) = L[n]
      BY <2>1 DEF Last
    <2>3. PICK k \in Nat : k = Last(L).depth + 1
      BY <2>2 DEF Frames
    <2>4. Frame_(s, k) \in Frames
      BY <2>3 DEF Frame_, Frames, Above
    <2>5. QED BY <2>1, <2>3, <2>4 DEF Climb
  <1>10. /\ call' \in [at : {"climb"}, stack : Seq(Frames), doubted : SUBSET Schemas, mine : [Subjects -> Nat]]
         /\ call'.stack = Climb(Left(s), s) /\ call'.mine[s] = new.ver
         /\ call'.doubted = call.doubted
         /\ \A m \in Subjects \ {s} : call'.mine[m] = call.mine[m]
    <2> DEFINE mine == [call.mine EXCEPT ![s] = new.ver]
    <2>1. mine \in [Subjects -> Nat] /\ mine[s] = new.ver /\ \A m \in Subjects \ {s} : mine[m] = call.mine[m]
      BY <1>1, <1>7
    <2>2. PICK K \in Seq(Frames) : K = Climb(Left(s), s)
      BY <1>9
    <2>3. call' = [call EXCEPT !.stack = K, !.mine = mine]
      BY <1>1, <1>7, <2>2
    <2> HIDE DEF mine
    <2>4. QED BY <1>1, <2>1, <2>2, <2>3
  <1>11. ASSUME NEW m \in Subjects \ {s}, s \in Above(m) PROVE UpToDate(m, s)'
    <2>1. CASE new.trust = "rejected"
      BY <1>7, <2>1 DEF UpToDate, Follows
    <2>2. ASSUME new.basis = VersionsOf(q), (m \in Listed(kb[s].subsumes))' PROVE Follows(s, m)'
      <3>1. m \in Listed(q)
        <4>1. Listed(q)' = Listed(q)
          BY <1>8, ListedLemma
        <4>2. (Listed(kb[s].subsumes))' = Listed(q)'
          BY <1>2, <1>6, <1>7
        <4>3. QED BY <2>2, <4>1, <4>2
      <3>2. VersionsOf(q)[m] = kb[m].ver /\ Present(m) /\ VersionsOf(q) \in [Subjects -> Nat]
        BY <1>1, <3>1, VersionsLemma
      <3>3. call.mine[m] = 0 \/ kb[m].ver >= call.mine[m]
        BY DEF KnowledgeInv
      <3>4. call.mine[m] \in Nat /\ kb[m].ver \in Nat
        BY <1>1, <3>2
      <3>5. kb[m].ver >= call.mine[m]
        BY <3>3, <3>4
      <3>6. QED BY <1>7, <1>10, <2>2, <3>2, <3>5 DEF Follows
    <2>3. QED BY <1>5, <2>1, <2>2 DEF UpToDate
  <1>12. QED BY <1>1, <1>5, <1>6, <1>10, <1>11, ClimbLemma, ZenonT(30)

LEMMA PropagateStep == ASSUME KnowledgeInv, propagate_revision PROVE KnowledgeInv'
  <1>1. PICK s \in Last(call.stack).todo :
          \/ \E c \in Contradicted(kb[s]) :
               /\ kb' = [kb EXCEPT ![s] = c]
               /\ call' = [call EXCEPT !.stack = Left(s), !.doubted = @ \cup {s}]
          \/ /\ \E same \in BOOLEAN :
                  kb' = [kb EXCEPT ![s] = Stored(s, Schema(kb[s].order, kb[s].subsumes, 1), same)]
             /\ call' = [call EXCEPT !.stack = Climb(Left(s), s), !.mine[s] = kb'[s].ver]
    BY DEF propagate_revision
  <1>2. call.at = "climb"
    BY DEF propagate_revision
  <1>3. ASSUME NEW c \in Contradicted(kb[s]), kb' = [kb EXCEPT ![s] = c],
               call' = [call EXCEPT !.stack = Left(s), !.doubted = @ \cup {s}]
        PROVE  KnowledgeInv'
    BY <1>2, <1>3, DoubtStep
  <1>4. ASSUME NEW same \in BOOLEAN, NEW new,
               new = Stored(s, Schema(kb[s].order, kb[s].subsumes, 1), same),
               kb' = [kb EXCEPT ![s] = new],
               call' = [call EXCEPT !.stack = Climb(Left(s), s), !.mine[s] = kb'[s].ver]
        PROVE  KnowledgeInv'
    BY <1>2, <1>4, RederiveStep
  <1>5. QED BY <1>1, <1>3, <1>4

LEMMA ReturnStep == ASSUME KnowledgeInv, Return PROVE KnowledgeInv'
  <1> DEFINE n == Len(call.stack)
  <1>1. /\ call.at = "climb" /\ IsStore(kb) /\ call.stack # <<>> /\ call.stack \in Seq(Frames)
        /\ call \in [at : {"climb"}, stack : Seq(Frames), doubted : SUBSET Schemas, mine : [Subjects -> Nat]]
        /\ kb' = kb /\ Last(call.stack).todo = {}
    BY ClimbFacts DEF Return
  <1>2. /\ \A m \in Subjects : call.mine[m] = 0 \/ (Present(m) /\ kb[m].ver >= call.mine[m])
        /\ \A i \in 1..n : \A t \in call.stack[i].todo :
             Present(t) /\ (Layered => kb[t].order >= call.stack[i].depth + 2)
        /\ Layered => \A m \in Subjects : \A t \in Above(m) : UpToDate(m, t) \/ Waits(t)
    BY <1>1 DEF KnowledgeInv
  <1>3. n \in Nat \ {0} /\ call.stack[n].todo = {}
    BY <1>1, LeftLemma
  <1>4. (Layered' <=> Layered) /\ (\A m : (Above(m))' = Above(m)) /\ \A t : kb'[t] = kb[t]
    BY <1>1 DEF Layered, Above, Present
  <1>9. \A t : (Listed(kb[t].subsumes))' = Listed(kb[t].subsumes)
    BY <1>1 DEF Listed, Present
  <1>5. CASE n > 1
    <2>1. call' = [call EXCEPT !.stack = Front(call.stack)]
      BY <1>5 DEF Return
    <2> HIDE DEF n
    <2>2. PICK F \in Seq(Frames) : F = Front(call.stack) /\ Len(F) = n - 1 /\ \A i \in 1..(n - 1) : F[i] = call.stack[i]
      <3>1. PICK k \in Nat \ {0} : k = n - 1 /\ Len(call.stack) = n
        BY <1>3, <1>5 DEF n
      <3>2. Front(call.stack) = SubSeq(call.stack, 1, k)
        BY <3>1 DEF Front
      <3>3. 1 \in 1..(Len(call.stack) + 1) /\ k \in 0..Len(call.stack)
        BY <1>3, <3>1
      <3>4. /\ SubSeq(call.stack, 1, k) \in Seq(Frames)
            /\ Len(SubSeq(call.stack, 1, k)) = IF 1 <= k THEN k - 1 + 1 ELSE 0
            /\ \A i \in 1..(k - 1 + 1) : SubSeq(call.stack, 1, k)[i] = call.stack[1 + i - 1]
        BY <1>1, <3>3, SubSeqProperties
      <3>5. \A i \in 1..(n - 1) : i \in 1..(k - 1 + 1) /\ 1 + i - 1 = i
        BY <3>1
      <3>6. k - 1 + 1 = k /\ 1 <= k
        BY <3>1
      <3>7. PICK F : F = SubSeq(call.stack, 1, k)
        OBVIOUS
      <3>8. F \in Seq(Frames) /\ F = Front(call.stack) /\ Len(F) = n - 1
        BY <3>1, <3>2, <3>4, <3>6, <3>7
      <3>9. \A i \in 1..(n - 1) : F[i] = call.stack[1 + i - 1]
        BY <3>4, <3>5, <3>7
      <3>10. \A i \in 1..(n - 1) : F[i] = call.stack[i]
        BY <3>5, <3>9
      <3>11. QED BY <3>8, <3>10
    <2>3. /\ call' \in [at : {"climb"}, stack : Seq(Frames), doubted : SUBSET Schemas, mine : [Subjects -> Nat]]
          /\ call'.stack = F /\ call'.mine = call.mine /\ call'.doubted = call.doubted
      BY <1>1, <2>1, <2>2
    <2>4. call'.stack # <<>> /\ call' \in Calls /\ call'.at = "climb"
      BY <1>3, <1>5, <2>2, <2>3 DEF Calls
    <2>5. \A i \in 1..Len(call'.stack) : i \in 1..n /\ call'.stack[i] = call.stack[i]
      BY <1>3, <2>2, <2>3
    <2>6. \A m, t : UpToDate(m, t) => UpToDate(m, t)'
      <3>1. \A m, t : Follows(t, m) => Follows(t, m)'
        BY <1>1, <2>3 DEF Follows
      <3>2. QED BY <1>9, <3>1 DEF UpToDate
    <2>7. ASSUME NEW t, Waits(t) PROVE Waits(t)'
      <3>1. PICK i \in 1..n : t \in call.stack[i].todo
        BY <2>7 DEF Waits, n
      <3>2. i \in 1..(n - 1)
        BY <1>3, <3>1
      <3>3. QED BY <2>2, <2>3, <3>1, <3>2 DEF Waits
    <2>8. Layered' => \A m \in Subjects : \A t \in (Above(m))' : UpToDate(m, t)' \/ Waits(t)'
      BY <1>2, <1>4, <2>6, <2>7
    <2>9. \A i \in 1..Len(call'.stack) : \A t \in call'.stack[i].todo :
             kb'[t] # Absent /\ (Layered' => kb'[t].order >= call'.stack[i].depth + 2)
      BY <1>1, <1>2, <1>4, <2>5 DEF Present
    <2>10. \A m \in Subjects : call'.mine[m] = 0 \/ (kb'[m] # Absent /\ kb'[m].ver >= call'.mine[m])
      BY <1>1, <1>2, <2>3 DEF Present
    <2>11. QED BY <1>1, <2>4, <2>8, <2>9, <2>10 DEF KnowledgeInv, Present
  <1>6. CASE n = 1
    <2>1. call' = [at |-> "returned", mine |-> call.mine, doubted |-> call.doubted]
      BY <1>6 DEF Return
    <2>2. /\ call' \in Calls /\ call'.at = "returned" /\ call'.mine = call.mine /\ call'.doubted = call.doubted
      BY <1>1, <2>1 DEF Calls
    <2>3. \A t : ~Waits(t)
      BY <1>3, <1>6 DEF Waits
    <2>7. \A m, t : Follows(t, m) => Follows(t, m)'
      BY <1>1, <2>2 DEF Follows
    <2>4. SchemasFollow'
      BY <1>2, <1>4, <1>9, <2>3, <2>7 DEF SchemasFollow, UpToDate
    <2>5. IsStore(kb')
      BY <1>1
    <2>6. QED BY <2>2, <2>4, <2>5, ReturnedStep
  <1>7. n > 1 \/ n = 1
    <2> HIDE DEF n
    <2>1. QED BY <1>3
  <1>8. QED BY <1>5, <1>6, <1>7

LEMMA QuitStep ==
  ASSUME KnowledgeInv, UNCHANGED kb, call' = Idle PROVE KnowledgeInv'
  BY IdleCall, QuietStep DEF KnowledgeInv

LEMMA PassStep == ASSUME KnowledgeInv, librarian_pass PROVE KnowledgeInv'
  <1> DEFINE T == {k \in Kinds : fails[k] >= MinCluster}
  <1>1. call' = [at |-> "consolidate", todo |-> T] /\ T \in SUBSET Kinds /\ UNCHANGED kb
    BY DEF librarian_pass
  <1> HIDE DEF T
  <1>2. call' \in Calls /\ call'.at = "consolidate"
    BY <1>1 DEF Calls
  <1>3. QED BY <1>1, <1>2, QuietStep DEF KnowledgeInv

LEMMA StillStep == ASSUME KnowledgeInv, UNCHANGED <<kb, call>> PROVE KnowledgeInv'
  <1>1. (Layered' <=> Layered) /\ \A m : (Above(m))' = Above(m) /\ (Present(m) <=> Present(m)')
    BY DEF Layered, Above, Present
  <1>2. \A t : (Listed(kb[t].subsumes))' = Listed(kb[t].subsumes)
    BY DEF Listed, Present
  <1>3. \A m, t : (Follows(t, m) <=> Follows(t, m)') /\ (Waits(t) <=> Waits(t)')
    BY DEF Follows, Waits
  <1>4. \A m, t : UpToDate(m, t) <=> UpToDate(m, t)'
    BY <1>2, <1>3 DEF UpToDate
  <1>5. SchemasFollow <=> SchemasFollow'
    BY <1>1, <1>2, <1>3 DEF SchemasFollow
  <1>6. QED BY <1>1, <1>3, <1>4, <1>5 DEF KnowledgeInv

(* Whatever the model answers and wherever a call raises: a store stays a  *)
(* store, and the climb over the schemas keeps its account.                *)
THEOREM KnowledgeInvariance == KnowledgeInit /\ [][KnowledgeNext]_knowledgeVars => []KnowledgeInv
  <1>1. KnowledgeInit => KnowledgeInv
    <2> SUFFICES ASSUME KnowledgeInit PROVE KnowledgeInv
      OBVIOUS
    <2>1. IsStore(kb) /\ call = Idle
      BY KnowledgeAssumption DEF KnowledgeInit
    <2>2. QED BY <2>1, IdleCall DEF KnowledgeInv
  <1>2. KnowledgeInv /\ [KnowledgeNext]_knowledgeVars => KnowledgeInv'
    <2> SUFFICES ASSUME KnowledgeInv, [KnowledgeNext]_knowledgeVars PROVE KnowledgeInv'
      OBVIOUS
    <2>1. CASE UNCHANGED knowledgeVars
      BY <2>1, StillStep DEF knowledgeVars
    <2>2. ASSUME NEW k \in Kinds, Fail(k) PROVE KnowledgeInv'
      BY <2>2, StillStep DEF Fail
    <2>3. ASSUME NEW r \in Rules, revise_with_counterexample(r) PROVE KnowledgeInv'
      BY <2>3, ReviseStep
    <2>4. CASE Raise
      BY <2>4, QuitStep DEF Raise, Finish
    <2>5. CASE call.at = "returned" /\ Finish(Idle) /\ UNCHANGED <<kb, fails, passes>>
      BY <2>5, QuitStep DEF Finish
    <2>6. CASE librarian_pass BY <2>6, PassStep
    <2>7. CASE consolidate_failures BY <2>7, ConsolidateStep
    <2>8. CASE NextLevel BY <2>8, NextLevelStep
    <2>9. CASE _induce_level BY <2>9, InduceStep
    <2>10. CASE DecayPass BY <2>10, DecayStep
    <2>11. CASE split BY <2>11, SplitStep
    <2>12. CASE propagate_revision BY <2>12, PropagateStep
    <2>13. CASE Return BY <2>13, ReturnStep
    <2>14. QED
      BY <2>1, <2>2, <2>3, <2>4, <2>5, <2>6, <2>7, <2>8, <2>9, <2>10, <2>11, <2>12, <2>13 DEF KnowledgeNext
  <1>3. QED BY <1>1, <1>2, PTL

(* When a revision returns, every schema above the narrowed rule, and above*)
(* every schema re-derived on the way, is up to date with it, doubted or   *)
(* rejected (propagate_revision), if it is among the members that the model*)
(* is shown of the schema: the depth limit of the climb leaves none out, as*)
(* long as it is no less than the orders there are, and the store layered. *)
THEOREM SchemasAreFollowed == KnowledgeInit /\ [][KnowledgeNext]_knowledgeVars => []SchemasFollow
  <1>1. KnowledgeInv => SchemasFollow
    BY DEF KnowledgeInv, SchemasFollow
  <1>2. QED BY <1>1, KnowledgeInvariance, PTL

-----------------------------------------------------------------------------
(* What is verified was earned.  A client between two sections of a call   *)
(* knows the record it saw, and what it may do next rests on that record:  *)
(* a lone client's record is still that one, or decay has deleted it.      *)

\* What may be left of a call's program.
Tails(op) ==
  CASE op = "remember" -> {<<"get", "write", "promote">>, <<"get", "write", "peek", "verify">>,
                           <<"write", "promote">>, <<"write", "peek", "verify">>,
                           <<"promote">>, <<"peek", "verify">>, <<"verify">>}
    [] op = "tainted"  -> {<<"write", "floor">>, <<"floor">>}
    [] op = "approve"  -> {<<"get", "promote">>, <<"get", "peek", "verify">>,
                           <<"promote">>, <<"peek", "verify">>, <<"verify">>}
    [] op = "reject"   -> {<<"get", "floor">>, <<"floor">>}
    [] op = "consider" -> {<<"promote", "rewrite">>, <<"peek", "verify", "rewrite">>, <<"verify", "rewrite">>,
                           <<"rewrite">>}
    [] op = "demote"   -> {<<"demote">>, <<"peekTier", "candidate">>, <<"candidate">>}
    [] op \in {"contradict", "corroborate", "pin", "flag", "replica"} -> {<<op>>}

Writes_ == {"remember", "tainted", "replica"}
Promotes == {"promote", "peek", "verify"}

\* A rejected record holds its own value's rejection.
OwnRejection(r) == r.trust = "rejected" => r.sat \/ Canon[r.text] \in ToSet(r.ledger)
Sane(r) == r \in Record /\ OwnRejection(r)
FactOk(op, f) ==
  op \in Writes_ => /\ Sane(f) /\ \E s \in Source : f.prov = {s}
                    /\ op # "replica" => f.trust = "candidate"
                    /\ f.trust = "rejected" => Canon[f.text] \in ToSet(f.ledger)

\* The configurations in which a section's effect rests on the record it reads.
Calm == conf.backend # "pg" /\ (Alone \/ "consider" \notin conf.ops)

TrustFields == {"op", "todo", "fact", "seen", "blocked", "hold"}
CallOk(k) ==
  LET me == cl[k] IN
  /\ DOMAIN me = TrustFields
  /\ me.hold # NoHold => me.todo # <<>> /\ conf.backend = "redis" /\ (k \notin touched => me.hold = rec)
  /\ me.todo # <<>> => /\ k \in conf.clients /\ me.op \in conf.ops /\ me.todo \in Tails(me.op)
                       /\ FactOk(me.op, me.fact) /\ (me.seen # NoRec => Sane(me.seen))

Supported(v) == v \in vouched \/ Cardinality(said[v]) >= 2
Earned(r) == Supported(Canon[r.text])
Said(r) == Principals(r) \subseteq said[Canon[r.text]]
Knows(me) ==
  /\ rec \in {me.seen, NoRec}
  /\ me.seen # NoRec =>
       /\ Said(me.seen)
       /\ me.op \in {"remember", "approve"} /\ Head(me.todo) \in Promotes => Earned(me.seen)
       /\ Head(me.todo) = "verify" => ~is_launder_blocked(me.seen)

TrustInv ==
  /\ conf \in Configs /\ DOMAIN cl = Client
  /\ DOMAIN said = Value /\ \A v \in Value : IsFiniteSet(said[v])
  /\ Calm => (rec # NoRec => Sane(rec)) /\ \A k \in Client : CallOk(k)
  /\ Alone => /\ rec = NoRec => rejected = {}
              /\ rec # NoRec => /\ Remembers(rec, rejected) /\ Said(rec)
                                /\ rec.trust = "verified" => Canon[rec.text] \notin rejected /\ Earned(rec)
              /\ \A k \in conf.clients : cl[k].todo # <<>> => Knows(cl[k])

LEMMA RecordIsRecords == IsRecords(Record)
BY ZenonT(60) DEF IsRecords, Record

\* The programs, section by section.
LEMMA TailOf ==
  /\ Tail(<<"get", "write", "promote">>) = <<"write", "promote">>
  /\ Tail(<<"get", "write", "peek", "verify">>) = <<"write", "peek", "verify">>
  /\ Tail(<<"write", "promote">>) = <<"promote">> /\ Tail(<<"write", "peek", "verify">>) = <<"peek", "verify">>
  /\ Tail(<<"promote">>) = <<>> /\ Tail(<<"peek", "verify">>) = <<"verify">> /\ Tail(<<"verify">>) = <<>>
  /\ Tail(<<"write", "floor">>) = <<"floor">> /\ Tail(<<"floor">>) = <<>>
  /\ Tail(<<"get", "promote">>) = <<"promote">> /\ Tail(<<"get", "peek", "verify">>) = <<"peek", "verify">>
  /\ Tail(<<"get", "floor">>) = <<"floor">>
  /\ Tail(<<"promote", "rewrite">>) = <<"rewrite">> /\ Tail(<<"peek", "verify", "rewrite">>) = <<"verify", "rewrite">>
  /\ Tail(<<"verify", "rewrite">>) = <<"rewrite">> /\ Tail(<<"rewrite">>) = <<>>
  /\ Tail(<<"peekTier", "candidate">>) = <<"candidate">> /\ \A op : Tail(<<op>>) = <<>>
<1>1. /\ Tail(<<"get", "write", "promote">>) = <<"write", "promote">>
      /\ Tail(<<"get", "write", "peek", "verify">>) = <<"write", "peek", "verify">>
      /\ Tail(<<"write", "promote">>) = <<"promote">> /\ Tail(<<"write", "peek", "verify">>) = <<"peek", "verify">>
      /\ Tail(<<"peek", "verify">>) = <<"verify">>
  OBVIOUS
<1>2. /\ Tail(<<"write", "floor">>) = <<"floor">>
      /\ Tail(<<"get", "promote">>) = <<"promote">> /\ Tail(<<"get", "peek", "verify">>) = <<"peek", "verify">>
      /\ Tail(<<"get", "floor">>) = <<"floor">>
  OBVIOUS
<1>3. /\ Tail(<<"promote", "rewrite">>) = <<"rewrite">> /\ Tail(<<"peek", "verify", "rewrite">>) = <<"verify", "rewrite">>
      /\ Tail(<<"verify", "rewrite">>) = <<"rewrite">> /\ Tail(<<"peekTier", "candidate">>) = <<"candidate">>
  OBVIOUS
<1>4. \A op : Tail(<<op>>) = <<>>
  OBVIOUS
<1> QED
  BY <1>1, <1>2, <1>3, <1>4

LEMMA HeadOf ==
  /\ Head(<<"get", "write", "promote">>) = "get" /\ Head(<<"get", "write", "peek", "verify">>) = "get"
  /\ Head(<<"write", "promote">>) = "write" /\ Head(<<"write", "peek", "verify">>) = "write"
  /\ Head(<<"promote">>) = "promote" /\ Head(<<"peek", "verify">>) = "peek" /\ Head(<<"verify">>) = "verify"
  /\ Head(<<"write", "floor">>) = "write" /\ Head(<<"floor">>) = "floor"
  /\ Head(<<"get", "promote">>) = "get" /\ Head(<<"get", "peek", "verify">>) = "get" /\ Head(<<"get", "floor">>) = "get"
  /\ Head(<<"promote", "rewrite">>) = "promote" /\ Head(<<"peek", "verify", "rewrite">>) = "peek"
  /\ Head(<<"verify", "rewrite">>) = "verify" /\ Head(<<"rewrite">>) = "rewrite"
  /\ Head(<<"demote">>) = "demote" /\ Head(<<"peekTier", "candidate">>) = "peekTier"
  /\ Head(<<"candidate">>) = "candidate" /\ \A op : Head(<<op>>) = op
OBVIOUS

Joined(q, s, r) == Len(r) = Len(q) + Len(s) /\ \A i \in 1..Len(r) : r[i] = IF i <= Len(q) THEN q[i] ELSE s[i - Len(q)]
LEMMA JoinIsJoined ==
  ASSUME NEW S, NEW q \in Seq(S), NEW s \in Seq(S), NEW r \in Seq(S), Joined(q, s, r)
  PROVE  q \o s = r
<1>1. /\ q \o s \in Seq(S) /\ Len(q \o s) = Len(q) + Len(s)
      /\ \A i \in 1..(Len(q) + Len(s)) : (q \o s)[i] = IF i <= Len(q) THEN q[i] ELSE s[i - Len(q)]
  OBVIOUS
<1> QED
  BY <1>1 DEF Joined

LEMMA Joins ==
  ASSUME NEW e, NEW f, NEW g
  PROVE  /\ <<e>> \o <<f>> = <<e, f>> /\ <<e, f>> \o <<g>> = <<e, f, g>>
         /\ <<e>> \o <<f, g>> = <<e, f, g>>
<1> DEFINE S == {e, f, g}
<1>1. <<e>> \in Seq(S) /\ <<f>> \in Seq(S) /\ <<g>> \in Seq(S) /\ <<e, f>> \in Seq(S)
      /\ <<f, g>> \in Seq(S) /\ <<e, f, g>> \in Seq(S)
  <2>1. e \in S /\ f \in S /\ g \in S
    OBVIOUS
  <2> HIDE DEF S
  <2> QED
    BY <2>1
<1>2. Joined(<<e>>, <<f>>, <<e, f>>)
  <2>1. Len(<<e, f>>) = 2 /\ Len(<<e>>) = 1 /\ Len(<<f>>) = 1
    OBVIOUS
  <2>2. ASSUME NEW i \in 1..2 PROVE <<e, f>>[i] = IF i <= 1 THEN <<e>>[i] ELSE <<f>>[i - 1]
    <3>1. CASE i = 1
      <4>1. <<e, f>>[1] = e /\ <<e>>[1] = e
        OBVIOUS
      <4> QED
        BY <3>1, <4>1
    <3>2. CASE i = 2
      <4>1. <<e, f>>[2] = f /\ <<f>>[1] = f /\ i - 1 = 1 /\ ~(i <= 1)
        BY <3>2
      <4> QED
        BY <3>2, <4>1
    <3> QED
      BY <3>1, <3>2
  <2> QED
    BY <2>1, <2>2 DEF Joined
<1>3. Joined(<<e, f>>, <<g>>, <<e, f, g>>)
  <2>1. Len(<<e, f, g>>) = 3 /\ Len(<<e, f>>) = 2 /\ Len(<<g>>) = 1
    OBVIOUS
  <2>2. ASSUME NEW i \in 1..3 PROVE <<e, f, g>>[i] = IF i <= 2 THEN <<e, f>>[i] ELSE <<g>>[i - 2]
    <3>1. CASE i = 1
      <4>1. <<e, f, g>>[1] = e /\ <<e, f>>[1] = e
        OBVIOUS
      <4> QED
        BY <3>1, <4>1
    <3>2. CASE i = 2
      <4>1. <<e, f, g>>[2] = f /\ <<e, f>>[2] = f
        OBVIOUS
      <4> QED
        BY <3>2, <4>1
    <3>3. CASE i = 3
      <4>1. <<e, f, g>>[3] = g /\ <<g>>[1] = g /\ i - 2 = 1 /\ ~(i <= 2)
        BY <3>3
      <4> QED
        BY <3>3, <4>1
    <3> QED
      BY <3>1, <3>2, <3>3
  <2> QED
    BY <2>1, <2>2 DEF Joined
<1>4. Joined(<<e>>, <<f, g>>, <<e, f, g>>)
  <2>1. Len(<<e, f, g>>) = 3 /\ Len(<<e>>) = 1 /\ Len(<<f, g>>) = 2
    OBVIOUS
  <2>2. ASSUME NEW i \in 1..3 PROVE <<e, f, g>>[i] = IF i <= 1 THEN <<e>>[i] ELSE <<f, g>>[i - 1]
    <3>1. CASE i = 1
      <4>1. <<e, f, g>>[1] = e /\ <<e>>[1] = e
        OBVIOUS
      <4> QED
        BY <3>1, <4>1
    <3>2. CASE i = 2
      <4>1. <<e, f, g>>[2] = f /\ <<f, g>>[1] = f /\ i - 1 = 1 /\ ~(i <= 1)
        BY <3>2
      <4> QED
        BY <3>2, <4>1
    <3>3. CASE i = 3
      <4>1. <<e, f, g>>[3] = g /\ <<f, g>>[2] = g /\ i - 1 = 2 /\ ~(i <= 1)
        BY <3>3
      <4> QED
        BY <3>3, <4>1
    <3> QED
      BY <3>1, <3>2, <3>3
  <2> QED
    BY <2>1, <2>2 DEF Joined
<1> HIDE DEF S
<1> QED
  BY <1>1, <1>2, <1>3, <1>4, JoinIsJoined

LEMMA JoinedPairs ==
  ASSUME NEW e, NEW f, NEW g, NEW h
  PROVE  <<e, f>> \o <<g, h>> = <<e, f, g, h>>
<1> DEFINE S == {e, f, g, h}
<1>1. <<e, f>> \in Seq(S) /\ <<g, h>> \in Seq(S) /\ <<e, f, g, h>> \in Seq(S)
  <2>1. e \in S /\ f \in S /\ g \in S /\ h \in S
    OBVIOUS
  <2> HIDE DEF S
  <2> QED
    BY <2>1
<1>2. Joined(<<e, f>>, <<g, h>>, <<e, f, g, h>>)
  <2>1. Len(<<e, f, g, h>>) = 4 /\ Len(<<e, f>>) = 2 /\ Len(<<g, h>>) = 2
    OBVIOUS
  <2>2. ASSUME NEW i \in 1..4 PROVE <<e, f, g, h>>[i] = IF i <= 2 THEN <<e, f>>[i] ELSE <<g, h>>[i - 2]
    <3>1. CASE i = 1
      <4>1. <<e, f, g, h>>[1] = e /\ <<e, f>>[1] = e
        OBVIOUS
      <4> QED
        BY <3>1, <4>1
    <3>2. CASE i = 2
      <4>1. <<e, f, g, h>>[2] = f /\ <<e, f>>[2] = f
        OBVIOUS
      <4> QED
        BY <3>2, <4>1
    <3>3. CASE i = 3
      <4>1. <<e, f, g, h>>[3] = g /\ <<g, h>>[1] = g /\ i - 2 = 1 /\ ~(i <= 2)
        BY <3>3
      <4> QED
        BY <3>3, <4>1
    <3>4. CASE i = 4
      <4>1. <<e, f, g, h>>[4] = h /\ <<g, h>>[2] = h /\ i - 2 = 2 /\ ~(i <= 2)
        BY <3>4
      <4> QED
        BY <3>4, <4>1
    <3> QED
      BY <3>1, <3>2, <3>3, <3>4
  <2> QED
    BY <2>1, <2>2 DEF Joined
<1> HIDE DEF S
<1> QED
  BY <1>1, <1>2, JoinIsJoined

Begins(op, todo) ==
  todo \in Tails(op) /\ Head(todo) # "verify" /\ (op \in {"remember", "approve"} => Head(todo) \notin Promotes)
LEMMA ProgramIsTails ==
  ASSUME conf.backend \in Backends \ {"pg"}, NEW op \in Ops
  PROVE  Begins(op, Program(op))
<1>1. CASE op \in {"corroborate", "pin", "flag", "replica"}
  BY <1>1, HeadOf, ZenonT(60) DEF Program, Tails, Begins
<1>2. Sections("promote") \in {<<"promote">>, <<"peek", "verify">>} /\ Sections("demote") \in {<<"demote">>, <<"peekTier", "candidate">>}
      /\ Sections("contradict") = <<"contradict">> /\ Sections("floor") = <<"floor">>
  BY DEF Backends, Sections, SectionsOf, LocalSections, Mem0Sections, LanceSections, RedisSections
<1>3. CASE op = "contradict" \/ op = "demote"
  BY <1>2, <1>3, HeadOf, ZenonT(60) DEF Program, Tails, Begins
<1>4. CASE op = "remember"
  <2>1. <<"get", "write">> \o <<"promote">> = <<"get", "write", "promote">>
    BY Joins
  <2>2. <<"get", "write">> \o <<"peek", "verify">> = <<"get", "write", "peek", "verify">>
    BY JoinedPairs
  <2> QED
    BY <1>2, <1>4, <2>1, <2>2, HeadOf, ZenonT(60) DEF Program, Tails, Begins, Promotes, remember
<1>5. CASE op = "tainted"
  <2>1. <<"write">> \o <<"floor">> = <<"write", "floor">>
    BY Joins
  <2> QED
    BY <1>2, <1>5, <2>1, HeadOf, ZenonT(60) DEF Program, Tails, Begins, remember_tainted
<1>6. CASE op = "approve"
  <2>1. <<"get">> \o <<"promote">> = <<"get", "promote">>
    BY Joins
  <2>2. <<"get">> \o <<"peek", "verify">> = <<"get", "peek", "verify">>
    BY Joins
  <2> QED
    BY <1>2, <1>6, <2>1, <2>2, HeadOf, ZenonT(60) DEF Program, Tails, Begins, Promotes, approve
<1>7. CASE op = "reject"
  <2>1. <<"get">> \o <<"floor">> = <<"get", "floor">>
    BY Joins
  <2> QED
    BY <1>2, <1>7, <2>1, HeadOf, ZenonT(60) DEF Program, Tails, Begins, reject
<1>8. CASE op = "consider"
  <2>1. <<"promote">> \o <<"rewrite">> = <<"promote", "rewrite">>
    BY Joins
  <2>2. <<"peek", "verify">> \o <<"rewrite">> = <<"peek", "verify", "rewrite">>
    BY Joins
  <2> QED
    BY <1>2, <1>8, <2>1, <2>2, HeadOf, ZenonT(60) DEF Program, Tails, Begins, consider
<1> QED
  BY <1>1, <1>3, <1>4, <1>5, <1>6, <1>7, <1>8 DEF Ops

\* What a section is part of, and what follows it.
SectionNames == {"get", "write", "promote", "peek", "verify", "floor", "rewrite", "contradict", "demote", "peekTier",
                 "candidate", "corroborate", "pin", "flag", "replica"}
ComesNext(op, sec, next) ==
  /\ next \in {"promote", "peek"} /\ op = "remember" => sec = "write"
  /\ next \in {"promote", "peek"} /\ op = "approve" => sec = "get"
  /\ next = "verify" => sec = "peek"
LEMMA SectionFacts ==
  ASSUME NEW op \in Ops, NEW todo \in Tails(op)
  PROVE  LET sec == Head(todo) IN
         /\ sec \in SectionNames
         /\ sec = "write" => op \in {"remember", "tainted"}
         /\ sec = "replica" => op = "replica"
         /\ sec = "rewrite" => op = "consider"
         /\ sec \in Promotes => op \in {"remember", "approve", "consider"}
         /\ Tail(todo) # <<>> => Tail(todo) \in Tails(op) /\ ComesNext(op, sec, Head(Tail(todo)))
         /\ sec = "peek" /\ op = "consider" => Tail(Tail(todo)) \in Tails(op) /\ Head(Tail(Tail(todo))) = "rewrite"
<1>1. CASE op = "remember"
  BY <1>1, TailOf, HeadOf, ZenonT(60) DEF Tails, SectionNames, Promotes, ComesNext
<1>2. CASE op = "tainted"
  BY <1>2, TailOf, HeadOf, ZenonT(60) DEF Tails, SectionNames, Promotes, ComesNext
<1>3. CASE op = "approve"
  BY <1>3, TailOf, HeadOf, ZenonT(60) DEF Tails, SectionNames, Promotes, ComesNext
<1>4. CASE op = "reject"
  BY <1>4, TailOf, HeadOf, ZenonT(60) DEF Tails, SectionNames, Promotes, ComesNext
<1>5. CASE op = "consider"
  BY <1>5, TailOf, HeadOf, ZenonT(60) DEF Tails, SectionNames, Promotes, ComesNext
<1>6. CASE op = "demote"
  BY <1>6, TailOf, HeadOf, ZenonT(60) DEF Tails, SectionNames, Promotes, ComesNext
<1>7. CASE op \in {"contradict", "corroborate", "pin", "flag", "replica"}
  BY <1>7, TailOf, HeadOf, ZenonT(60) DEF Tails, SectionNames, Promotes, ComesNext
<1> QED
  BY <1>1, <1>2, <1>3, <1>4, <1>5, <1>6, <1>7 DEF Ops

-----------------------------------------------------------------------------
(* What a section makes of the record it reads.                            *)

Same(r, old) ==
  r \in Record /\ r.text = old.text /\ r.trust = old.trust /\ r.ledger = old.ledger /\ r.sat = old.sat /\ r.prov = old.prov

LEMMA ConfirmedIsSame ==
  ASSUME NEW r \in Record
  PROVE  Same(Confirmed(r), r)
<1> DEFINE w == IF r.window = "volatile" THEN "none" ELSE r.window
<1>1. Confirmed(r) = [r EXCEPT !.window = w]
  BY DEF Confirmed
<1>2. w \in Window
  BY DEF Record, Window
<1> HIDE DEF w
<1> QED
  BY <1>1, <1>2 DEF Same, Record

LEMMA RaisedIsSame ==
  ASSUME NEW old \in Record, NEW r \in Raised(old)
  PROVE  Same(r, old)
<1> DEFINE n == Least(old.sup + 1, MaxSupport)
<1>1. old.sup \in Nat /\ old.ec \in 0..2
  BY DEF Record
<1>2. n \in Nat /\ Least(old.ec + 1, 2) \in 0..2
  BY <1>1, LimitsAreNumbers DEF Least
<1>3. PICK e \in {old.ec, Least(old.ec + 1, 2)} : r = [old EXCEPT !.sup = n, !.ec = e]
  BY DEF Raised
<1> HIDE DEF n
<1>4. e \in 0..2
  BY <1>1, <1>2, <1>3
<1> QED
  BY <1>2, <1>3, <1>4 DEF Same, Record

LEMMA LoweredIsSame ==
  ASSUME NEW old \in Record, NEW r \in Lowered(old)
  PROVE  Same(r, old)
<1>1. PICK e \in {0, 1, 2} : r = [old EXCEPT !.ec = e]
  BY DEF Lowered
<1>2. e \in 0..2
  BY <1>1
<1> QED
  BY <1>1, <1>2 DEF Same, Record

LEMMA SameIsSane ==
  ASSUME NEW old, NEW r, Same(r, old), NEW bad
  PROVE  (Sane(old) => Sane(r)) /\ (Remembers(old, bad) => Remembers(r, bad))
BY DEF Same, Sane, OwnRejection, Remembers

LEMMA SameIsTransitive ==
  ASSUME NEW p, NEW q, NEW r, Same(p, q), Same(q, r)
  PROVE  Same(p, r)
BY DEF Same

\* Where a result's value, principals and tier come from.
Origin(sec, old, f, seen0, r) ==
  \/ /\ old # NoRec /\ r.text = old.text
     /\ r.prov \subseteq old.prov \/ (sec = "write" /\ Canon[f.text] = Canon[old.text] /\ r.prov \subseteq old.prov \cup f.prov)
     /\ r.trust = "verified" =>
          old.trust = "verified" \/ sec = "verify" \/ (sec = "promote" /\ ~is_launder_blocked(old))
  \/ /\ sec \in {"write", "replica"} /\ r.text = f.text /\ r.prov = f.prov
     /\ r.trust = "verified" => sec = "replica" /\ ~r.sat /\ Canon[r.text] \notin ToSet(r.ledger)
  \/ sec = "rewrite" /\ old = NoRec /\ r = seen0

Outcome_(sec, old, k, bad, r) == Sane(r) /\ Remembers(r, bad) /\ Origin(sec, old, k.fact, k.seen, r)

LEMMA SameOutcome ==
  ASSUME NEW sec, NEW old, old # NoRec, Sane(old), NEW k, NEW bad, Remembers(old, bad), NEW r, Same(r, old)
  PROVE  Outcome_(sec, old, k, bad, r)
<1>1. Sane(r) /\ Remembers(r, bad)
  BY SameIsSane
<1> QED
  BY <1>1 DEF Same, Outcome_, Origin

\* Another tier, which is not "rejected".
LEMMA TierOutcome ==
  ASSUME NEW sec, NEW old, old # NoRec, Sane(old), NEW k, NEW bad, Remembers(old, bad), NEW t \in {"candidate", "verified"},
         t = "verified" => sec = "verify" \/ (sec = "promote" /\ ~is_launder_blocked(old))
  PROVE  Outcome_(sec, old, k, bad, [old EXCEPT !.trust = t])
<1> DEFINE r == [old EXCEPT !.trust = t]
<1>1. r \in Record /\ r.trust = t /\ r.text = old.text /\ r.prov = old.prov /\ r.ledger = old.ledger /\ r.sat = old.sat
  BY DEF Sane, Record, Trust
<1> HIDE DEF r
<1> QED
  BY <1>1 DEF Outcome_, Origin, Sane, OwnRejection, Remembers, r

LEMMA RejectedOutcome ==
  ASSUME NEW sec, NEW old, old # NoRec, NEW k, NEW bad, NEW r0, Same(r0, old), Remembers(old, bad)
  PROVE  Outcome_(sec, old, k, bad, record_rejection([r0 EXCEPT !.trust = "rejected"]))
<1> DEFINE r == record_rejection([r0 EXCEPT !.trust = "rejected"])
<1>1. r0 \in Record /\ Remembers(r0, bad) /\ r0.text = old.text /\ r0.prov = old.prov
  BY SameIsSane DEF Same
<1>2. /\ r \in Record /\ Remembers(r, bad \cup {Canon[r0.text]})
      /\ DOMAIN r = DOMAIN r0 /\ \A f \in DOMAIN r0 \ {"ledger", "sat", "trust"} : r[f] = r0[f]
  BY <1>1, RecordIsRecords, RejectionRemembers
<1>3. r.text = r0.text /\ r.prov = r0.prov
  BY <1>1, <1>2 DEF Record
<1>4. r.trust = "rejected"
  <2>1. [r0 EXCEPT !.trust = "rejected"].trust = "rejected" /\ "trust" \in DOMAIN [r0 EXCEPT !.trust = "rejected"]
    BY <1>1 DEF Record
  <2> QED
    BY <2>1, RejectionKeeps
<1> HIDE DEF r
<1> QED
  BY <1>1, <1>2, <1>3, <1>4 DEF Outcome_, Origin, Sane, OwnRejection, Remembers, r

LEMMA OnRecordOutcome ==
  ASSUME NEW sec \in SectionNames \ {"write", "rewrite", "replica"}, NEW old, old # NoRec, Sane(old), NEW k, NEW bad,
         Remembers(old, bad), NEW r \in OnRecord(sec, old, k)
  PROVE  Outcome_(sec, old, k, bad, r)
<1>0. old \in Record /\ Same(old, old)
  BY DEF Sane, Same
<1>1. CASE sec \in {"get", "peek", "peekTier"}
  <2>1. r = old
    BY <1>1 DEF OnRecord
  <2> QED
    BY <1>0, <2>1, SameOutcome
<1>2. CASE sec = "corroborate"
  <2>1. PICK x \in Raised(old) : r = Confirmed(x)
    BY <1>2 DEF OnRecord
  <2>2. Same(x, old) /\ Same(r, x)
    BY <1>0, <2>1, RaisedIsSame, ConfirmedIsSame DEF Same
  <2> QED
    BY <2>2, SameIsTransitive, SameOutcome
<1>3. CASE sec = "contradict"
  <2>1. PICK x \in Lowered(old) : r = IF x.ec = 0 THEN record_rejection([x EXCEPT !.trust = "rejected"]) ELSE x
    BY <1>3 DEF OnRecord
  <2>2. Same(x, old)
    BY <1>0, LoweredIsSame
  <2> QED
    BY <2>1, <2>2, SameOutcome, RejectedOutcome
<1>4. CASE sec = "floor"
  <2> DEFINE r0 == [old EXCEPT !.ec = 0]
  <2>1. r0 \in Record /\ Same(r0, old)
    BY <1>0 DEF Record, Same
  <2>2. [old EXCEPT !.ec = 0, !.trust = "rejected"] = [r0 EXCEPT !.trust = "rejected"]
    BY <1>0 DEF Record
  <2>3. r = record_rejection([old EXCEPT !.ec = 0, !.trust = "rejected"])
    BY <1>4 DEF OnRecord
  <2> HIDE DEF r0
  <2> QED
    BY <2>1, <2>2, <2>3, RejectedOutcome
<1>5. CASE sec \in {"promote", "verify"}
  <2> DEFINE r0 == [old EXCEPT !.trust = "verified"]
  <2>1. r = old \/ (r = Confirmed(r0) /\ (sec = "promote" => ~is_launder_blocked(old)))
    BY <1>5 DEF OnRecord
  <2>2. r0 \in Record
    BY <1>0 DEF Record, Trust
  <2>3. ASSUME r # old PROVE Outcome_(sec, old, k, bad, r0) /\ Same(r, r0)
    BY <1>5, <2>1, <2>2, <2>3, TierOutcome, ConfirmedIsSame
  <2> HIDE DEF r0
  <2>4. Outcome_(sec, old, k, bad, r0) /\ Same(r, r0) => Outcome_(sec, old, k, bad, r)
    <3> SUFFICES ASSUME Outcome_(sec, old, k, bad, r0), Same(r, r0) PROVE Outcome_(sec, old, k, bad, r)
      OBVIOUS
    <3>1. Sane(r) /\ Remembers(r, bad)
      BY SameIsSane DEF Outcome_
    <3>2. Origin(sec, old, k.fact, k.seen, r)
      BY <1>5 DEF Outcome_, Origin, Same
    <3> QED
      BY <3>1, <3>2 DEF Outcome_
  <2> QED
    BY <1>0, <2>3, <2>4, SameOutcome
<1>6. CASE sec \in {"demote", "candidate"}
  <2>1. r = old \/ r = [old EXCEPT !.trust = "candidate"]
    BY <1>6 DEF OnRecord
  <2>2. CASE r = old
    BY <1>0, <2>2, SameOutcome
  <2>3. CASE r = [old EXCEPT !.trust = "candidate"]
    <3>1. Outcome_(sec, old, k, bad, [old EXCEPT !.trust = "candidate"])
      BY TierOutcome
    <3> QED
      BY <2>3, <3>1
  <2> QED
    BY <2>1, <2>2, <2>3
<1>7. CASE sec \in {"pin", "flag"}
  <2>1. r = [old EXCEPT !.pinned = ~@] \/ \E w \in {"none", "volatile"} : r = [old EXCEPT !.window = w]
    BY <1>7 DEF OnRecord
  <2>2. Same(r, old)
    <3>1. \A w \in {"none", "volatile"} : Same([old EXCEPT !.window = w], old)
      BY <1>0 DEF Same, Record, Window
    <3>2. Same([old EXCEPT !.pinned = ~@], old)
      BY <1>0 DEF Same, Record
    <3> QED
      BY <2>1, <3>1, <3>2
  <2> QED
    BY <2>2, SameOutcome
<1> QED
  BY <1>1, <1>2, <1>3, <1>4, <1>5, <1>6, <1>7 DEF SectionNames

LEMMA WriteOutcome ==
  ASSUME NEW old, old # NoRec => Sane(old), NEW k, NEW op \in Writes_ \ {"replica"}, FactOk(op, k.fact), NEW bad,
         IF old = NoRec THEN bad = {} ELSE Remembers(old, bad), NEW r \in Written(old, k.fact, FALSE)
  PROVE  Outcome_("write", old, k, bad, r)
<1> DEFINE f == k.fact
<1>1. Sane(f) /\ f.prov \subseteq Source /\ f.trust = "candidate" /\ f \in Record
  BY DEF FactOk, Writes_, Sane
<1> HIDE DEF f
<1>2. CASE old = NoRec
  <2>1. r = f
    BY <1>2 DEF Written, f
  <2> QED
    BY <1>1, <1>2, <2>1 DEF Outcome_, Origin, Remembers, f
<1>3. CASE old # NoRec /\ ~SameText(old.text, f.text)
  <2>1. r = supersede_detail(old, f)
    BY <1>3 DEF Written, f
  <2>2. r \in Record /\ Remembers(r, bad)
    BY <1>1, <1>3, <2>1, RecordIsRecords, SupersedeRemembers DEF Sane
  <2>3. {"text", "trust", "prov"} \subseteq DOMAIN f \ {"ledger", "sat", "sup"}
    BY <1>1 DEF Record
  <2>4. r.text = f.text /\ r.trust = "candidate" /\ r.prov = f.prov
    BY <1>1, <2>1, <2>3, SupersedeKeeps
  <2> QED
    BY <1>3, <2>2, <2>4 DEF Outcome_, Origin, Sane, OwnRejection, f
<1>4. CASE old # NoRec /\ SameText(old.text, f.text) /\ old.trust = "rejected"
  <2>1. r = old
    BY <1>4 DEF Written, f
  <2>2. Same(old, old)
    BY <1>4 DEF Same, Sane
  <2> QED
    BY <1>4, <2>1, <2>2, SameOutcome
<1>5. CASE old # NoRec /\ SameText(old.text, f.text) /\ old.trust # "rejected"
  <2>1. PICK r0 \in Raised(old) : r = Confirmed([r0 EXCEPT !.prov = @ \cup f.prov, !.ledger = @])
    BY <1>5, Zenon DEF Written, f
  <2>2. Same(r0, old)
    BY <1>5, RaisedIsSame DEF Sane
  <2> DEFINE r1 == [r0 EXCEPT !.prov = r0.prov \cup f.prov]
  <2>3. r1 = [r0 EXCEPT !.prov = @ \cup f.prov, !.ledger = @] /\ r1 \in Record /\ r1.prov = r0.prov \cup f.prov
        /\ r1.text = r0.text /\ r1.trust = r0.trust /\ r1.ledger = r0.ledger /\ r1.sat = r0.sat
    BY <1>1, <2>2 DEF Same, Record
  <2> HIDE DEF r1
  <2>4. Same(r, r1)
    BY <2>1, <2>3, ConfirmedIsSame
  <2>5. r \in Record /\ r.text = old.text /\ r.trust = old.trust /\ r.ledger = old.ledger /\ r.sat = old.sat
        /\ r.prov \subseteq old.prov \cup f.prov
    BY <2>2, <2>3, <2>4 DEF Same
  <2>6. Canon[old.text] = Canon[f.text]
    BY <1>1, <1>5, FoldsAreOneValue DEF Sane, Record
  <2> QED
    BY <1>5, <2>5, <2>6 DEF Outcome_, Origin, Sane, OwnRejection, Remembers, f
<1> QED
  BY <1>2, <1>3, <1>4, <1>5

\* The write after a promotion stores the record the promotion saw.
LEMMA RewriteOutcome ==
  ASSUME NEW k, k.seen # NoRec => Sane(k.seen), NEW old \in {k.seen, NoRec}, NEW bad,
         IF old = NoRec THEN bad = {} ELSE Remembers(old, bad), NEW r \in Written(old, k.seen, TRUE), old = NoRec => r # NoRec
  PROVE  Outcome_("rewrite", old, k, bad, r)
<1>1. CASE old = NoRec
  <2>1. r = k.seen
    BY <1>1 DEF Written
  <2> QED
    BY <1>1, <2>1 DEF Outcome_, Origin, Remembers
<1>2. CASE old # NoRec
  <2>1. old = k.seen /\ Sane(old) /\ Same(old, old)
    BY <1>2 DEF Same, Sane
  <2>2. CASE old.trust = "rejected"
    <3>1. r = old
      BY <1>2, <2>1, <2>2 DEF Written, SameText
    <3> QED
      BY <1>2, <2>1, <3>1, SameOutcome
  <2>3. CASE old.trust # "rejected"
    <3>1. PICK r0 \in Raised(old) : r = Confirmed([r0 EXCEPT !.prov = @ \cup old.prov, !.ledger = old.ledger])
      BY <1>2, <2>1, <2>3, Zenon DEF Written, SameText
    <3>2. Same(r0, old)
      BY <2>1, RaisedIsSame DEF Sane
    <3>3. [r0 EXCEPT !.prov = @ \cup old.prov, !.ledger = old.ledger] = r0
      BY <3>2 DEF Same, Record
    <3>4. Same(r, r0)
      BY <3>1, <3>2, <3>3, ConfirmedIsSame DEF Same
    <3> QED
      BY <1>2, <2>1, <3>2, <3>4, SameIsTransitive, SameOutcome
  <2> QED
    BY <2>2, <2>3
<1> QED
  BY <1>1, <1>2

LEMMA ReplicaOutcome ==
  ASSUME NEW old, old # NoRec => Sane(old), NEW k, FactOk("replica", k.fact), NEW bad,
         IF old = NoRec THEN bad = {} ELSE Remembers(old, bad)
  PROVE  Outcome_("replica", old, k, bad, guard_replica(old, k.fact))
<1> DEFINE f == k.fact
           r == guard_replica(old, f)
           sat == f.sat \/ old.sat
           merged == IF old = NoRec THEN f
                     ELSE WithLedger([f EXCEPT !.sat = sat], AllNoted(old.ledger, f.ledger))
<1>1. f \in Record /\ (old # NoRec => old \in Record)
  BY DEF FactOk, Writes_, Sane
<1>2. r \in Record /\ Remembers(r, bad \cup ToSet(f.ledger))
  BY <1>1, RecordIsRecords, ReplicaRemembers
<1>3. {"text", "prov"} \subseteq DOMAIN f \ {"ledger", "sat", "trust"}
  BY <1>1 DEF Record
<1>4. r.text = f.text /\ r.prov = f.prov
  BY <1>3, GuardKeeps
<1>5. DOMAIN merged = DOMAIN f /\ merged.text = f.text /\ merged.trust = f.trust
  <2>1. {"text", "trust", "sat", "ledger"} \subseteq DOMAIN f
    BY <1>1 DEF Record
  <2>2. CASE old = NoRec
    BY <2>2
  <2>3. CASE old # NoRec
    <3> DEFINE base == [f EXCEPT !.sat = sat]
    <3>1. DOMAIN base = DOMAIN f /\ base.text = f.text /\ base.trust = f.trust
      BY <2>1
    <3>2. merged = WithLedger(base, AllNoted(old.ledger, f.ledger))
      BY <2>3
    <3> HIDE DEF base, merged
    <3> QED
      BY <2>1, <3>1, <3>2, WithLedgerKeeps
  <2> QED
    BY <2>2, <2>3
<1>6. {"text", "trust", "ledger", "sat"} \subseteq DOMAIN merged
  BY <1>1, <1>5 DEF Record
<1>7. r = IF Canon[merged.text] \in ToSet(merged.ledger) THEN [merged EXCEPT !.trust = "rejected"]
          ELSE IF merged.trust = "verified" /\ merged.sat THEN [merged EXCEPT !.trust = "candidate"]
          ELSE merged
  BY DEF guard_replica
<1> HIDE DEF r, merged, f
<1>8. r.trust = "verified" => ~r.sat /\ Canon[r.text] \notin ToSet(r.ledger)
  BY <1>6, <1>7
<1>9. r.trust = "rejected" => r.sat \/ Canon[r.text] \in ToSet(r.ledger)
  <2>1. CASE Canon[merged.text] \in ToSet(merged.ledger)
    BY <1>6, <1>7, <2>1
  <2>2. CASE Canon[merged.text] \notin ToSet(merged.ledger)
    <3>1. r.trust = "rejected" => f.trust = "rejected"
      BY <1>5, <1>6, <1>7, <2>2
    <3>2. f.trust = "rejected" => Canon[f.text] \in ToSet(f.ledger)
      BY DEF FactOk, Writes_, f
    <3> QED
      BY <1>2, <1>4, <3>1, <3>2 DEF Remembers
  <2> QED
    BY <2>1, <2>2
<1> QED
  BY <1>2, <1>4, <1>8, <1>9 DEF Outcome_, Origin, Sane, OwnRejection, Remembers, r, f

LEMMA SectionOutcome ==
  ASSUME NEW k, k.op \in Ops, k.todo \in Tails(k.op), FactOk(k.op, k.fact), k.seen # NoRec => Sane(k.seen),
         NEW old, old # NoRec => Sane(old), Head(k.todo) = "rewrite" => old \in {k.seen, NoRec},
         NEW bad, IF old = NoRec THEN bad = {} ELSE Remembers(old, bad),
         NEW r \in Results(Head(k.todo), old, k), old = NoRec => r # NoRec
  PROVE  Outcome_(Head(k.todo), old, k, bad, r)
<1> DEFINE sec == Head(k.todo)
<1>1. sec \in SectionNames /\ (sec = "write" => k.op \in {"remember", "tainted"}) /\ (sec = "replica" => k.op = "replica")
  BY SectionFacts
<1> HIDE DEF sec
<1>2. CASE sec = "write"
  <2>1. r \in Written(old, k.fact, FALSE)
    BY <1>2 DEF Results, sec
  <2>2. k.op \in Writes_ \ {"replica"}
    BY <1>1, <1>2 DEF Writes_
  <2> QED
    BY <1>2, <2>1, <2>2, WriteOutcome DEF sec
<1>3. CASE sec = "rewrite"
  <2>1. r \in Written(old, k.seen, TRUE)
    BY <1>3 DEF Results, sec
  <2> QED
    BY <1>3, <2>1, RewriteOutcome DEF sec
<1>4. CASE sec = "replica"
  <2>1. r = guard_replica(old, k.fact)
    BY <1>4 DEF Results, sec
  <2>2. FactOk("replica", k.fact)
    BY <1>1, <1>4
  <2> QED
    BY <1>4, <2>1, <2>2, ReplicaOutcome DEF sec
<1>5. CASE sec \notin {"write", "rewrite", "replica"}
  <2>1. r \in IF old = NoRec THEN {NoRec} ELSE OnRecord(sec, old, k)
    BY <1>5 DEF Results, sec
  <2>2. old # NoRec /\ r \in OnRecord(sec, old, k)
    BY <2>1
  <2> QED
    BY <1>1, <1>5, <2>2, OnRecordOutcome DEF sec
<1> QED
  BY <1>2, <1>3, <1>4, <1>5

-----------------------------------------------------------------------------
(* A section takes effect.                                                 *)

\* Effect(c, rec), for the result r.
Moves(c, r, attested) ==
  LET me == cl[c]  sec == Head(me.todo) IN
  /\ r \in Results(sec, rec, me) /\ attested \in BOOLEAN
  /\ attested => me.op = "remember" /\ sec = "write" /\ ~me.blocked /\ ~ValueRejected(r)
  /\ rec' = IF sec \in {"get", "peek", "peekTier"} THEN rec ELSE r
  /\ Note(c, sec, r, attested)
  /\ cl' = [cl EXCEPT ![c] =
       IF GoesOn(sec, r, me, attested) /\ Rest(sec, r, me) # <<>>
         THEN [me EXCEPT !.todo = Rest(sec, r, me), !.seen = r, !.hold = NoHold,
                         !.blocked = @ \/ (sec = "get" /\ r # NoRec /\ r.trust = "rejected")]
       ELSE Free]

LEMMA EffectMoves ==
  ASSUME NEW c, Effect(c, rec)
  PROVE  \E r, attested : Moves(c, r, attested)
BY Zenon DEF Effect, Moves

\* A lone client is the only one.
LEMMA LoneClient ==
  ASSUME conf \in Configs, Alone, NEW c \in conf.clients
  PROVE  conf.clients = {c}
<1>1. IsFiniteSet(conf.clients) /\ Cardinality(conf.clients) = 1
  BY ConfigsAreSane DEF Alone
<1>2. Cardinality(conf.clients) = 1 => \E x : conf.clients = {x}
  BY <1>1, FS_Singleton
<1> QED
  BY <1>1, <1>2

LEMMA Running ==
  ASSUME TrustInv, Calm, NEW c \in Client, cl[c].todo # <<>>
  PROVE  /\ c \in conf.clients /\ cl[c].op \in Ops /\ cl[c].op \in conf.ops /\ cl[c].todo \in Tails(cl[c].op)
         /\ FactOk(cl[c].op, cl[c].fact) /\ (cl[c].seen # NoRec => Sane(cl[c].seen)) /\ DOMAIN cl[c] = TrustFields
         /\ Alone => Knows(cl[c]) /\ conf.clients = {c}
<1>1. CallOk(c)
  BY DEF TrustInv
<1>2. conf \in Configs /\ conf.ops \subseteq Ops
  BY ConfigsAreSane DEF TrustInv
<1>3. c \in conf.clients
  BY <1>1 DEF CallOk
<1> QED
  BY <1>1, <1>2, <1>3, LoneClient DEF CallOk, TrustInv

LEMMA MoveResult ==
  ASSUME TrustInv, Calm, NEW c \in Client, cl[c].todo # <<>>, NEW r, NEW attested, Moves(c, r, attested),
         NEW bad, IF rec = NoRec THEN bad = {} ELSE Remembers(rec, bad)
  PROVE  /\ rec' = r /\ (rec # NoRec => r # NoRec)
         /\ r # NoRec => Outcome_(Head(cl[c].todo), rec, cl[c], bad, r)
<1> DEFINE me == cl[c]
           sec == Head(me.todo)
<1>1. /\ me.op \in Ops /\ me.op \in conf.ops /\ me.todo \in Tails(me.op)
      /\ FactOk(me.op, me.fact) /\ (me.seen # NoRec => Sane(me.seen)) /\ (Alone => Knows(me))
  BY Running
<1>2. sec = "rewrite" => rec \in {me.seen, NoRec}
  <2>1. sec = "rewrite" => me.op = "consider"
    BY <1>1, SectionFacts
  <2> QED
    BY <1>1, <2>1 DEF Calm, Knows
<1>3. rec # NoRec => Sane(rec)
  BY DEF TrustInv
<1>4. r \in Results(sec, rec, me) /\ rec' = IF sec \in {"get", "peek", "peekTier"} THEN rec ELSE r
  BY DEF Moves
<1> HIDE DEF me, sec
<1>5. (rec = NoRec => r # NoRec) => Outcome_(sec, rec, me, bad, r)
  BY <1>1, <1>2, <1>3, <1>4, SectionOutcome DEF me, sec
<1>6. rec # NoRec => r # NoRec
  BY <1>5, RecordsAreSane DEF Outcome_, Sane
<1>7. sec \in {"get", "peek", "peekTier"} => r = rec
  BY <1>4 DEF Results, OnRecord
<1> QED
  BY <1>4, <1>5, <1>6, <1>7 DEF me, sec

\* What was said and vouched for stays so.
LEMMA NoteGrows ==
  ASSUME DOMAIN said = Value, \A v \in Value : IsFiniteSet(said[v]), NEW c, NEW sec, NEW r, NEW attested, Note(c, sec, r, attested)
  PROVE  /\ vouched \subseteq vouched' /\ DOMAIN said' = Value
         /\ \A v \in Value : IsFiniteSet(said'[v]) /\ said[v] \subseteq said'[v]
         /\ \A v \in Value : Supported(v) => Supported(v)'
<1>1. vouched \subseteq vouched'
  BY DEF Note
<1>2. DOMAIN said' = Value
  BY DEF Note
<1>3. ASSUME NEW v \in Value PROVE IsFiniteSet(said'[v]) /\ said[v] \subseteq said'[v]
  <2> DEFINE w == Canon[cl[c].fact.text]
             p == Asserted(c)
  <2>1. said' = said \/ said' = [said EXCEPT ![w] = @ \cup {p}]
    BY DEF Note
  <2> HIDE DEF w, p
  <2>2. said'[v] = said[v] \/ said'[v] = said[v] \cup {p}
    BY <2>1
  <2> QED
    BY <2>2, FS_AddElement
<1>4. ASSUME NEW v \in Value, Cardinality(said[v]) >= 2 PROVE Cardinality(said'[v]) >= 2
  <2>1. IsFiniteSet(said[v]) /\ Cardinality(said[v]) \in Nat /\ Cardinality(said'[v]) \in Nat
    BY <1>3, FS_CardinalityType
  <2>2. Cardinality(said[v]) <= Cardinality(said'[v])
    BY <1>3, FS_Subset
  <2> QED
    BY <1>4, <2>1, <2>2
<1> QED
  BY <1>1, <1>2, <1>3, <1>4 DEF Supported

\* The principals a result names have said its value.
LEMMA MoveSaid ==
  ASSUME TrustInv, Alone, NEW c \in Client, cl[c].todo # <<>>, NEW r, r # NoRec, NEW attested, Moves(c, r, attested)
  PROVE  Principals(r) \subseteq said'[Canon[r.text]]
<1> DEFINE me == cl[c]
           sec == Head(me.todo)
           f == me.fact
           bad == IF rec = NoRec THEN {} ELSE ToSet(rec.ledger)
<1>1. Calm
  BY DEF Calm, Alone
<1>2. Outcome_(sec, rec, me, bad, r)
  <2>1. IF rec = NoRec THEN bad = {} ELSE Remembers(rec, bad)
    BY DEF Remembers
  <2> HIDE DEF bad
  <2> QED
    BY <1>1, <2>1, MoveResult
<1>3. /\ me.op \in Ops /\ me.todo \in Tails(me.op) /\ FactOk(me.op, f) /\ (me.seen # NoRec => Sane(me.seen))
      /\ Knows(me)
  BY <1>1, Running
<1>4. (sec = "write" => me.op \in {"remember", "tainted"}) /\ (sec = "replica" => me.op = "replica")
  BY <1>3, SectionFacts
<1>5. Note(c, sec, r, attested)
  BY DEF Moves
<1>6. \A v \in Value : said[v] \subseteq said'[v]
  BY <1>5, NoteGrows DEF TrustInv
<1>7. \A q \in Record : Canon[q.text] \in Value
  BY RecordsAreSane DEF Record
<1>8. DOMAIN said = Value
  BY DEF TrustInv
<1>9. r \in Record /\ (rec # NoRec => rec \in Record /\ Said(rec))
  BY <1>1, <1>2 DEF Outcome_, Sane, TrustInv
<1> HIDE DEF bad, me, sec, f
<1>10. ASSUME sec \in {"write", "replica"} PROVE Principals(f) \subseteq said'[Canon[f.text]]
  <2>1. Sane(f) /\ \E s \in Source : f.prov = {s}
    BY <1>3, <1>4, <1>10 DEF FactOk, Writes_
  <2>2. PICK s \in Source : f.prov = {s}
    BY <2>1
  <2>3. (CHOOSE x \in f.prov : TRUE) = s
    BY <2>2
  <2>4. Asserted(c) = AuthOf[s]
    BY <2>3 DEF Asserted, f, me
  <2>5. Principals(f) \subseteq {AuthOf[s]} \ {NoPrincipal}
    BY <2>2 DEF Principals
  <2>6. Canon[f.text] \in Value
    BY <1>7, <2>1 DEF Sane
  <2>7. AuthOf[s] # NoPrincipal => said' = [said EXCEPT ![Canon[f.text]] = @ \cup {AuthOf[s]}]
    BY <1>5, <1>10, <2>4 DEF Note, f, me
  <2> QED
    BY <1>8, <2>5, <2>6, <2>7
<1>11. CASE rec # NoRec /\ r.text = rec.text /\ r.prov \subseteq rec.prov
  <2>1. Principals(r) \subseteq Principals(rec)
    BY <1>11 DEF Principals
  <2> QED
    BY <1>6, <1>7, <1>9, <1>11, <2>1 DEF Said
<1>12. CASE rec # NoRec /\ r.text = rec.text /\ sec = "write" /\ Canon[f.text] = Canon[rec.text] /\ r.prov \subseteq rec.prov \cup f.prov
  <2>1. Principals(r) \subseteq Principals(rec) \cup Principals(f)
    BY <1>12 DEF Principals
  <2> QED
    BY <1>6, <1>7, <1>9, <1>10, <1>12, <2>1 DEF Said
<1>13. CASE sec \in {"write", "replica"} /\ r.text = f.text /\ r.prov = f.prov
  <2>1. Principals(r) = Principals(f)
    BY <1>13 DEF Principals
  <2> QED
    BY <1>10, <1>13, <2>1
<1>14. CASE sec = "rewrite" /\ rec = NoRec /\ r = me.seen
  BY <1>3, <1>6, <1>7, <1>9, <1>14 DEF Knows, Said
<1> QED
  BY <1>2, <1>11, <1>12, <1>13, <1>14, Zenon DEF Outcome_, Origin, f

\* A result that is verified was vouched for, or two principals said it, and
\* nobody rejected it.
LEMMA MoveEarns ==
  ASSUME TrustInv, Alone, NEW c \in Client, cl[c].todo # <<>>, NEW r, r # NoRec, NEW attested, Moves(c, r, attested),
         r.trust = "verified"
  PROVE  Canon[r.text] \notin rejected /\ Supported(Canon[r.text])'
<1> DEFINE me == cl[c]
           sec == Head(me.todo)
<1>1. Calm
  BY DEF Calm, Alone
<1>2. Outcome_(sec, rec, me, rejected, r)
  <2>1. IF rec = NoRec THEN rejected = {} ELSE Remembers(rec, rejected)
    BY DEF TrustInv
  <2> QED
    BY <1>1, <2>1, MoveResult
<1>3. /\ me.op \in Ops /\ me.todo \in Tails(me.op) /\ (me.seen # NoRec => Sane(me.seen)) /\ Knows(me)
  BY <1>1, Running
<1>4. /\ sec = "replica" => me.op = "replica"
      /\ sec = "rewrite" => me.op = "consider"
      /\ sec \in Promotes => me.op \in {"remember", "approve", "consider"}
  BY <1>3, SectionFacts
<1>5. Note(c, sec, r, attested)
  BY DEF Moves
<1>6. (\A v \in Value : Supported(v) => Supported(v)') /\ vouched \subseteq vouched'
  BY <1>5, NoteGrows DEF TrustInv
<1>7. \A q \in Record : Canon[q.text] \in Value
  BY RecordsAreSane DEF Record
<1>8. Sane(r) /\ Remembers(r, rejected) /\ Origin(sec, rec, me.fact, me.seen, r)
  BY <1>2 DEF Outcome_
<1>9. vouched' = vouched \cup Vouches(c, sec, r, attested)
  BY <1>5 DEF Note
<1>10. me.op = "consider" => Canon[me.seen.text] \in vouched'
  BY <1>9 DEF Vouches
<1>11. rec # NoRec => /\ rec \in Record /\ Remembers(rec, rejected) /\ rec = me.seen
                      /\ rec.trust = "verified" => Canon[rec.text] \notin rejected /\ Earned(rec)
  BY <1>1, <1>3 DEF TrustInv, Sane, Knows
<1> HIDE DEF me, sec
<1>12. CASE rec # NoRec /\ r.text = rec.text /\ rec.trust = "verified"
  BY <1>6, <1>7, <1>11, <1>12 DEF Earned
<1>13. CASE rec # NoRec /\ r.text = rec.text /\ (sec = "verify" \/ (sec = "promote" /\ ~is_launder_blocked(rec)))
  <2>1. ~is_launder_blocked(rec)
    BY <1>3, <1>11, <1>13 DEF Knows, me, sec
  <2>2. Canon[rec.text] \notin rejected
    BY <1>11, <1>13, <2>1 DEF is_launder_blocked, Remembers
  <2>3. me.op \in {"remember", "approve"} => Earned(rec)
    BY <1>3, <1>11, <1>13 DEF Knows, Promotes, me, sec
  <2>4. me.op \in {"remember", "approve", "consider"}
    BY <1>4, <1>13 DEF Promotes
  <2>5. me.op = "consider" => Supported(Canon[r.text])'
    BY <1>10, <1>11, <1>13 DEF Supported
  <2> QED
    BY <1>6, <1>7, <1>11, <1>13, <2>2, <2>3, <2>4, <2>5 DEF Earned
<1>14. CASE sec = "replica" /\ ~r.sat /\ Canon[r.text] \notin ToSet(r.ledger)
  <2>1. Canon[r.text] \in Vouches(c, sec, r, attested)
    BY <1>4, <1>14 DEF Vouches, me
  <2> QED
    BY <1>8, <1>9, <1>14, <2>1 DEF Remembers, Supported
<1>15. CASE sec = "rewrite" /\ rec = NoRec /\ r = me.seen
  <2>1. rejected = {}
    BY <1>15 DEF TrustInv
  <2> QED
    BY <1>4, <1>10, <1>15, <2>1 DEF Supported
<1> QED
  BY <1>8, <1>12, <1>13, <1>14, <1>15, Zenon DEF Origin

\* Where the call goes on, the client's next section rests on what it saw.
LEMMA MoveKnows ==
  ASSUME TrustInv, Alone, NEW c \in Client, cl[c].todo # <<>>, NEW r, NEW attested, Moves(c, r, attested),
         GoesOn(Head(cl[c].todo), r, cl[c], attested), Rest(Head(cl[c].todo), r, cl[c]) # <<>>, r # NoRec
  PROVE  LET next == Head(Rest(Head(cl[c].todo), r, cl[c])) IN
         /\ cl[c].op \in {"remember", "approve"} /\ next \in Promotes => Supported(Canon[r.text])'
         /\ next = "verify" => ~is_launder_blocked(r)
<1> DEFINE me == cl[c]
           sec == Head(me.todo)
           rest == Rest(sec, r, me)
           next == Head(rest)
<1>1. Calm
  BY DEF Calm, Alone
<1>2. me.op \in Ops /\ me.todo \in Tails(me.op) /\ Knows(me)
  BY <1>1, Running
<1>3. /\ sec \in Promotes => me.op \in {"remember", "approve", "consider"}
      /\ Tail(me.todo) # <<>> => ComesNext(me.op, sec, Head(Tail(me.todo)))
      /\ sec = "peek" /\ me.op = "consider" => Head(Tail(Tail(me.todo))) = "rewrite"
  BY <1>2, SectionFacts
<1>4. Note(c, sec, r, attested) /\ rec' = r
  <2>1. IF rec = NoRec THEN rejected = {} ELSE Remembers(rec, rejected)
    BY DEF TrustInv
  <2> QED
    BY <1>1, <2>1, MoveResult DEF Moves
<1>5. (\A v \in Value : Supported(v) => Supported(v)') /\ DOMAIN said' = Value /\ \A v \in Value : IsFiniteSet(said'[v])
  BY <1>4, NoteGrows DEF TrustInv
<1>6. vouched' = vouched \cup Vouches(c, sec, r, attested)
  BY <1>4 DEF Note
<1>7. GoesOn(sec, r, me, attested) /\ rest # <<>>
  OBVIOUS
<1>8. Canon[r.text] \in Value
  <2>1. Outcome_(sec, rec, me, {}, r) \/ Outcome_(sec, rec, me, rejected, r)
    <3>1. IF rec = NoRec THEN rejected = {} ELSE Remembers(rec, rejected)
      BY DEF TrustInv
    <3> QED
      BY <1>1, <3>1, MoveResult
  <2> QED
    BY <2>1, RecordsAreSane DEF Outcome_, Sane, Record
<1>9. Principals(r) \subseteq said'[Canon[r.text]]
  BY MoveSaid
<1>10. sec \in {"get", "peek", "peekTier"} => r = rec
  <2>1. r \in Results(sec, rec, me)
    BY DEF Moves
  <2> HIDE DEF sec, me
  <2> QED
    BY <2>1 DEF Results, OnRecord
<1>11. rest = Tail(me.todo) \/ (sec = "peek" /\ is_launder_blocked(r) /\ rest = Tail(Tail(me.todo)))
  BY DEF Rest
<1> HIDE DEF rest, sec, me
<1>12. sec = "peek" /\ is_launder_blocked(r) => me.op = "consider" /\ next = "rewrite"
  <2> SUFFICES ASSUME sec = "peek", is_launder_blocked(r) PROVE me.op = "consider" /\ next = "rewrite"
    OBVIOUS
  <2>1. me.op = "consider"
    BY <1>7 DEF GoesOn
  <2>2. rest = Tail(Tail(me.todo))
    BY DEF Rest, rest
  <2> QED
    BY <1>3, <2>1, <2>2
<1>13. next \in Promotes => rest = Tail(me.todo) /\ ComesNext(me.op, sec, next)
  <2>1. next \in Promotes => next # "rewrite"
    BY DEF Promotes
  <2> QED
    BY <1>3, <1>7, <1>11, <1>12, <2>1
<1>14. ASSUME next = "verify" PROVE sec = "peek" /\ ~is_launder_blocked(r) /\ r = rec
  BY <1>10, <1>12, <1>13, <1>14 DEF ComesNext, Promotes
<1>15. ASSUME me.op \in {"remember", "approve"}, next \in Promotes PROVE Supported(Canon[r.text])'
  <2>1. CASE next = "verify"
    <3>1. Earned(me.seen) /\ me.seen = r
      BY <1>2, <1>14, <1>15, <2>1 DEF Knows, Promotes, sec
    <3> QED
      BY <1>5, <1>8, <3>1 DEF Earned
  <2>2. CASE me.op = "remember" /\ next # "verify"
    <3>1. sec = "write"
      BY <1>13, <1>15, <2>2 DEF ComesNext, Promotes
    <3>2. attested \/ Independent(r)
      BY <1>7, <2>2, <3>1 DEF GoesOn, Promotable
    <3>3. attested => Canon[r.text] \in Vouches(c, sec, r, attested)
      BY <2>2 DEF Vouches, me
    <3>4. Independent(r) => Cardinality(said'[Canon[r.text]]) >= 2
      <4>1. IsFiniteSet(said'[Canon[r.text]])
        BY <1>5, <1>8
      <4>2. /\ IsFiniteSet(Principals(r)) /\ Cardinality(Principals(r)) <= Cardinality(said'[Canon[r.text]])
        BY <1>9, <4>1, FS_Subset
      <4>3. Cardinality(Principals(r)) \in Nat /\ Cardinality(said'[Canon[r.text]]) \in Nat
        BY <4>1, <4>2, FS_CardinalityType
      <4> QED
        BY <4>2, <4>3 DEF Independent
    <3> QED
      BY <1>6, <3>2, <3>3, <3>4 DEF Supported
  <2>3. CASE me.op = "approve" /\ next # "verify"
    <3>1. sec = "get"
      BY <1>13, <1>15, <2>3 DEF ComesNext, Promotes
    <3>2. GoesOn(sec, r, me, FALSE)
      BY <1>7, <2>3 DEF GoesOn
    <3>3. Canon[r.text] \in Vouches(c, sec, r, attested)
      BY <2>3, <3>1, <3>2 DEF Vouches, me
    <3> QED
      BY <1>6, <3>3 DEF Supported
  <2> QED
    BY <1>15, <2>1, <2>2, <2>3
<1> QED
  BY <1>14, <1>15 DEF rest, sec, me

\* Where the invariant says nothing about the record.
LEMMA EffectUncalm ==
  ASSUME TrustInv, ~Calm, conf' = conf, NEW c, NEW base, Effect(c, base)
  PROVE  TrustInv'
<1>1. ~Calm' /\ ~Alone'
  BY DEF Calm, Alone
<1>2. PICK r, attested : Note(c, Head(cl[c].todo), r, attested)
  BY Zenon DEF Effect
<1>3. DOMAIN said' = Value /\ \A v \in Value : IsFiniteSet(said'[v])
  BY <1>2, NoteGrows DEF TrustInv
<1>4. DOMAIN cl' = Client
  BY DEF Effect, TrustInv
<1> QED
  BY <1>1, <1>3, <1>4 DEF TrustInv

LEMMA FreeFacts ==
  DOMAIN Free = TrustFields /\ Free.todo = <<>> /\ Free.hold = NoHold /\ Free.seen = NoRec
BY DEF Free, TrustFields

LEMMA MoveKeepsCalls ==
  ASSUME TrustInv, Calm, conf' = conf, NEW c \in Client, cl[c].todo # <<>>, NEW r, NEW attested, Moves(c, r, attested),
         touched' = Client \/ (touched' = touched /\ (rec' = rec \/ conf.backend # "redis"))
  PROVE  /\ DOMAIN cl' = Client /\ \A k \in Client : CallOk(k)'
         /\ \A k \in Client : k # c => cl'[k] = cl[k]
         /\ cl'[c].todo # <<>> =>
              /\ GoesOn(Head(cl[c].todo), r, cl[c], attested) /\ Rest(Head(cl[c].todo), r, cl[c]) # <<>>
              /\ cl'[c].todo = Rest(Head(cl[c].todo), r, cl[c]) /\ cl'[c].seen = r /\ cl'[c].op = cl[c].op
<1> DEFINE me == cl[c]
           sec == Head(me.todo)
           rest == Rest(sec, r, me)
           on == GoesOn(sec, r, me, attested) /\ rest # <<>>
           blk == me.blocked \/ (sec = "get" /\ r # NoRec /\ r.trust = "rejected")
           me2 == [me EXCEPT !.todo = rest, !.seen = r, !.hold = NoHold, !.blocked = blk]
<1>1. DOMAIN cl = Client /\ (\A k \in Client : CallOk(k))
  BY DEF TrustInv
<1>2. /\ c \in conf.clients /\ me.op \in Ops /\ me.op \in conf.ops /\ me.todo \in Tails(me.op)
      /\ FactOk(me.op, me.fact) /\ DOMAIN me = TrustFields
  BY Running
<1>3. cl' = [cl EXCEPT ![c] = IF on THEN me2 ELSE Free]
  BY DEF Moves
<1>4. /\ DOMAIN me2 = TrustFields /\ me2.todo = rest /\ me2.seen = r /\ me2.hold = NoHold
      /\ me2.op = me.op /\ me2.fact = me.fact
  BY <1>2 DEF TrustFields
<1>5. on => rest \in Tails(me.op)
  <2> SUFFICES ASSUME on PROVE rest \in Tails(me.op)
    OBVIOUS
  <2>1. /\ Tail(me.todo) # <<>> => Tail(me.todo) \in Tails(me.op)
        /\ sec = "peek" /\ me.op = "consider" => Tail(Tail(me.todo)) \in Tails(me.op)
    BY <1>2, SectionFacts
  <2>2. GoesOn(sec, r, me, attested) /\ rest # <<>>
    OBVIOUS
  <2> HIDE DEF me, sec
  <2>3. CASE sec = "peek" /\ is_launder_blocked(r)
    <3>1. me.op = "consider"
      BY <2>2, <2>3 DEF GoesOn, Rest
    <3> QED
      BY <2>1, <2>3, <3>1 DEF Rest
  <2>4. CASE ~(sec = "peek" /\ is_launder_blocked(r))
    BY <2>1, <2>2, <2>4 DEF Rest
  <2> QED
    BY <2>3, <2>4
<1>6. r # NoRec => Sane(r)
  <2> DEFINE bad == IF rec = NoRec THEN {} ELSE ToSet(rec.ledger)
  <2>1. IF rec = NoRec THEN bad = {} ELSE Remembers(rec, bad)
    BY DEF Remembers
  <2> HIDE DEF bad
  <2> QED
    BY <2>1, MoveResult DEF Outcome_
<1> HIDE DEF me2, on, rest, sec
<1>7. cl'[c] = IF on THEN me2 ELSE Free
  BY <1>1, <1>3
<1>8. \A k \in Client : k # c => cl'[k] = cl[k]
  BY <1>1, <1>3
<1>9. DOMAIN cl' = Client
  BY <1>1, <1>3
<1>10. ASSUME NEW k \in Client PROVE CallOk(k)'
  <2>1. CASE k # c
    <3>1. cl'[k] = cl[k] /\ CallOk(k)
      BY <1>1, <1>8, <2>1
    <3>2. k \notin touched' => touched' = touched /\ (rec' = rec \/ conf.backend # "redis")
      OBVIOUS
    <3> QED
      BY <3>1, <3>2 DEF CallOk
  <2>2. CASE k = c /\ on
    <3>1. cl'[k] = me2
      BY <1>7, <2>2
    <3> QED
      BY <1>2, <1>4, <1>5, <1>6, <2>2, <3>1 DEF CallOk
  <2>3. CASE k = c /\ ~on
    <3>1. cl'[k] = Free
      BY <1>7, <2>3
    <3> QED
      BY <3>1, FreeFacts DEF CallOk
  <2> QED
    BY <2>1, <2>2, <2>3
<1>11. cl'[c].todo # <<>> => on
  BY <1>7, FreeFacts
<1> QED
  BY <1>4, <1>7, <1>8, <1>9, <1>10, <1>11 DEF on, rest, sec, me

LEMMA EffectCalm ==
  ASSUME TrustInv, Calm, conf' = conf, NEW c \in Client, cl[c].todo # <<>>, Effect(c, rec),
         touched' = Client \/ (touched' = touched /\ (rec' = rec \/ conf.backend # "redis"))
  PROVE  TrustInv'
<1> DEFINE sec == Head(cl[c].todo)
<1>1. PICK r, attested : Moves(c, r, attested)
  BY EffectMoves
<1>2. /\ DOMAIN cl' = Client /\ \A k \in Client : CallOk(k)'
      /\ cl'[c].todo # <<>> => /\ GoesOn(sec, r, cl[c], attested) /\ Rest(sec, r, cl[c]) # <<>>
                               /\ cl'[c].todo = Rest(sec, r, cl[c]) /\ cl'[c].seen = r /\ cl'[c].op = cl[c].op
  BY <1>1, MoveKeepsCalls
<1>3. DOMAIN said' = Value /\ \A v \in Value : IsFiniteSet(said'[v])
  BY <1>1, NoteGrows DEF TrustInv, Moves
<1>4. rec' = r /\ (r # NoRec => Sane(r))
  <2> DEFINE bad == IF rec = NoRec THEN {} ELSE ToSet(rec.ledger)
  <2>1. IF rec = NoRec THEN bad = {} ELSE Remembers(rec, bad)
    BY DEF Remembers
  <2> HIDE DEF bad
  <2> QED
    BY <1>1, <2>1, MoveResult DEF Outcome_
<1>5. Calm' /\ (rec' # NoRec => Sane(rec)')
  BY <1>4 DEF Calm, Alone, Sane, OwnRejection
<1>6. ASSUME Alone
      PROVE  /\ rec' = NoRec => rejected' = {}
             /\ rec' # NoRec => /\ Remembers(rec, rejected)' /\ Said(rec)'
                                /\ rec'.trust = "verified" => Canon[rec'.text] \notin rejected' /\ Earned(rec)'
             /\ \A k \in conf.clients : cl'[k].todo # <<>> => Knows(cl[k])'
  <2>1. /\ rec # NoRec => r # NoRec
        /\ r # NoRec => Outcome_(sec, rec, cl[c], rejected, r)
    <3>1. IF rec = NoRec THEN rejected = {} ELSE Remembers(rec, rejected)
      BY <1>6 DEF TrustInv
    <3> QED
      BY <1>1, <3>1, MoveResult
  <2>2. rejected' = IF r # NoRec /\ r.trust = "rejected" THEN rejected \cup {Canon[r.text]} ELSE rejected
    BY <1>1 DEF Moves, Note
  <2>3. rec' = NoRec => rejected' = {}
    BY <1>4, <1>6, <2>1, <2>2 DEF TrustInv
  <2>4. r # NoRec => Principals(r) \subseteq said'[Canon[r.text]]
    BY <1>1, <1>6, MoveSaid
  <2>5. r # NoRec /\ r.trust = "verified" => Canon[r.text] \notin rejected /\ Supported(Canon[r.text])'
    BY <1>1, <1>6, MoveEarns
  <2>6. r # NoRec => Remembers(r, rejected')
    BY <1>4, <2>1, <2>2 DEF Outcome_, Sane, OwnRejection, Remembers
  <2>7. ASSUME NEW k \in conf.clients, cl'[k].todo # <<>> PROVE Knows(cl[k])'
    <3>1. k = c
      BY <1>6, LoneClient, Running
    <3>2. /\ GoesOn(sec, r, cl[c], attested) /\ Rest(sec, r, cl[c]) # <<>>
          /\ cl'[c].todo = Rest(sec, r, cl[c]) /\ cl'[c].seen = r /\ cl'[c].op = cl[c].op
      BY <1>2, <2>7, <3>1
    <3>3. r # NoRec =>
            /\ cl[c].op \in {"remember", "approve"} /\ Head(cl'[c].todo) \in Promotes => Supported(Canon[r.text])'
            /\ Head(cl'[c].todo) = "verify" => ~is_launder_blocked(r)
      BY <1>1, <1>6, <3>2, MoveKnows
    <3> QED
      BY <1>4, <2>4, <3>1, <3>2, <3>3 DEF Knows, Said, Earned, Principals
  <2> QED
    BY <1>4, <2>2, <2>3, <2>4, <2>5, <2>6, <2>7 DEF Remembers, Said, Earned, Principals
<1>7. conf' \in Configs /\ (Alone' => Alone)
  BY DEF TrustInv, Alone
<1> QED
  BY <1>2, <1>3, <1>5, <1>6, <1>7 DEF TrustInv

\* A call that begins.
LEMMA ArgumentIsFact ==
  ASSUME conf \in Configs, NEW op \in Ops, NEW f \in Arguments(op)
  PROVE  FactOk(op, f)
<1>1. Source # {} /\ conf.sources \subseteq Source /\ conf.windows \subseteq Window
  BY ConfigsAreSane
<1>2. ASSUME NEW t \in Text, NEW s \in Source, NEW w \in Window
      PROVE  /\ Fact(t, s, w) \in Record /\ Fact(t, s, w).trust = "candidate" /\ Fact(t, s, w).prov = {s}
  <2>1. <<>> \in Seq(Value)
    OBVIOUS
  <2> QED
    BY <2>1 DEF Fact, Record, Trust
<1>3. CASE op \in {"remember", "tainted"}
  <2>1. PICK t \in Text, s \in Source, w \in Window : f = Fact(t, s, w)
    BY <1>1, <1>3 DEF Arguments
  <2> QED
    BY <1>2, <1>3, <2>1 DEF FactOk, Sane, OwnRejection
<1>4. CASE op = "replica"
  <2>1. PICK t \in Text, tr \in Trust : f = Replicated(t, AnySource, tr)
    BY <1>4 DEF Arguments
  <2>2. AnySource \in Source
    BY <1>1 DEF AnySource
  <2> DEFINE l == IF tr = "rejected" THEN <<Canon[t]>> ELSE <<>>
             g == Fact(t, AnySource, "none")
  <2>3. g \in Record /\ g.prov = {AnySource} /\ g.text = t
    <3>1. "none" \in Window
      BY DEF Window
    <3>2. g \in Record /\ g.prov = {AnySource}
      BY <1>2, <2>2, <3>1
    <3> QED
      BY <3>2 DEF Fact
  <2>4. l \in Seq(Value) /\ (tr = "rejected" => Canon[t] \in ToSet(l))
    <3>1. Canon[t] \in Value
      BY RecordsAreSane
    <3>2. <<Canon[t]>>[1] = Canon[t] /\ 1 \in DOMAIN <<Canon[t]>>
      OBVIOUS
    <3> QED
      BY <3>1, <3>2 DEF ToSet
  <2>5. f = [g EXCEPT !.trust = tr, !.ledger = l]
    BY <2>1 DEF Replicated
  <2> HIDE DEF g, l
  <2>6. f \in Record /\ f.trust = tr /\ f.ledger = l /\ f.text = t /\ f.prov = {AnySource}
    BY <2>3, <2>4, <2>5 DEF Record
  <2> QED
    BY <1>4, <2>2, <2>4, <2>6 DEF FactOk, Sane, OwnRejection
<1> QED
  BY <1>3, <1>4 DEF FactOk, Writes_

LEMMA BeginKeeps ==
  ASSUME TrustInv, NEW c \in Client, Begin(c)
  PROVE  TrustInv'
<1>1. conf \in Configs /\ conf.ops \subseteq Ops /\ conf.backend \in Backends
  BY ConfigsAreSane DEF TrustInv
<1>2. PICK op \in conf.ops : \E f \in Arguments(op) :
        cl' = [cl EXCEPT ![c] = [Free EXCEPT !.op = op, !.todo = Program(op), !.fact = f, !.seen = rec]]
  BY Zenon DEF Begin
<1>3. PICK f \in Arguments(op) :
        cl' = [cl EXCEPT ![c] = [Free EXCEPT !.op = op, !.todo = Program(op), !.fact = f, !.seen = rec]]
  BY <1>2
<1> DEFINE me2 == [Free EXCEPT !.op = op, !.todo = Program(op), !.fact = f, !.seen = rec]
<1>4. /\ DOMAIN me2 = TrustFields /\ me2.op = op /\ me2.todo = Program(op) /\ me2.fact = f /\ me2.seen = rec
      /\ me2.hold = NoHold
  BY DEF Free, TrustFields
<1> HIDE DEF me2
<1>5. DOMAIN cl' = Client /\ cl'[c] = me2 /\ \A k \in Client : k # c => cl'[k] = cl[k]
  BY <1>3 DEF TrustInv, me2
<1>6. c \in conf.clients /\ conf' = conf /\ rec' = rec /\ touched' = touched /\ said' = said /\ vouched' = vouched
      /\ rejected' = rejected
  BY DEF Begin
<1>7. op \in Ops /\ FactOk(op, f)
  BY <1>1, <1>3, ArgumentIsFact DEF TrustInv
<1>8. Calm => Begins(op, Program(op))
  BY <1>1, <1>7, ProgramIsTails DEF Calm
<1>9. Calm' = Calm /\ Alone' = Alone /\ (Alone => Calm)
  BY <1>6 DEF Calm, Alone
<1>10. ASSUME Calm, NEW k \in Client PROVE CallOk(k)'
  <2>1. CASE k = c
    BY <1>2, <1>4, <1>5, <1>6, <1>7, <1>8, <1>10, <2>1 DEF CallOk, Begins, TrustInv
  <2>2. CASE k # c
    <3>1. CallOk(k) /\ cl'[k] = cl[k]
      BY <1>5, <1>10, <2>2 DEF TrustInv
    <3> QED
      BY <1>6, <3>1 DEF CallOk
  <2> QED
    BY <2>1, <2>2
<1>11. ASSUME Alone, NEW k \in conf.clients, cl'[k].todo # <<>> PROVE Knows(cl[k])'
  <2>1. k = c /\ cl'[k] = me2
    BY <1>1, <1>5, <1>6, <1>11, LoneClient
  <2>2. rec # NoRec => Said(rec)
    BY <1>11 DEF TrustInv
  <2> QED
    BY <1>4, <1>6, <1>8, <1>9, <1>11, <2>1, <2>2 DEF Knows, Begins, Said, Principals
<1>12. /\ Sane(rec)' = Sane(rec) /\ Remembers(rec, rejected)' = Remembers(rec, rejected) /\ Said(rec)' = Said(rec)
       /\ Earned(rec)' = Earned(rec)
  BY <1>6 DEF Sane, OwnRejection, Remembers, Said, Principals, Earned, Supported
<1> QED
  BY <1>5, <1>6, <1>9, <1>10, <1>11, <1>12 DEF TrustInv

LEMMA DecayKeeps ==
  ASSUME TrustInv, decay
  PROVE  TrustInv'
<1>1. /\ rec' = NoRec /\ touched' = Client /\ rejected' = {} /\ conf' = conf /\ cl' = cl /\ vouched' = vouched
      /\ said' = said
  BY DEF decay
<1>2. Calm' = Calm /\ Alone' = Alone
  BY <1>1 DEF Calm, Alone
<1>3. ASSUME NEW k \in Client, CallOk(k) PROVE CallOk(k)'
  BY <1>1, <1>3 DEF CallOk
<1>4. ASSUME NEW k \in conf.clients, Knows(cl[k]) PROVE Knows(cl[k])'
  BY <1>1, <1>4 DEF Knows, Said, Earned, Principals, Supported
<1> QED
  BY <1>1, <1>2, <1>3, <1>4 DEF TrustInv

\* A client reads and watches the key, or starts over.
LEMMA HoldKeeps ==
  ASSUME TrustInv, NEW c \in Client, NEW h, cl' = [cl EXCEPT ![c].hold = h], conf' = conf, rec' = rec,
         rejected' = rejected, vouched' = vouched, said' = said,
         Calm => /\ \A k \in Client \ {c} : k \in touched => k \in touched'
                 /\ h = NoHold \/ (h = rec /\ conf.backend = "redis" /\ cl[c].todo # <<>>)
  PROVE  TrustInv'
<1>1. Calm' = Calm /\ Alone' = Alone /\ (Alone => Calm)
  BY DEF Calm, Alone
<1>2. DOMAIN cl' = Client /\ \A k \in Client : k # c => cl'[k] = cl[k]
  BY DEF TrustInv
<1>3. ASSUME Calm
      PROVE  \A f \in TrustFields : cl'[c][f] = IF f = "hold" THEN h ELSE cl[c][f]
  BY <1>3 DEF TrustInv, CallOk
<1>4. DOMAIN cl'[c] = DOMAIN cl[c]
  BY DEF TrustInv
<1>5. ASSUME Calm, NEW k \in Client PROVE CallOk(k)'
  <2>1. CASE k # c
    <3>1. CallOk(k) /\ cl'[k] = cl[k]
      BY <1>2, <1>5, <2>1 DEF TrustInv
    <3> QED
      BY <1>5, <2>1, <3>1 DEF CallOk
  <2>2. CASE k = c
    <3>1. CallOk(c) /\ DOMAIN cl'[c] = TrustFields
      BY <1>4, <1>5 DEF TrustInv, CallOk
    <3>2. /\ cl'[c].op = cl[c].op /\ cl'[c].todo = cl[c].todo /\ cl'[c].fact = cl[c].fact /\ cl'[c].seen = cl[c].seen
          /\ cl'[c].hold = h
      BY <1>3, <1>5 DEF TrustFields
    <3> QED
      BY <1>5, <2>2, <3>1, <3>2 DEF CallOk
  <2> QED
    BY <2>1, <2>2
<1>6. ASSUME Alone, NEW k \in conf.clients, cl'[k].todo # <<>> PROVE Knows(cl[k])'
  <2>1. k \in Client
    BY ConfigsAreSane DEF TrustInv
  <2>2. cl'[k].op = cl[k].op /\ cl'[k].todo = cl[k].todo /\ cl'[k].seen = cl[k].seen
    BY <1>1, <1>2, <1>3, <1>6, <2>1 DEF TrustFields
  <2>3. Knows(cl[k])
    BY <1>6, <2>2 DEF TrustInv
  <2>4. PICK me : me = cl'[k]
    OBVIOUS
  <2>5. Knows(me)'
    <3>1. me.op = cl[k].op /\ me.todo = cl[k].todo /\ me.seen = cl[k].seen
      BY <2>2, <2>4
    <3>2. Said(me.seen)' = Said(me.seen) /\ Earned(me.seen)' = Earned(me.seen)
      BY DEF Said, Earned, Supported, Principals
    <3>3. Knows(me)
      BY <2>3, <3>1 DEF Knows
    <3> QED
      BY <3>2, <3>3 DEF Knows
  <2> QED
    BY <2>4, <2>5
<1>7. /\ Sane(rec)' = Sane(rec) /\ Remembers(rec, rejected)' = Remembers(rec, rejected) /\ Said(rec)' = Said(rec)
      /\ Earned(rec)' = Earned(rec)
  BY DEF Sane, OwnRejection, Remembers, Said, Principals, Earned, Supported
<1> QED
  BY <1>1, <1>2, <1>5, <1>6, <1>7 DEF TrustInv

\* The effects of a section, in every backend.
LEMMA Effects ==
  ASSUME TrustInv, NEW c \in Client, Section(c) \/ PgCommit(c) \/ RedisExec(c)
  PROVE  /\ conf' = conf
         /\ Calm => /\ cl[c].todo # <<>> /\ Effect(c, rec)
                    /\ touched' = Client \/ (touched' = touched /\ (rec' = rec \/ conf.backend # "redis"))
         /\ \E base : Effect(c, base)
<1>1. CASE Section(c)
  <2>1. touched' = touched /\ conf' = conf /\ cl[c].todo # <<>> /\ Effect(c, rec)
    BY <1>1 DEF Section, Busy
  <2>2. conf.backend # "redis" \/ rec' = rec
    <3>1. \/ conf.backend \in {"local", "mem0", "lance"}
          \/ Head(cl[c].todo) \in {"get", "peek", "peekTier"}
      BY <1>1 DEF Section, InOneStep
    <3> QED
      BY <2>1, <3>1 DEF Effect
  <2> QED
    BY <2>1, <2>2
<1>2. CASE PgCommit(c)
  BY <1>2 DEF PgCommit, Calm
<1>3. CASE RedisExec(c)
  <2>1. cl[c].hold # NoHold /\ c \notin touched /\ Effect(c, cl[c].hold) /\ touched' = Client /\ conf' = conf
    BY <1>3 DEF RedisExec
  <2>2. Calm => cl[c].hold = rec /\ cl[c].todo # <<>>
    BY <2>1 DEF TrustInv, CallOk
  <2> QED
    BY <2>1, <2>2
<1> QED
  BY <1>1, <1>2, <1>3

LEMMA TrustStart == Init => TrustInv
<1> SUFFICES ASSUME Init PROVE TrustInv
  OBVIOUS
<1>1. conf \in Configs /\ rec = NoRec /\ cl = [c \in Client |-> Free] /\ rejected = {} /\ said = [v \in Value |-> {}]
  BY DEF Init
<1>2. \A k \in Client : cl[k] = Free
  BY <1>1
<1>3. \A v \in Value : IsFiniteSet(said[v])
  BY <1>1, FS_EmptySet
<1>4. \A k \in Client : CallOk(k)
  BY <1>2, FreeFacts DEF CallOk
<1>5. \A k \in conf.clients : cl[k].todo = <<>>
  BY <1>1, <1>2, FreeFacts, ConfigsAreSane
<1> QED
  BY <1>1, <1>3, <1>4, <1>5 DEF TrustInv

LEMMA TrustStep == TrustInv /\ [Next]_vars => TrustInv'
<1> SUFFICES ASSUME TrustInv, [Next]_vars PROVE TrustInv'
  OBVIOUS
<1>1. ASSUME NEW c \in Client, Begin(c) PROVE TrustInv'
  BY <1>1, BeginKeeps
<1>2. ASSUME NEW c \in Client, Section(c) \/ PgCommit(c) \/ RedisExec(c) PROVE TrustInv'
  <2>1. CASE Calm
    BY <1>2, <2>1, Effects, EffectCalm
  <2>2. CASE ~Calm
    BY <1>2, <2>2, Effects, EffectUncalm
  <2> QED
    BY <2>1, <2>2
<1>3. ASSUME NEW c \in Client, PgBegin(c) PROVE TrustInv'
  <2>1. /\ ~Calm /\ cl' = [cl EXCEPT ![c].hold = rec] /\ conf' = conf /\ rec' = rec /\ rejected' = rejected
        /\ vouched' = vouched /\ said' = said
    BY <1>3 DEF PgBegin, Calm
  <2> QED
    BY <2>1, HoldKeeps
<1>4. ASSUME NEW c \in Client, RedisWatch(c) PROVE TrustInv'
  <2>1. /\ cl' = [cl EXCEPT ![c].hold = rec] /\ conf' = conf /\ rec' = rec /\ rejected' = rejected
        /\ vouched' = vouched /\ said' = said
        /\ conf.backend = "redis" /\ cl[c].todo # <<>> /\ \A k \in Client \ {c} : k \in touched => k \in touched'
    BY <1>4 DEF RedisWatch, Busy
  <2> QED
    BY <2>1, HoldKeeps
<1>5. ASSUME NEW c \in Client, RedisRetry(c) PROVE TrustInv'
  <2>1. /\ cl' = [cl EXCEPT ![c].hold = NoHold] /\ conf' = conf /\ rec' = rec /\ rejected' = rejected
        /\ vouched' = vouched /\ said' = said /\ touched' = touched
    BY <1>5 DEF RedisRetry
  <2> QED
    BY <2>1, HoldKeeps
<1>6. CASE decay
  BY <1>6, DecayKeeps
<1>7. CASE UNCHANGED vars
  BY <1>7 DEF vars, TrustInv, Calm, Alone, Sane, OwnRejection, CallOk, FactOk, Remembers, Said, Principals, Earned, Supported,
     Knows, is_launder_blocked
<1> QED
  BY <1>1, <1>2, <1>3, <1>4, <1>5, <1>6, <1>7 DEF Next

\* "A value ever REJECTED on this key is never promotable" (local.py:337), and
\* nothing is verified without evidence about its own value: for every record,
\* ledger size, configuration and program of calls of a client on its own.
THEOREM VerifiedNeedsEvidence == Spec => []VerifiedIsEarned
<1>1. TrustInv => VerifiedIsEarned
  BY DEF TrustInv, VerifiedIsEarned, Earned, Supported
<1> QED
  BY TrustStart, TrustStep, <1>1, PTL DEF Spec

\* Whatever clients interleave, a rejected value leaves the ledger only with the
\* record, or when the key is saturated (view.py: record_rejection, _cap_ledger).
THEOREM RejectionsStay == Spec => LedgerKept
<1> DEFINE Kept == conf.backend # "pg" /\ (Alone \/ "consider" \notin conf.ops)
                   /\ rec # NoRec /\ rec' # NoRec /\ ~rec'.sat
                     => ToSet(rec.ledger) \subseteq ToSet(rec'.ledger)
<1>1. TrustInv /\ [Next]_vars => [Kept]_vars
  <2> SUFFICES ASSUME TrustInv, Next PROVE Kept
    BY Zenon DEF Kept
  <2> SUFFICES ASSUME Calm, rec # NoRec, rec' # NoRec, ~rec'.sat
               PROVE  ToSet(rec.ledger) \subseteq ToSet(rec'.ledger)
    BY Zenon DEF Calm, Kept
  <2>1. ASSUME NEW c \in Client, Section(c) \/ PgCommit(c) \/ RedisExec(c)
        PROVE  ToSet(rec.ledger) \subseteq ToSet(rec'.ledger)
    <3>1. cl[c].todo # <<>> /\ Effect(c, rec)
      BY <2>1, Effects
    <3>2. PICK r, attested : Moves(c, r, attested)
      BY <3>1, EffectMoves
    <3> DEFINE bad == ToSet(rec.ledger)
    <3>3. Remembers(rec, bad)
      BY DEF Remembers
    <3> HIDE DEF bad
    <3>4. rec' = r /\ Outcome_(Head(cl[c].todo), rec, cl[c], bad, r)
      BY <3>1, <3>2, <3>3, MoveResult
    <3> QED
      BY <3>4 DEF Outcome_, Remembers, bad
  <2>2. ASSUME rec' = rec PROVE ToSet(rec.ledger) \subseteq ToSet(rec'.ledger)
    BY <2>2
  <2>3. ASSUME NEW c \in Client, Begin(c) \/ PgBegin(c) \/ RedisWatch(c) \/ RedisRetry(c) PROVE rec' = rec
    BY <2>3 DEF Begin, PgBegin, RedisWatch, RedisRetry
  <2>4. ~decay
    BY DEF decay
  <2> QED
    BY <2>1, <2>2, <2>3, <2>4 DEF Next
<1> QED
  BY TrustStart, TrustStep, <1>1, PTL DEF Spec, LedgerKept

=============================================================================
