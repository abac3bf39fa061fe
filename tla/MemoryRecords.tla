---------------------------- MODULE MemoryRecords ----------------------------
(***************************************************************************)
(* memory/view.py: what a memory record is and what the rules shared by    *)
(* every backend do to one.  A text is a surface form; its canonical value *)
(* (canon_value, rejected_key) is Canon[text], and two texts of one value  *)
(* differ only in what canonicalisation removes, or after its first 200    *)
(* characters.  Confidence is counted in contradictions: 0 is below the    *)
(* 0.2 at which a record is rejected, 1 one contradiction above it, 2 more.*)
(* Retrieval strength decides nothing but pruning and ranking: a record    *)
(* may have faded at any time.                                             *)
(***************************************************************************)
EXTENDS Integers, Sequences, FiniteSets, SequencesExt

CONSTANTS Text, Value,
          Canon,       \* Text -> Value
          Fold,        \* of a text: strip().lower()
          Source,      \* episodes and principals that records name
          NoRec,
          MaxLedger,   \* MAX_REJECTED_VALUES
          MaxSupport   \* bound: support is counted up to here

ASSUME LimitsAreNumbers == MaxLedger \in Nat \ {0} /\ MaxSupport \in Nat \ {0}

Trust == {"candidate", "verified", "rejected"}
Window == {"none", "volatile", "ttl"}
Record == [text : Text, trust : Trust, ec : 0..2, sup : Nat, prov : SUBSET Source,
           ledger : Seq(Value), sat : BOOLEAN, window : Window, pinned : BOOLEAN]

ASSUME RecordsAreSane == Canon \in [Text -> Value] /\ NoRec \notin Record

\* What a caller hands to write(): a new candidate.
Fact(t, s, w) == [text |-> t, trust |-> "candidate", ec |-> 2, sup |-> 1, prov |-> {s},
                  ledger |-> <<>>, sat |-> FALSE, window |-> w, pinned |-> FALSE]

\* Every backend's write() takes texts of one fold for the same claim.
SameText(t, u) == Fold[t] = Fold[u]

\* Letter case and outer blanks are among what canonicalisation removes (but for
\* a few capitals with two combining marks, which it orders differently).
ASSUME FoldsAreOneValue == \A t, u \in Text : SameText(t, u) => Canon[t] = Canon[u]

Newest(s, n) == IF Len(s) > n THEN SubSeq(s, Len(s) - n + 1, Len(s)) ELSE s

Least(i, j) == IF i < j THEN i ELSE j

\* Bug: the oldest rejection is evicted and nothing remembers it.
CapForgets(s) ==
  [ledger |-> Newest(s, MaxLedger), sat |-> FALSE]

\* The ledger keeps the newest values; one too many saturates the key for good.
_cap_ledger(s) ==
  [ledger |-> Newest(s, MaxLedger), sat |-> Len(s) > MaxLedger]

WithLedger(r, s) ==
  LET c == _cap_ledger(s) IN [r EXCEPT !.ledger = c.ledger, !.sat = @ \/ c.sat]

Noted(s, v) == IF v \in ToSet(s) THEN s ELSE Append(s, v)
AllNoted(s, values) ==
  LET upTo[i \in 0..Len(values)] == IF i = 0 THEN s ELSE Noted(upTo[i - 1], values[i])
  IN  upTo[Len(values)]

record_rejection(r) ==
  IF Canon[r.text] \in ToSet(r.ledger) THEN r
  ELSE WithLedger(r, Append(r.ledger, Canon[r.text]))

\* A new value takes the key: support, strength and flags start again, the
\* ledger is carried on and gains the old value if that was rejected.
supersede_detail(old, new) ==
  LET l == IF old.trust = "rejected" THEN Noted(old.ledger, Canon[old.text])
           ELSE old.ledger
  IN  WithLedger([new EXCEPT !.sup = 1, !.sat = @ \/ old.sat], l)

is_launder_blocked(r) ==
  r.trust = "rejected" \/ r.sat \/ Canon[r.text] \in ToSet(r.ledger)

\* Bug: the record is stored as it came.
ReplicaAsIs(old, new) == new

\* A replica cannot drop the ledger, revive a rejected value or arrive
\* verified on a saturated key.
guard_replica(old, new) ==
  LET merged == IF old = NoRec THEN new
                ELSE WithLedger([new EXCEPT !.sat = @ \/ old.sat],
                                AllNoted(old.ledger, new.ledger))
  IN  IF Canon[merged.text] \in ToSet(merged.ledger)
        THEN [merged EXCEPT !.trust = "rejected"]
      ELSE IF merged.trust = "verified" /\ merged.sat
        THEN [merged EXCEPT !.trust = "candidate"]
      ELSE merged

\* Weak, unsupported candidates are pruned once they have faded.
should_prune(r) == ~r.pinned /\ r.ec < 2 /\ r.sup < 2 /\ r.trust = "candidate"

\* Pinned records are exempt; a closed window deletes whatever the trust.
apply_decay(r) == ~r.pinned /\ (r.window # "none" \/ should_prune(r))

Confirmed(r) == [r EXCEPT !.window = IF @ = "volatile" THEN "none" ELSE @]
Raised(r) == {[r EXCEPT !.sup = Least(@ + 1, MaxSupport), !.ec = e] :
                e \in {r.ec, Least(r.ec + 1, 2)}}
Lowered(r) == {[r EXCEPT !.ec = e] : e \in IF r.ec = 2 THEN {1, 2} ELSE {0}}
=============================================================================
