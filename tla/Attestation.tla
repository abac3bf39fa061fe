----------------------------- MODULE Attestation -----------------------------
(***************************************************************************)
(* verdict/attest.py, verdict/keys.py and the verify half of               *)
(* verdict/gate.py: run receipts wrapped into a signed gate receipt, which *)
(* a second party checks.  A signature is the record of who signed what    *)
(* (_sign.py: the encoding of what is signed is injective), a key's id is  *)
(* the key's name, a fingerprint the record of what its text reads as when *)
(* it is split at the separators.  Between the two a receipt passes through *)
(* hands that may change it.                                               *)
(***************************************************************************)
EXTENDS Gate

CONSTANTS Signers,        \* installations, each with a key of its own
          Own,            \* the one that verifies
          Domain,         \* those that share its HMAC secret
          HasNacl,        \* those with PyNaCl
          Trusted,        \* what may lie in the trusted directory: key id -> the key in the file
          Staged,         \* the sets of graders' lines a stage may end with
          Claims,         \* the subjects a receipt may carry
          MaxMinted, MaxChanges

ASSUME AttestationAssumption ==
  /\ Own \in Domain /\ Domain \subseteq Signers /\ HasNacl \subseteq Signers
  /\ Signers \cap {"shared", "none"} = {}    \* no key goes by the name of the secret, or of none

VARIABLES wire            \* [at, dir, minted, on, changed]: the receipt on its way is `on`

attestVars == <<wire>>

Schemes == {"hmac-sha256", "ed25519"}
Absent_ == "none"

\* The text of a signature, and the lines of a fingerprint it goes on to spell
\* if it holds separators; one that was made holds none.
Signature(key, over) == [key |-> key, over |-> over, then |-> {}]
Unsigned == Signature(Absent_, Absent_)
NoText == [text |-> ""]
Secret(k) == IF k \in Domain THEN "shared" ELSE k

-----------------------------------------------------------------------------
(* Signing.  The tag keeps the two kinds of receipt apart.                 *)

RunPayload(r) == [tag |-> "runreceipt", alg |-> r.alg, who |-> r.who, ran |-> r.ran, result |-> r.result]
GatePayload(g) == [tag |-> "gatereceipt", alg |-> g.alg, who |-> g.who, verdict |-> g.verdict, fingerprint |-> g.fingerprint,
                   clamped |-> g.clamped, subject |-> g.subject, kind |-> g.kind]
signing_payload(r) == IF "graders" \in DOMAIN r THEN GatePayload(r) ELSE RunPayload(r)

Stamped(r, k, alg) ==
  [r EXCEPT !.alg = alg, !.who = IF alg = "ed25519" THEN k ELSE "runner", !.public_key = IF alg = "ed25519" THEN k ELSE Absent_]
sign_receipt(r, k, alg) ==
  LET s == Stamped(r, k, alg) IN
  [s EXCEPT !.signature = Signature(IF alg = "ed25519" THEN k ELSE Secret(k), signing_payload(s))]

\* "auto" takes ed25519 where PyNaCl is; asking for ed25519 without it is refused.
Resolved(k, attest) ==
  IF attest = "hmac" \/ (attest = "auto" /\ k \notin HasNacl) THEN "hmac-sha256" ELSE "ed25519"
Unavailable(k, attest) == attest = "ed25519" /\ k \notin HasNacl

\* A report is one of the gate's, with its own verdict, and `signed` if its
\* grader minted a receipt of the run, which not every kind does.
mint_report_receipt(p, k, attest) ==
  sign_receipt([alg |-> "", who |-> "", public_key |-> Absent_, signature |-> Unsigned,
                ran |-> p.grader, result |-> [verdict |-> p.verdict, graded |-> report_result_digest(p)]],
               k, Resolved(k, attest))

Line(p, k, attest) ==
  [kind |-> p.grader, verdict |-> p.verdict, precise |-> p.grader \in PRECISE_GRADERS,
   receipt |-> IF p.signed THEN mint_report_receipt(p, k, attest) ELSE NoReceipt]

\* A line as the fingerprint has it, and all it reads as: the fields are joined
\* as they are, and the receipt of an advisory line is free text.  That text may
\* be in the digest as well as in the signature.
Piece(a) ==
  [kind |-> a.kind, verdict |-> a.verdict, precise |-> a.precise,
   result |-> IF a.receipt = NoReceipt THEN NoText ELSE a.receipt.result,
   signature |-> IF a.receipt = NoReceipt THEN Unsigned ELSE [a.receipt.signature EXCEPT !.then = {}]]
ReadsAs(a) == {Piece(a)} \cup (IF a.receipt = NoReceipt THEN {} ELSE a.receipt.signature.then)

_fingerprint(verdict, graders) == [verdict |-> verdict, lines |-> UNION {ReadsAs(a) : a \in graders}]

\* A finding that would have gated was held back: an opinion, or one its own
\* grader does not trust.
_was_clamped(p) ==
  \E i \in p.issues : (p.grader \in ADVISORY_GRADERS \/ i.conf = "low") /\ AtLeast(i.sev, "error")

build_gate_receipt(verdict, reports, subject, k, attest) ==
  LET graders == {Line(p, k, attest) : p \in reports}
      g == [alg |-> "", who |-> "", public_key |-> Absent_, signature |-> Unsigned,
            verdict |-> verdict, graders |-> graders, fingerprint |-> _fingerprint(verdict, graders),
            clamped |-> \E p \in reports : _was_clamped(p), subject |-> subject, kind |-> "committed"]
  IN  sign_receipt(g, k, Resolved(k, attest))

-----------------------------------------------------------------------------
(* Verifying.                                                              *)

\* The verifier's own key, or the one in the file of that name if it is the
\* key of that name.
resolve_trusted_key(id) ==
  IF id = Own THEN id
  ELSE IF id \in DOMAIN wire.dir /\ wire.dir[id] = id THEN id ELSE Absent_

\* Bug: the receipt's own public key is believed.
TrustOnFirstUse(r) ==
  /\ Own \in HasNacl
  /\ r.signature = Signature(IF r.public_key = Absent_ THEN resolve_trusted_key(r.who) ELSE r.public_key, signing_payload(r))

\* The inline key grants nothing: it must be the trusted one.
ed25519_verify(r) ==
  LET key == resolve_trusted_key(r.who) IN
  /\ Own \in HasNacl
  /\ key # Absent_ /\ r.public_key \in {Absent_, key}
  /\ r.signature = Signature(key, signing_payload(r))

verify_receipt(r, allowed) ==
  /\ r.alg \in allowed /\ r.signature # Unsigned
  /\ \/ r.alg = "ed25519" /\ ed25519_verify(r)
     \/ r.alg = "hmac-sha256" /\ r.signature = Signature(Secret(Own), signing_payload(r))

\* Which graders are precise is the verifier's to say, not the receipt's.
verify_gate_receipt(g, allowed) ==
  /\ verify_receipt(g, allowed)
  /\ _fingerprint(g.verdict, g.graders) = g.fingerprint
  /\ \A a \in g.graders : a.kind \in PRECISE_GRADERS => a.receipt # NoReceipt /\ verify_receipt(a.receipt, allowed)

public_verifiable(g) ==
  g.alg = "ed25519" /\ \A a \in g.graders : a.kind \in PRECISE_GRADERS => a.receipt.alg = "ed25519"

verify_fact_attestation(g, claim, allowed) ==
  verify_gate_receipt(g, allowed) /\ g.verdict = "pass" /\ g.subject = claim

-----------------------------------------------------------------------------
AttestInit ==
  wire \in [at : {"minting"}, dir : Trusted, minted : {{}}, on : {NoReceipt}, changed : {0}]

StageVerdict_(reports) == plain_gate(reports)

Mint ==
  /\ wire.at = "minting" /\ Cardinality(wire.minted) < MaxMinted
  /\ \E k \in Signers, reports \in Staged, claim \in Claims, attest \in {"auto", "ed25519"} :
       /\ ~Unavailable(k, attest)
       /\ wire' = [wire EXCEPT !.minted = @ \cup
                     {[by |-> k, receipt |-> build_gate_receipt(StageVerdict_(reports), reports, claim, k, attest)]}]

HandOver ==
  /\ wire.at = "minting"
  /\ \E m \in wire.minted : wire' = [wire EXCEPT !.at = "sent", !.on = m.receipt]

\* Anyone can recompute a fingerprint.
Recomputed(g) == [g EXCEPT !.fingerprint = _fingerprint(g.verdict, g.graders)]
RunReceipts == UNION {{a.receipt : a \in m.receipt.graders} : m \in wire.minted}
FieldChanged(g) ==
  {Recomputed([g EXCEPT !.verdict = v]) : v \in Verdict} \cup {[g EXCEPT !.verdict = v] : v \in Verdict}
  \cup {[g EXCEPT !.subject = c] : c \in Claims} \cup {[g EXCEPT !.clamped = ~g.clamped], [g EXCEPT !.kind = "optimistic"]}
  \cup {[g EXCEPT !.alg = a] : a \in Schemes} \cup {[g EXCEPT !.who = k] : k \in Signers}
  \cup {[g EXCEPT !.public_key = k] : k \in Signers \cup {Absent_}} \cup {[g EXCEPT !.signature = Unsigned]}

\* Some lines fall out, or one gets another's receipt, is made a passing opinion,
\* or has its text go on to spell another, which falls out (in the code, one that
\* sorts right after it).
Swapped(lines, b, c) == (lines \ {b}) \cup {c}
EmptyReceipt == [alg |-> "", who |-> "", public_key |-> Absent_, signature |-> Unsigned, ran |-> "", result |-> NoText]
Spelling(b, c) ==
  LET rr == IF b.receipt = NoReceipt THEN EmptyReceipt ELSE b.receipt
  IN  [b EXCEPT !.receipt = [rr EXCEPT !.signature.then = @ \cup ReadsAs(c)]]
LinesChanged(g) ==
  {Recomputed([g EXCEPT !.graders = s]) : s \in SUBSET g.graders}
  \cup {Recomputed([g EXCEPT !.graders = Swapped(g.graders, b, [b EXCEPT !.receipt = r])]) : b \in g.graders, r \in RunReceipts}
  \cup {Recomputed([g EXCEPT !.graders = Swapped(g.graders, b, [b EXCEPT !.verdict = "pass", !.precise = FALSE])]) : b \in g.graders}
  \cup {Recomputed([g EXCEPT !.graders = Swapped(g.graders \ {c}, b, Spelling(b, c))]) : b, c \in g.graders}

\* One nobody here trusts signs, under any name, next to its own public key or the named one.
Untrusted == Signers \ (Domain \cup {wire.dir[i] : i \in DOMAIN wire.dir})
SignedAs(g, k, alg, who, public_key) ==
  LET s == [g EXCEPT !.alg = alg, !.who = who, !.public_key = public_key] IN
  [s EXCEPT !.signature = Signature(k, signing_payload(s))]
Resigned(g) ==
  UNION {{SignedAs(g, k, a, who, p) : a \in Schemes, p \in {k, who}} : k \in Untrusted, who \in Signers}
Altered(g) == FieldChanged(g) \cup LinesChanged(g) \cup Resigned(g)

Alter ==
  /\ wire.at = "sent" /\ wire.changed < MaxChanges
  /\ \E g \in Altered(wire.on) : wire' = [wire EXCEPT !.on = g, !.changed = @ + 1]

AttestNext == Mint \/ HandOver \/ Alter

-----------------------------------------------------------------------------
\* What a receipt says, its lines, and the runs behind those of precise graders.
Header(g) == [verdict |-> g.verdict, clamped |-> g.clamped, subject |-> g.subject, kind |-> g.kind]
Said(g) == {<<a.kind, a.verdict>> : a \in g.graders}
Ran(g) == {<<a.receipt.ran, a.receipt.result>> : a \in {x \in g.graders : x.kind \in PRECISE_GRADERS /\ x.receipt # NoReceipt}}

\* No text of a line's receipt holds a separator; verifying does not ask.
Plain_(g) == \A a \in g.graders : a.receipt # NoReceipt => a.receipt.signature.then = {}

\* Whoever holds a key the verifier trusts under the policy.
Vouches(k, alg) == IF alg = "ed25519" THEN resolve_trusted_key(k) # Absent_ ELSE k \in Domain

\* "Verify a gate-level receipt with NO trust in its producer": a receipt that
\* verifies has the verdict and the subject that one of the installations the
\* verifier trusts signed, and no line or run that it did not sign, whichever
\* fields were changed, swapped between receipts, spelled inside others or signed
\* again on the way; it has every line that was signed if no text in it holds a
\* separator; and a fact that verifies is the one it was attested for.
VerifiedIsSigned ==
  wire.at = "sent" =>
    \A allowed \in {Schemes, {"ed25519"}} : verify_gate_receipt(wire.on, allowed) =>
      \E m \in wire.minted :
        /\ Vouches(m.by, wire.on.alg) /\ m.receipt.alg = wire.on.alg
        /\ Header(m.receipt) = Header(wire.on)
        /\ Said(wire.on) \subseteq Said(m.receipt) /\ Ran(wire.on) \subseteq Ran(m.receipt)
        /\ Plain_(wire.on) => Said(wire.on) = Said(m.receipt) /\ Ran(wire.on) = Ran(m.receipt)
        /\ allowed = {"ed25519"} => public_verifiable(wire.on)
        /\ \A c \in Claims : verify_fact_attestation(wire.on, c, allowed) =>
             m.receipt.subject = c /\ m.receipt.verdict = "pass"

\* "Neither a flipped verdict nor a swapped/stripped grader line survives
\* recomputation" (attest.py:65-66).  It does not hold of a stripped line, and no
\* run checks it: an advisory line may spell it inside its receipt, which nobody
\* verifies, and the text that is digested stays the same.
NoLineIsStripped ==
  wire.at = "sent" =>
    \A allowed \in {Schemes, {"ed25519"}} : verify_gate_receipt(wire.on, allowed) =>
      \E m \in wire.minted : Header(m.receipt) = Header(wire.on) /\ Said(wire.on) = Said(m.receipt)
=============================================================================
