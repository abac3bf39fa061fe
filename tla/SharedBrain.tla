------------------------------ MODULE SharedBrain ------------------------------
(***************************************************************************)
(* A store shared by several principals (memory/hosted.py, principal.py,   *)
(* share.py, lattice.py).  A request passes the gate of do_POST when it    *)
(* arrives and is dispatched later, under the server's lock; in between    *)
(* principals are enrolled and other requests served.  The operator's      *)
(* graduation reads the children first and writes the parent afterwards.   *)
(* A key is one belief in one scope; a claim is a key and a text.          *)
(***************************************************************************)
EXTENDS MemoryRecords

CONSTANTS Key, Parent, Children,   \* the scopes of one subject and predicate
          ToolKey,                 \* a key at which a skill is stored
          Signer,                  \* principals; their key_id is their name
          Nobody,                  \* author ""
          Requests,                \* what clients may send, see Request below
          Servers,                 \* [trusted, atStart, override, token]: how it is started
          MaxRequests, MaxInbox    \* bounds

VARIABLES server, brain, rep, inbox, plan, seen
brainVars == <<server, brain, rep, inbox, plan, seen>>

Belief(text, author, kind, trust, sup) ==
  [text |-> text, trust |-> trust, ec |-> 2, sup |-> sup, prov |-> {}, ledger |-> <<>>, sat |-> FALSE,
   window |-> "none", pinned |-> FALSE, author |-> author, kind |-> kind]
Skill == Belief("tool", Nobody, "skill", "candidate", 1)

ASSUME NamesAreApart == Parent # ToolKey /\ Nobody \notin Signer /\ Skill # NoRec
ASSUME RequestsAreSane ==
  \A r \in Requests : r.text \in Text /\ (r.path = "/annotate" => r.key = "rep")

\* A request: a path, a claim, the author a raw record names, the key_id it
\* gives, who really signed what, the text its evidence attests, the cluster
\* credential.  Fields a path does not use are ignored.
NoSignature == [by |-> Nobody, claim |-> <<>>]
sign_write(p, k, t) == [by |-> p, claim |-> <<k, t>>]

\* What a RemoteMemory sends: a path and a claim, with the cluster credential
\* if the client has one; a signed write names the key and its signature.
_req(path, k, t, cluster) ==
  [path |-> path, key |-> k, text |-> t, author |-> Nobody, kind |-> "fact", trust |-> "candidate",
   keyid |-> Nobody, sig |-> NoSignature, ev |-> "none", cluster |-> cluster]
remember_signed(p, k, t, evidence) ==
  [_req("/write_signed", k, t, FALSE) EXCEPT !.keyid = p, !.sig = sign_write(p, k, t), !.ev = evidence]

\* seen is history: what was signed, attested, sent in legacy mode or with the
\* cluster credential; how many signed requests each principal has sent.
BrainInit ==
  /\ server \in Servers
  /\ brain = [k \in Key |-> IF k = ToolKey THEN Skill ELSE NoRec]
  /\ rep = [p \in Signer |-> [ok |-> 0, total |-> 0]]
  /\ inbox = {} /\ plan = {}
  /\ seen = [signed |-> {}, attested |-> {}, open |-> {}, sent |-> [p \in Signer |-> 0], n |-> 0]

-----------------------------------------------------------------------------
(* The gate.                                                               *)

_CLUSTER_POST == {"/apply"}
_SIGNED_MODE_POST == {"/write_signed", "/all"}

\* Bug: the mode is the one the server was started in.
RequireAtStart == IF server.override = "none" THEN server.atStart # {} ELSE server.override = "on"

\* An explicit choice, or on as soon as anybody is enrolled; read per request.
require_signed == IF server.override = "none" THEN server.trusted # {} ELSE server.override = "on"

_cluster_authed(r) == IF server.token THEN r.cluster ELSE ~require_signed

Admitted(r) ==
  IF r.path \in _CLUSTER_POST THEN _cluster_authed(r)
  ELSE IF r.path = "/all" /\ r.key = "*" THEN _cluster_authed(r)
  ELSE require_signed => r.path \in _SIGNED_MODE_POST

\* May this request touch what it likes?  Only the open mode and the cluster may.
Open(r) == ~(IF server.override = "none" THEN server.trusted # {} ELSE server.override = "on")
           \/ (server.token /\ r.cluster /\ r.path \in _CLUSTER_POST)

do_POST(r) ==
  /\ seen.n < MaxRequests /\ Cardinality(inbox) < MaxInbox
  /\ Admitted(r)
  /\ inbox' = inbox \cup {[r |-> r, n |-> seen.n]}
  /\ seen' = [seen EXCEPT !.n = @ + 1, !.signed = @ \cup {<<r.sig.by, r.sig.claim>>},
                          !.attested = @ \cup {r.ev},
                          !.open = @ \cup (IF Open(r) /\ r.path # "/write_signed" THEN {r.key} ELSE {}),
                          !.sent = [p \in Signer |-> seen.sent[p] + (IF r.sig.by = p THEN 1 ELSE 0)]]
  /\ UNCHANGED <<server, brain, rep, plan>>

\* The operator enrols a principal in the running server.
enroll(p) ==
  /\ p \notin server.trusted
  /\ server' = [server EXCEPT !.trusted = @ \cup {p}]
  /\ UNCHANGED <<brain, rep, inbox, plan, seen>>

-----------------------------------------------------------------------------
(* The store's calls, and the signed write.                                *)

\* write(): the same text corroborates, whatever its case, and the newer author
\* is kept with the older text.
Merged(old, new) ==
  IF old = NoRec THEN new
  ELSE IF ~SameText(old.text, new.text) THEN supersede_detail(old, new)
  ELSE IF old.trust = "rejected" THEN old
  ELSE [old EXCEPT !.author = new.author, !.sup = Least(@ + 1, MaxSupport)]

promote(r) == IF is_launder_blocked(r) THEN r ELSE [r EXCEPT !.trust = "verified"]
Sunk(r) == record_rejection([r EXCEPT !.ec = 0, !.trust = "rejected"])

\* The signature of an enrolled key over this very claim.
verify_write(r) == /\ r.keyid \in server.trusted
                   /\ r.sig.by = r.keyid /\ r.sig.claim = <<r.key, r.text>>

\* Another principal's verified belief, and what is not a FACT, is not written over.
Conflicts(old, author) ==
  old # NoRec /\ (old.kind # "fact" \/ (old.trust = "verified" /\ old.author # author))

\* The server manages the reputations, the failures, the rules and the tools.
is_reserved_key(k) == k = "rep"

\* Whether the evidence attests this very text; it names no scope.
verify_fact_attestation(r) == r.ev = r.text

\* AuthorTrust.record: one more outcome of this author.
Recorded(a, ok) == [ok |-> rep[a].ok + (IF ok THEN 1 ELSE 0), total |-> rep[a].total + 1]

\* A candidate, the author's reputation, and promotion if it re-verifies.
import_belief(r, author) ==
  LET ok == verify_fact_attestation(r)
      rec == Merged(brain[r.key], Belief(r.text, author, "fact", "candidate", 1)) IN
  /\ brain' = [brain EXCEPT ![r.key] = IF ok THEN promote(rec) ELSE rec]
  /\ rep' = [rep EXCEPT ![author] = Recorded(author, ok)]

\* Only plain facts are authored, and only at keys of one's own.
authenticated_remember(r) ==
  IF /\ verify_write(r) /\ r.kind = "fact" /\ ~is_reserved_key(r.key)
     /\ ~Conflicts(brain[r.key], r.keyid)
    THEN import_belief(r, r.keyid)
    ELSE UNCHANGED <<brain, rep>>

OnBelief(r, f(_)) ==
  /\ brain' = [brain EXCEPT ![r.key] = IF @ = NoRec THEN NoRec ELSE f(@)]
  /\ UNCHANGED rep

\* The whole request under the lock; replication errors answer 409 or 421 and
\* change nothing (ReplicatedMemory).
_dispatch(m) ==
  LET r == m.r IN
  /\ m \in inbox /\ inbox' = inbox \ {m}
  /\ UNCHANGED <<server, plan, seen>>
  /\ CASE r.path = "/write_signed" -> authenticated_remember(r)
       [] r.path = "/annotate" ->  \* of a reputation
            rep' = [p \in Signer |-> [ok |-> 1, total |-> 1]] /\ UNCHANGED brain
       [] r.path = "/write" ->
            /\ brain' = [brain EXCEPT ![r.key] = Merged(@, Belief(r.text, r.author, r.kind, r.trust, 1))]
            /\ UNCHANGED rep
       [] r.path = "/apply" ->
            /\ brain' = [brain EXCEPT ![r.key] =
                           guard_replica(@, Belief(r.text, r.author, r.kind, r.trust, 1))]
            /\ UNCHANGED rep
       [] r.path = "/promote" -> OnBelief(r, promote)
       [] r.path = "/contradict" -> OnBelief(r, Sunk)
       [] OTHER -> UNCHANGED <<brain, rep>>   \* /all, /recall

-----------------------------------------------------------------------------
(* graduate(): what is verified in two children becomes the parent's       *)
(* candidate, collective and without an author.                            *)

Verified == {c \in Children : brain[c] # NoRec /\ brain[c].trust = "verified"}
Shared == {t \in {brain[c].text : c \in Verified} :
             Cardinality({c \in Verified : SameText(brain[c].text, t)}) >= 2}

\* Of texts that are the same claim the first child's is taken.
graduate_read ==
  /\ plan = {} /\ Shared # {}
  /\ \E texts \in SUBSET Shared :
       /\ \A t \in Shared : Cardinality({u \in texts : SameText(t, u)}) = 1
       /\ plan' = texts
  /\ UNCHANGED <<server, brain, rep, inbox, seen>>

Graduated(t) == Belief(t, Nobody, "fact", "candidate", 2)

graduate_write ==
  \E t \in plan :
    /\ plan' = plan \ {t}
    /\ brain' = [brain EXCEPT ![Parent] = Merged(@, Graduated(t))]
    /\ UNCHANGED <<server, rep, inbox, seen>>

BrainNext ==
  \/ \E r \in Requests : do_POST(r)
  \/ \E p \in Signer : enroll(p)
  \/ \E m \in inbox : _dispatch(m)
  \/ graduate_read \/ graduate_write
BrainSpec == BrainInit /\ [][BrainNext]_brainVars

-----------------------------------------------------------------------------
\* "Authoring a belief as alice requires alice's private key" (principal.py:9-10),
\* and trust does not travel by say-so: of a key that no request of the open mode
\* and no cluster call has touched, the author signed the text the record says, a
\* verified text was attested, both up to case and outer blanks, and a skill is
\* still the skill; and nobody's reputation counts writes they did not sign.
\* Graduation, corroboration and enrolment during a request keep it so.
Signed(p, k, text) == \E t \in Text : SameText(t, text) /\ <<p, <<k, t>>>> \in seen.signed
Attested(text) == \E t \in Text : SameText(t, text) /\ t \in seen.attested
NothingForged ==
  /\ \A k \in Key \ seen.open : LET r == brain[k] IN r # NoRec =>
       /\ r.author \in Signer => Signed(r.author, k, r.text)
       /\ r.trust = "verified" => Attested(r.text)
       /\ k = ToolKey => r = Skill
  /\ "rep" \notin seen.open =>
       \A p \in Signer : rep[p].total <= seen.sent[p] /\ rep[p].ok <= rep[p].total
=============================================================================
