----------------------------- MODULE MemoryTrust -----------------------------
(***************************************************************************)
(* The trust layer over one record of a memory store: what remember, the   *)
(* review queue, the promotion gate, replication and the plain mutators do *)
(* to it, through each backend.  A backend runs a call in one or more      *)
(* atomic sections; clients interleave between sections, so what a client  *)
(* does after a section rests on the record it saw then.                   *)
(***************************************************************************)
EXTENDS MemoryRecords

CONSTANTS Client, NoClient, NoHold, Principal, NoPrincipal,
          AuthOf,      \* Source -> Principal or NoPrincipal: authenticate()
          Configs      \* [backend, clients, ops, sources, windows, calls]: who runs
                       \*   what on which backend, and a bound on the number of calls

Backends == {"local", "mem0", "lance", "redis", "pg"}
Ops == {"remember", "tainted", "approve", "reject", "consider", "contradict", "demote", "corroborate", "pin",
        "flag", "replica"}

ASSUME ConfigsAreSane ==
  /\ Source # {}
  /\ \A k \in Configs : /\ k.backend \in Backends /\ IsFiniteSet(k.clients) /\ k.clients \subseteq Client
                        /\ k.ops \subseteq Ops /\ k.sources \subseteq Source /\ k.windows \subseteq Window

VARIABLES conf, rec,
          lock,        \* pg: holder of the key's advisory lock
          touched,     \* redis: clients whose watched key was written since
          cl,          \* client -> the call it is executing
          ncalls,
          rejected,    \* history: values rejected since the record was created
          vouched,     \* history: values attested, approved or evaluated
          said         \* history: value -> principals who asserted it
vars == <<conf, rec, lock, touched, cl, ncalls, rejected, vouched, said>>

Free == [op |-> "free", todo |-> <<>>, fact |-> NoRec, seen |-> NoRec,
         blocked |-> FALSE, hold |-> NoHold]

-----------------------------------------------------------------------------
(* How the backends split the three calls in which they differ.  All other *)
(* mutators are one section in every backend.                              *)

\* LocalMemory, whose calls the hosted server serialises.
LocalSections == [promote |-> <<"promote">>, demote |-> <<"demote">>,
                  contradict |-> <<"contradict">>, floor |-> <<"floor">>]
\* One connection of one process, without any locking: as LocalMemory.
Mem0Sections == LocalSections
\* One RLock section, except that promote and demote look first.
LanceSections == [promote |-> <<"peek", "verify">>, demote |-> <<"peekTier", "candidate">>,
                  contradict |-> <<"contradict">>, floor |-> <<"floor">>]
\* WATCH ... EXEC per section.
RedisSections == LanceSections
\* One transaction under the key's advisory lock per section; contradict takes
\* three, and its last one stores the list alone, not the saturation.
PgSections == [promote |-> <<"peek", "verify">>, demote |-> <<"peekTier", "candidate">>,
               contradict |-> <<"lower", "reject", "ledger">>,
               floor |-> <<"sink", "reject", "ledger">>]
SectionsOf == [local |-> LocalSections, mem0 |-> Mem0Sections, lance |-> LanceSections,
               redis |-> RedisSections, pg |-> PgSections]
Sections(call) == SectionsOf[conf.backend][call]

-----------------------------------------------------------------------------
(* write(): the interference rule.                                         *)

\* The same text corroborates, and a detail the caller carries along (with the
\* ledger in it) replaces the stored one; another text supersedes.
Written(old, new, carries) ==
  IF old = NoRec THEN {new}
  ELSE IF ~SameText(old.text, new.text) THEN {supersede_detail(old, new)}
  ELSE IF old.trust = "rejected" THEN {old}
  ELSE {Confirmed([r EXCEPT !.prov = @ \cup new.prov,
                            !.ledger = IF carries THEN new.ledger ELSE @]) : r \in Raised(old)}

\* What a section can make of the record r; c is the client's call.
OnRecord(sec, r, c) ==
  CASE sec = "corroborate" -> {Confirmed(x) : x \in Raised(r)}
    [] sec = "contradict" -> {IF x.ec = 0 THEN record_rejection([x EXCEPT !.trust = "rejected"])
                              ELSE x : x \in Lowered(r)}
    [] sec = "floor"      -> {record_rejection([r EXCEPT !.ec = 0, !.trust = "rejected"])}
    [] sec = "lower"      -> Lowered(r)
    [] sec = "sink"       -> {[r EXCEPT !.ec = 0]}
    [] sec = "reject"     -> {[r EXCEPT !.trust = "rejected"]}
    [] sec = "ledger"     -> {[r EXCEPT !.ledger = record_rejection(c.seen).ledger]}
    [] sec = "promote"    -> {IF is_launder_blocked(r) THEN r
                              ELSE Confirmed([r EXCEPT !.trust = "verified"])}
    [] sec = "verify"     -> {Confirmed([r EXCEPT !.trust = "verified"])}
    [] sec = "demote"     -> {IF r.trust = "rejected" THEN r ELSE [r EXCEPT !.trust = "candidate"]}
    [] sec = "candidate"  -> {[r EXCEPT !.trust = "candidate"]}
    [] sec = "pin"        -> {[r EXCEPT !.pinned = ~@]}
    [] sec = "flag"       -> {[r EXCEPT !.window = w] : w \in {"none", "volatile"}}
    [] OTHER              -> {r}  \* get, peek, peekTier

Results(sec, r, c) ==
  CASE sec = "write"   -> Written(r, c.fact, FALSE)
    [] sec = "rewrite" -> Written(r, c.seen, TRUE)
    [] sec = "replica" -> {guard_replica(r, c.fact)}
    [] OTHER           -> IF r = NoRec THEN {NoRec} ELSE OnRecord(sec, r, c)

-----------------------------------------------------------------------------
(* The calls, as programs of sections, and where they stop early.  The     *)
(* annotations of the review (who, when) are left out.                     *)

\* remember_conversation for one extracted fact.
remember == <<"get", "write">> \o Sections("promote")
\* A fact that contains a hidden span of the document is written and rejected.
remember_tainted == <<"write">> \o Sections("floor")
\* review.approve and review.reject.
approve == <<"get">> \o Sections("promote")
reject == <<"get">> \o Sections("floor")
\* PromotionGate.consider, for a rule that passed the held-out evaluation:
\* the record that promote returned is written back.
consider == Sections("promote") \o <<"rewrite">>

Program(op) ==
  CASE op = "remember" -> remember
    [] op = "tainted"  -> remember_tainted
    [] op = "approve"  -> approve
    [] op = "reject"   -> reject
    [] op = "consider" -> consider
    [] op \in {"contradict", "demote"} -> Sections(op)
    [] op \in {"corroborate", "pin", "flag", "replica"} -> <<op>>

Principals(r) == {AuthOf[s] : s \in r.prov} \ {NoPrincipal}

\* At least max(2, min_sources) distinct authenticated principals.
Independent(r) == r.trust # "rejected" /\ Cardinality(Principals(r)) >= 2

ValueRejected(r) == Canon[r.text] \in ToSet(r.ledger)

\* May a remembered fact be promoted after its write returned r?
Promotable(r, c, attested) ==
  /\ r.trust # "verified" /\ ~c.blocked /\ ~ValueRejected(r)
  /\ (attested \/ Independent(r))

\* After section sec returned r to c, does the call go on?
GoesOn(sec, r, c, attested) ==
  IF r = NoRec THEN c.op = "remember" /\ sec = "get"
  ELSE /\ c.op = "remember" /\ sec = "write" => Promotable(r, c, attested)
       /\ c.op = "approve" /\ sec = "get"    => r.trust # "rejected" /\ ~ValueRejected(r)
       /\ c.op # "consider" /\ sec = "peek"  => ~is_launder_blocked(r)
       /\ sec = "peekTier"                   => r.trust # "rejected"
       /\ sec \in {"lower", "sink"}          => r.ec = 0
       /\ sec = "reject"                     => ~ValueRejected(r)

\* In consider, a promotion that was refused is followed by the write.
Rest(sec, r, c) ==
  IF sec = "peek" /\ is_launder_blocked(r) THEN Tail(Tail(c.todo)) ELSE Tail(c.todo)

-----------------------------------------------------------------------------
(* Calls begin.                                                            *)

AnySource == CHOOSE s \in Source : TRUE

\* A record that a peer of the cluster holds: a rejected one is in its own ledger.
Replicated(t, s, tr) ==
  [Fact(t, s, "none") EXCEPT !.trust = tr,
                             !.ledger = IF tr = "rejected" THEN <<Canon[t]>> ELSE <<>>]

Arguments(op) ==
  CASE op \in {"remember", "tainted"} -> {Fact(t, s, w) : t \in Text, s \in conf.sources, w \in conf.windows}
    [] op = "replica" -> {Replicated(t, AnySource, tr) : t \in Text, tr \in Trust}
    [] OTHER          -> {NoRec}

Begin(c) ==
  /\ c \in conf.clients /\ cl[c].op = "free" /\ ncalls < conf.calls
  /\ ncalls' = ncalls + 1
  /\ \E op \in conf.ops : \E f \in Arguments(op) :
       /\ (op \in {"remember", "tainted", "replica"} \/ rec # NoRec)
       /\ cl' = [cl EXCEPT ![c] = [Free EXCEPT !.op = op, !.todo = Program(op),
                                               !.fact = f, !.seen = rec]]
  /\ UNCHANGED <<conf, rec, lock, touched, rejected, vouched, said>>

-----------------------------------------------------------------------------
(* A section takes effect on base, the record as the section read it.      *)

Asserted(c) == AuthOf[CHOOSE s \in cl[c].fact.prov : TRUE]

\* The value a step vouches for: the attestor, the reviewer, the held-out
\* evaluation of the rule, or the peer that holds it verified.
Vouches(c, sec, r, attested) ==
  LET me == cl[c] IN
  IF me.op = "consider" THEN {Canon[me.seen.text]}
  ELSE IF r # NoRec /\ \/ attested
                       \/ me.op = "approve" /\ sec = "get" /\ GoesOn(sec, r, me, FALSE)
                       \/ sec = "replica" /\ r.trust = "verified"
  THEN {Canon[r.text]} ELSE {}

Note(c, sec, r, attested) ==
  /\ rejected' = IF r # NoRec /\ r.trust = "rejected" THEN rejected \cup {Canon[r.text]}
                 ELSE rejected
  /\ said' = IF sec \in {"write", "replica"} /\ Asserted(c) # NoPrincipal
               THEN [said EXCEPT ![Canon[cl[c].fact.text]] = @ \cup {Asserted(c)}]
               ELSE said
  /\ vouched' = vouched \cup Vouches(c, sec, r, attested)

Effect(c, base) ==
  LET me == cl[c]  sec == Head(me.todo) IN
  \E r \in Results(sec, base, me), attested \in BOOLEAN :
    /\ attested => me.op = "remember" /\ sec = "write" /\ ~me.blocked /\ ~ValueRejected(r)
    /\ rec' = IF sec \in {"get", "peek", "peekTier"} THEN rec ELSE r
    /\ Note(c, sec, r, attested)
    /\ cl' = [cl EXCEPT ![c] =
         IF GoesOn(sec, r, me, attested) /\ Rest(sec, r, me) # <<>>
           THEN [me EXCEPT !.todo = Rest(sec, r, me), !.seen = r, !.hold = NoHold,
                           !.blocked = @ \/ (sec = "get" /\ r # NoRec /\ r.trust = "rejected")]
         ELSE Free]

Busy(c) == cl[c].todo # <<>>
\* Reads, and every section of a backend whose calls exclude each other.
InOneStep(c) == \/ conf.backend \in {"local", "mem0", "lance"}
                \/ Head(cl[c].todo) \in {"get", "peek", "peekTier"}

Section(c) ==
  /\ Busy(c) /\ InOneStep(c)
  /\ Effect(c, rec)
  /\ UNCHANGED <<conf, lock, touched, ncalls>>

\* _txn with _lock and _get ... _upsert and commit.  Decay takes no lock.
PgBegin(c) ==
  /\ conf.backend = "pg" /\ Busy(c) /\ ~InOneStep(c) /\ lock = NoClient
  /\ lock' = c /\ cl' = [cl EXCEPT ![c].hold = rec]
  /\ UNCHANGED <<conf, rec, touched, ncalls, rejected, vouched, said>>
PgCommit(c) ==
  /\ conf.backend = "pg" /\ cl[c].hold # NoHold
  /\ Effect(c, cl[c].hold)
  /\ lock' = NoClient
  /\ UNCHANGED <<conf, touched, ncalls>>

\* _run_atomic: WATCH and read ... EXEC, which fails if anybody wrote since.
RedisWatch(c) ==
  /\ conf.backend = "redis" /\ Busy(c) /\ ~InOneStep(c) /\ cl[c].hold = NoHold
  /\ cl' = [cl EXCEPT ![c].hold = rec] /\ touched' = touched \ {c}
  /\ UNCHANGED <<conf, rec, lock, ncalls, rejected, vouched, said>>

RedisExec(c) ==
  /\ conf.backend = "redis" /\ cl[c].hold # NoHold /\ c \notin touched
  /\ Effect(c, cl[c].hold) /\ touched' = Client
  /\ UNCHANGED <<conf, lock, ncalls>>
RedisRetry(c) ==
  /\ conf.backend = "redis" /\ cl[c].hold # NoHold /\ c \in touched
  /\ cl' = [cl EXCEPT ![c].hold = NoHold]
  /\ UNCHANGED <<conf, rec, lock, touched, ncalls, rejected, vouched, said>>

\* The librarian's pass deletes the record, and with it what it remembers.
decay ==
  /\ rec # NoRec /\ apply_decay(rec)
  /\ rec' = NoRec /\ touched' = Client /\ rejected' = {}
  /\ UNCHANGED <<conf, lock, cl, ncalls, vouched, said>>

Init ==
  /\ conf \in Configs /\ rec = NoRec /\ lock = NoClient /\ touched = Client
  /\ cl = [c \in Client |-> Free] /\ ncalls = 0
  /\ rejected = {} /\ vouched = {} /\ said = [v \in Value |-> {}]

Next == \/ \E c \in Client : \/ Begin(c) \/ Section(c) \/ PgBegin(c) \/ PgCommit(c)
                             \/ RedisWatch(c) \/ RedisExec(c) \/ RedisRetry(c)
        \/ decay
Spec == Init /\ [][Next]_vars

-----------------------------------------------------------------------------
Held == {c \in Client : cl[c].hold # NoHold}

\* The record is well formed and at most one postgres transaction of the key
\* is open.
TypeOK ==
  /\ rec \in Record \cup {NoRec} /\ (rec # NoRec => Len(rec.ledger) <= MaxLedger /\ rec.sup <= MaxSupport)
  /\ conf \in Configs /\ ncalls \in 0..conf.calls
  /\ (conf.backend = "pg" => Held = {lock} \ {NoClient})
  /\ rejected \subseteq Value /\ vouched \subseteq Value

Alone == Cardinality(conf.clients) = 1 /\ conf.backend # "pg"

\* "A value ever REJECTED on this key is never promotable" (local.py:337),
\* through supersession, restatement, full ledgers, replication and review, and
\* nothing is verified without evidence about its own value: an attestation, a
\* reviewer, an evaluation, a peer, or two authenticated principals who said it;
\* labels, repetition and other values' support are not evidence.  Calls do not
\* overlap and the backend is not postgres, whose promise is NoLaunderOnPg.
VerifiedIsEarned ==
  Alone /\ rec # NoRec /\ rec.trust = "verified" =>
    /\ Canon[rec.text] \notin rejected
    /\ Canon[rec.text] \in vouched \/ Cardinality(said[Canon[rec.text]]) >= 2

\* The first half, of postgres.
NoLaunderOnPg ==
  rec # NoRec /\ rec.trust = "verified" => Canon[rec.text] \notin rejected

\* With any number of clients, a step takes a value out of the ledger only by
\* deleting the record or when the key is saturated.  (Not promised with the
\* promotion gate's stale write and postgres's split contradict.)
LedgerKept ==
  [][conf.backend # "pg" /\ (Alone \/ "consider" \notin conf.ops)
     /\ rec # NoRec /\ rec' # NoRec /\ ~rec'.sat
       => ToSet(rec.ledger) \subseteq ToSet(rec'.ledger)]_vars

-----------------------------------------------------------------------------
\* For TLC: a sequential client with every operation; one with enough calls to
\* fill the ledger, restate the evicted value and approve it; two racing clients
\* on the backends whose calls take several atomic sections.
CONSTANTS x1, x2, y, vx, vy, alice, bob, mallory, a, b, c1, c2

MCCanon == x1 :> vx @@ x2 :> vx @@ y :> vy
MCFold == [t \in {x1, x2, y} |-> t]   \* x2 is x1 with an invisible character
MCAuthOf == alice :> a @@ bob :> b @@ mallory :> NoPrincipal

Review == {"remember", "reject", "approve"}
Races == Review \cup {"contradict"}

Conf(bk, cs, ops, ss, ws, n) ==
  [backend |-> bk, clients |-> cs, ops |-> ops, sources |-> ss, windows |-> ws, calls |-> n]
Wide == Conf("local", {c1}, Ops, {alice, bob, mallory}, {"none", "volatile"}, 4)
Deep(bk) == Conf(bk, {c1}, Review, {alice}, {"none"}, 6)
Race(bk) == Conf(bk, {c1, c2}, Races, {alice}, {"none", "ttl"}, 3)

MCConfigs == {Wide, Deep("mem0"), Race("lance"), Race("redis"), Race("pg")}
PgAlone == {Deep("pg")}
=============================================================================
