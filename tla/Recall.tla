-------------------------------- MODULE Recall --------------------------------
(***************************************************************************)
(* What a store answers: memory/recall.py and inject.py, and the history   *)
(* they read (view.py).  "past" is one key through writes with and without *)
(* a stated time, rejections, replicas and the clock; every as-of question *)
(* is asked of every state.  "hand" is one call of recall_budgeted and of  *)
(* inject_memory over whatever a store holds.                              *)
(***************************************************************************)
EXTENDS MemoryRecords

CONSTANTS Cut,              \* of a text: its first 200 characters (_PRIOR_TEXT_CAP)
          MaxCorrections,   \* MAX_CORRECTIONS
          Horizon,          \* bound: the clock
          Batches,          \* what one conversation says of the key: [text, from, to, fit]
          Writes,           \* bound: writes of the key
          Rejections,       \* bound: rejections of a value
          Peers,            \* what a peer holds of the key: [text, trust, before]
          Replicas,         \* bound: copies a peer sends
          Hits,             \* what a query finds: sets of hits
          Limits,           \* [k, fetch]: how many are asked for, how many the index returns
          Budgets,
          Chats             \* message lists: sequences of roles

ASSUME BatchesAreSane == Batches \subseteq Seq([text : Text, from : Nat, to : Nat, fit : BOOLEAN])
ASSUME PeersAreSane == Peers \subseteq [text : Text, trust : Trust, before : Text]

\* A hit's relevance, strength and confidence are hundredths.
Hit == [id : Nat, trust : Trust, rel : Int, rs : 0..100, ec : 0..100, cost : Nat]
ASSUME HandsAreSane ==
  /\ Hits \subseteq SUBSET Hit /\ Budgets \subseteq Int /\ Chats \subseteq Seq(STRING)
  /\ Limits \subseteq [k : Nat, fetch : Nat]

VARIABLES past, hand
recallVars == <<past, hand>>

-----------------------------------------------------------------------------
(* A key's history.  A record has its valid interval and the chain of what *)
(* it said before; time 0 is "not stated" and, as an end, "still valid".   *)

Dated(t, trust, led, vf, vt, chain) ==
  [text |-> t, trust |-> trust, ec |-> 2, sup |-> 1, prov |-> {}, ledger |-> led, sat |-> FALSE,
   window |-> "none", pinned |-> FALSE, vf |-> vf, vt |-> vt, chain |-> chain]

\* A value the key once had, and the records that are kept.
Span == [text : Text, vf : Nat, vt : Nat]
History == [text : Text, trust : Trust, ec : {2}, sup : {1}, prov : {{}}, ledger : Seq(Value), sat : BOOLEAN,
            window : {"none"}, pinned : {FALSE}, vf : Nat, vt : Nat, chain : Seq(Span)]

ASSUME HistoryIsSane == NoRec \notin History /\ MaxCorrections \in Nat \ {0} /\ Cut \in [Text -> Text]

\* was[t] is what the key said at the end of time t; bad, what was rejected.
NoPast == [rec |-> NoRec, now |-> 1, was |-> <<NoRec>>, bad |-> {}, stated |-> FALSE,
           writes |-> 0, rejections |-> 0, replicas |-> 0]


\* The superseded value's interval ends now, whatever end was stated for it; the
\* chain keeps the beginning of its text, as it was written.
Closed(old, now) == [text |-> Cut[old.text], vf |-> old.vf, vt |-> now]

\* write(): the same text is corroboration and leaves its interval alone.
Written_(old, new, now) ==
  IF old = NoRec THEN new
  ELSE IF SameText(old.text, new.text) THEN old
  ELSE [supersede_detail(old, new) EXCEPT
          !.chain = Newest(Append(old.chain, Closed(old, now)), MaxCorrections)]

\* An end is kept if it follows a stated beginning.
StatedEnd(vf, vt) == IF vf > 0 /\ vt > vf THEN vt ELSE 0

Says(p, r) == [p EXCEPT !.rec = r, !.was[p.now] = r.text]

\* What is not short readable text, or looks like a secret, is not `fit`; of the
\* statements about one key the last one counts, with the times it states.
parse_extracted_facts(items) == {i \in DOMAIN items : items[i].fit}
LastOfThem(items) == items[Max(parse_extracted_facts(items))]

extract_and_write(items) ==
  LET f == LastOfThem(items) IN
  /\ past.writes < Writes /\ parse_extracted_facts(items) # {}
  /\ past' = [Says(past, Written_(past.rec, Dated(f.text, "candidate", <<>>, IF f.from = 0 THEN past.now ELSE f.from,
                                               StatedEnd(f.from, f.to), <<>>), past.now))
             EXCEPT !.stated = @ \/ f.from > 0, !.writes = @ + 1]

\* contradict to the floor: the record's value joins its ledger.
contradict ==
  /\ past.rec # NoRec /\ past.rejections < Rejections
  /\ past' = [past EXCEPT !.rec = record_rejection([@ EXCEPT !.trust = "rejected"]),
                          !.bad = @ \cup {Canon[past.rec.text]}, !.rejections = @ + 1]

\* apply_replica: the peer's copy with its own chain; the ledgers are merged.
Copy(p) == Dated(p.text, p.trust, IF p.trust = "rejected" THEN <<Canon[p.text]>> ELSE <<>>, past.now, 0,
                 <<[text |-> p.before, vf |-> 1, vt |-> past.now]>>)
Copies == {Copy(p) : p \in Peers}
apply_replica ==
  /\ past.replicas < Replicas
  /\ \E c \in Copies :
       past' = [Says(past, guard_replica(past.rec, c)) EXCEPT
                  !.replicas = @ + 1, !.stated = TRUE,
                  !.bad = @ \cup (IF c.trust = "rejected" THEN {Canon[c.text]} ELSE {})]

Clock ==
  /\ past.now < Horizon
  /\ past' = [past EXCEPT !.now = @ + 1, !.was = Append(@, Last(@))]

PastNext ==
  /\ \/ \E items \in Batches : extract_and_write(items)
     \/ contradict \/ apply_replica \/ Clock
  /\ UNCHANGED hand

-----------------------------------------------------------------------------
(* recall_as_of and members_as_of: the value whose interval held the time. *)

\* Bug: the interval includes its end.
ContainsEnd(vf, vt, t) == vf <= t /\ (vt = 0 \/ t <= vt)

_interval_contains(vf, vt, t) == vf <= t /\ (vt = 0 \/ t < vt)

\* The current value first, then the chain from its oldest entry on.
value_as_of(r, t) ==
  LET hits == {i \in DOMAIN r.chain : /\ r.chain[i].vt # 0
                                      /\ _interval_contains(r.chain[i].vf, r.chain[i].vt, t)}
  IN  IF _interval_contains(r.vf, r.vt, t) THEN r
      ELSE IF hits = {} THEN NoRec
      ELSE [r EXCEPT !.text = r.chain[CHOOSE i \in hits : \A j \in hits : i <= j].text]

\* Blocked values are left out, whichever entry they come from.
recall_as_of(r, t) ==
  LET snap == IF r = NoRec THEN NoRec ELSE value_as_of(r, t)
  IN  IF snap = NoRec \/ is_launder_blocked(snap) THEN NoRec ELSE snap

-----------------------------------------------------------------------------
(* rank and recall_budgeted, in hundredths.                                *)

Bonus(m) == CASE m.trust = "verified" -> 35 [] m.trust = "candidate" -> 0 [] OTHER -> -35

\* A verified memory does not fade out of the ranking.
rank(m) == 50 * m.rel + 20 * (IF m.trust = "verified" THEN 100 ELSE m.rs) + 30 * m.ec + 100 * Bonus(m)

\* As many as n of ms; of equals any.
UpTo(n, ms) == {some \in SUBSET ms : Cardinality(some) = n \/ (some = ms /\ Cardinality(ms) <= n)}

\* The index returns the most relevant that are not rejected, four times as many
\* as are asked for and 60 at least; without it everything is scanned.
Live(ms) == {m \in ms : m.trust # "rejected"}
Fetched(ms, n) ==
  {some \in UpTo(n, Live(ms)) : \A m \in some, o \in Live(ms) \ some : m.rel >= o.rel}

\* Of these the k that rank first are found, if they are relevant at all.
Relevant(ms) == {m \in ms : m.rel > 0}
Found(ms, k) ==
  {some \in UpTo(k, Relevant(ms)) : \A m \in some, o \in Relevant(ms) \ some : rank(m) >= rank(o)}

\* The sort: of equal ranks any comes first.
Ranked(ms) == {m \in ms : \A o \in ms : rank(m) >= rank(o)}

NoHand == [at |-> "none"]
recall ==
  /\ hand = NoHand
  /\ \E ms \in Hits, l \in Limits, b \in Budgets :
     \E fetched \in Fetched(ms, l.fetch) : \E found \in Found(fetched, l.k) :
       hand' = [at |-> "recalled", hits |-> ms, fetched |-> fetched, left |-> found,
                budget |-> b, chosen |-> <<>>, used |-> 0, dropped |-> 0]

Taken(s, m) ==
  IF s.chosen = <<>> \/ s.used + m.cost <= s.budget
    THEN [s EXCEPT !.left = @ \ {m}, !.chosen = Append(@, m), !.used = @ + m.cost]
  ELSE [s EXCEPT !.left = @ \ {m}, !.dropped = @ + 1]

\* One round of its loop.
recall_budgeted ==
  /\ hand.at = "recalled"
  /\ \E m \in Ranked(hand.left) : hand' = Taken(hand, m)

\* A message is its role and its parts: the caller's own words, the block.
Own(role) == [role |-> role, parts |-> <<"own">>]
Block(role) == [role |-> role, parts |-> <<"block">>]
Of(chat, role) == {i \in DOMAIN chat : chat[i].role = role}

\* The first system message, or the latest user turn.
_inject_at(chat, position) ==
  LET systems == Of(chat, "system")  users == Of(chat, "user") IN
  CASE position = "system" ->
         IF systems = {} THEN <<Block("system")>> \o chat
         ELSE [chat EXCEPT ![Min(systems)].parts = @ \o <<"block">>]
    [] position = "user" ->
         IF users = {} THEN Append(chat, Block("user"))
         ELSE [chat EXCEPT ![Max(users)].parts = <<"block">> \o @]
    [] OTHER ->
         IF users = {} THEN Append(chat, Block("assistant"))
         ELSE InsertAt(chat, Max(users), Block("assistant"))

\* Without an answer the messages go as they came.
inject_memory(chat, position, chosen) ==
  IF chosen = <<>> THEN chat ELSE _inject_at(chat, position)

inject(c, position) ==
  /\ hand.at = "recalled" /\ hand.left = {}
  /\ LET chat == [i \in DOMAIN c |-> Own(c[i])] IN
       hand' = [at |-> "sent", hits |-> hand.hits, fetched |-> hand.fetched, left |-> {}, budget |-> hand.budget,
                chosen |-> hand.chosen, used |-> hand.used,
                chat |-> chat, sent |-> inject_memory(chat, position, hand.chosen)]

HandNext ==
  /\ \/ recall \/ recall_budgeted
     \/ \E c \in Chats, p \in {"system", "user", "assistant"} : inject(c, p)
  /\ UNCHANGED past

\* The two halves share nothing; a behaviour shows one of them.
RecallInit == past = NoPast /\ hand = NoHand
RecallNext == (hand = NoHand /\ PastNext) \/ (past = NoPast /\ HandNext)
RecallSpec == RecallInit /\ [][RecallNext]_recallVars

-----------------------------------------------------------------------------
\* No as-of answer reads like a value that was ever rejected on the key, from
\* whichever entry of the chain, under whichever surface form, after replicas and
\* full ledgers.  And for a key whose times nobody stated, the answer about a time
\* is what the key said at the end of that time or its beginning, and that was
\* not rejected, unless its beginning has another key than the whole.
PastIsHonest ==
  \A t \in 1..Horizon : LET snap == recall_as_of(past.rec, t) IN
    snap # NoRec =>
      /\ Canon[snap.text] \notin past.bad
      /\ ~past.stated /\ t <= past.now =>
           LET text == past.was[t] IN
           /\ snap.text \in {text, Cut[text]}
           /\ Canon[Cut[text]] = Canon[text] => Canon[text] \notin past.bad

\* "Never surfaces an ever-rejected value" (recall.py:97-101), without that
\* exception.  It does not hold: the ledger's key is cut after canonicalisation
\* (view.py:169) and the chain's text before it (view.py:262), so the beginning
\* of a long rejected text with collapsible characters is answered.
NoRejectedPast ==
  \A t \in 1..past.now :
    recall_as_of(past.rec, t) # NoRec /\ ~past.stated => Canon[past.was[t]] \notin past.bad

\* What was sent is the chat, cut open in one place at most; the block is before
\* or after the caller's words in a message, and after them in a system message.
HasOwn(m) == "own" \in ToSet(m.parts)
SentInOrder(chat, sent) ==
  \E cut \in 0..Len(chat) :
    LET at(i) == IF i <= cut THEN i ELSE i + Len(sent) - Len(chat) IN
    /\ Len(sent) >= Len(chat)
    /\ \A i \in DOMAIN chat : HasOwn(sent[at(i)]) /\ sent[at(i)].role = chat[i].role
    /\ \A j \in DOMAIN sent : HasOwn(sent[j]) =>
         /\ \E i \in DOMAIN chat : j = at(i)
         /\ sent[j].role = "system" => sent[j].parts[1] = "own"

\* "A poisoned candidate can't crowd out a verified one" (recall.py:5): a
\* relevant verified memory that is left out, by the number asked for or by the
\* budget, makes room only for more relevant or cheaper candidates, or, when the
\* index did not return it, for candidates at least as relevant; and the caller's
\* own messages are all sent, in order, with its system words before the recalled
\* ones.
PassedOver(v) == v \in Relevant(hand.hits) \ (hand.left \cup ToSet(hand.chosen)) /\ v.trust = "verified"
Candidates == {c \in ToSet(hand.chosen) : c.trust = "candidate"}
VerifiedComesFirst ==
  hand # NoHand =>
    /\ \A v \in hand.hits : PassedOver(v) =>
         \A c \in Candidates : IF v \in hand.fetched THEN c.rel > v.rel \/ c.cost < v.cost
                              ELSE c.rel >= v.rel
    /\ hand.used <= hand.budget \/ Len(hand.chosen) <= 1
    /\ hand.at = "sent" => SentInOrder(hand.chat, hand.sent)

\* "A VERIFIED fact still surfaces above an equally-relevant CANDIDATE"
\* (local.py:252-253), whatever the index returned.  It does not hold: the index
\* orders by relevance alone (local.py:268-269), and equals beyond its limit are
\* not fetched.
EqualsAreRanked ==
  hand # NoHand =>
    \A v \in hand.hits : PassedOver(v) => \A c \in Candidates : c.rel # v.rel \/ c.cost < v.cost

\* What a store answers, about the past and for a prompt.
AnswersAreHonest == PastIsHonest /\ VerifiedComesFirst
=============================================================================
