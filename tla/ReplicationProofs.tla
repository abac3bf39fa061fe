------------------------- MODULE ReplicationProofs -------------------------
(***************************************************************************)
(* Proofs about the replicated memory: what was acknowledged by everybody  *)
(* stays readable, the version of a copy tells its state, and no node ever *)
(* forgets a rejection; for clusters of any size and any timing of leases, *)
(* calls, failovers and, but for the first, restarts and reconcilers.      *)
(*                                                                         *)
(* The first rests on RepInv, which speaks of the clusters that ask all    *)
(* nodes; the others on StateInv, which holds of every cluster.            *)
(***************************************************************************)
EXTENDS ReplicatedMemory, FiniteSetTheorems, WellFoundedInduction, TLAPS

-----------------------------------------------------------------------------
(* Acknowledged writes.  An answered mutation is settled: there is a       *)
(* version that every node has reached and below which nothing is left     *)
(* that lacks the mutation, in no copy and in no call, however late.  On   *)
(* the way there a leader that can still succeed has as many answers as    *)
(* nodes that stand at its version.  A successor's token is newer, and     *)
(* from then on the follower's fence refuses the older leader's calls that *)
(* have not passed it: such a mutation is doomed, and is never answered.   *)

\* The clusters AckedSurvives is about.
Strict == conf.quorum = Cardinality(conf.nodes) /\ ~conf.sync /\ reused = {}

Mutation ==
  {Idle} \cup [at : {"local", "stamp"}, token : Nat, op : 1..MaxOps]
  \cup [at : {"send"}, token : Nat, op : 1..MaxOps, rec : Record, todo : SUBSET Node,
        wait : Node \cup {None}, acks : Nat]
Served == {serving[p] : p \in {q \in Node : serving[q] # None}}
Calls == net \cup Served

Types ==
  /\ conf \in Configs
  /\ row.owner \in conf.nodes \cup {NoOwner} /\ row.token \in Nat /\ row.max_token \in Nat
  /\ copy \in [Node -> Record \cup {NoRec}] /\ seq \in [Node -> Nat] /\ nops \in 0..MaxOps
  /\ mut \in [Node -> Mutation] /\ net \subseteq Call /\ serving \in [Node -> Call \cup {None}]
  /\ pulled \in [Node -> Record \cup {None}]

\* Who runs what, and how far it is.
Pending(n) == mut[n].todo \cup ({mut[n].wait} \ {None})
Shape ==
  /\ \A m \in Calls : m.from \in conf.nodes /\ m.to \in conf.nodes /\ m.from # m.to
  /\ \A p \in Node : serving[p] # None => serving[p].to = p
  /\ \A n \in Node : mut[n] # Idle => n \in conf.nodes /\ serving[n] = None
  /\ \A n \in Node : seq[n] + (IF mut[n].at \in {"local", "stamp"} THEN 1 ELSE 0) <= nops
  /\ \A n \in Node : mut[n].at = "stamp" => copy[n] # NoRec /\ mut[n].op \in copy[n].ops
  /\ \A n \in Node : mut[n].at = "send" =>
       /\ copy[n] = mut[n].rec /\ mut[n].op \in mut[n].rec.ops
       /\ mut[n].rec.v > Stamped(mut[n].token, 0)
       /\ Pending(n) \subseteq conf.nodes \ {n} /\ mut[n].wait \notin mut[n].todo
       /\ mut[n].acks + Cardinality(Pending(n)) <= Cardinality(conf.nodes)
       /\ \A m \in Calls : m.from = n /\ m.rec = mut[n].rec => m.token = mut[n].token

\* A token is of one leader, and of the row's owner the newest.
Tokens ==
  /\ row.owner # NoOwner => row.token = row.max_token
  /\ \A n \in Node : mut[n] # Idle => mut[n].token <= row.max_token
  /\ \A n \in Node : mut[n] # Idle /\ row.owner # n => mut[n].token # row.token
  /\ \A n, p \in Node : mut[n] # Idle /\ mut[p] # Idle /\ n # p => mut[n].token # mut[p].token

\* Under a token nothing is stamped beyond its leader's _seq.
Versions == {Version(copy[p]) : p \in Node} \cup {m.rec.v : m \in Calls}
Within(t, k) == \A v \in Versions : v <= Stamped(t, k) \/ v >= Stamped(t + 1, 0)
Stamps ==
  /\ \A v \in Versions : v < Stamped(row.max_token + 1, 0)
  /\ \A n \in Node : row.owner = n => Within(row.token, seq[n])
  /\ \A n \in Node : mut[n] # Idle =>
       Within(mut[n].token, seq[n]) /\ Version(copy[n]) <= Stamped(mut[n].token, seq[n])

\* What a node's state counts as: a change that is not stamped yet counts as
\* the version it will get.
Standing(n) ==
  IF mut[n].at = "stamp" THEN Stamped(mut[n].token, seq[n] + 1) ELSE Version(copy[n])
Covers(op, v) ==
  /\ \A p \in conf.nodes : Standing(p) >= v => op \in Ops(copy[p])
  /\ \A m \in Calls : m.rec.v >= v => op \in m.rec.ops

\* Somebody has not answered and will not: enough calls have failed, or one
\* that is still out will be fenced.
Doomed(n) ==
  \/ mut[n].acks + Cardinality(Pending(n)) < Cardinality(conf.nodes)
  \/ \E p \in Pending(n) :
       /\ row.max_token > mut[n].token
       /\ ~(serving[p] # None /\ serving[p].from = n /\ serving[p].rec = mut[n].rec)
Answered(n, v) == {p \in conf.nodes \ Pending(n) : Standing(p) >= v}
Sends ==
  \A n \in Node : mut[n].at = "send" =>
    \A op \in {mut[n].op}, v \in {mut[n].rec.v} :
      Doomed(n) \/ (Covers(op, v) /\ mut[n].acks <= Cardinality(Answered(n, v)))

Settled(op) == \E v \in Nat \ {0} : Covers(op, v) /\ \A p \in conf.nodes : Standing(p) >= v
Acks == \A op \in acked : Settled(op)

Body == Types /\ Shape /\ Tokens /\ Stamps /\ Sends /\ Acks
RepInv == conf \in Configs /\ (Strict => Body /\ pulled = [n \in Node |-> None])

-----------------------------------------------------------------------------
(* What the parts say of the operators they are built from.                *)

LEMMA StampedLemma ==
  ASSUME NEW a \in Nat, NEW i \in Nat
  PROVE  /\ Stamped(a, i) \in Nat
         /\ \A j \in Nat : (i <= j => Stamped(a, i) <= Stamped(a, j)) /\ (i < j => Stamped(a, i) < Stamped(a, j))
         /\ \A b, j \in Nat : a < b /\ i <= MaxOps => Stamped(a, i) < Stamped(b, j)
  <1>1. PICK x \in Nat : x = a * Stride
    BY ReplicaAssumption
  <1>2. Stamped(a, i) \in Nat
    BY <1>1 DEF Stamped
  <1>3. \A j \in Nat : (i <= j => Stamped(a, i) <= Stamped(a, j)) /\ (i < j => Stamped(a, i) < Stamped(a, j))
    BY <1>1 DEF Stamped
  <1>4. ASSUME NEW b \in Nat, NEW j \in Nat, a < b, i <= MaxOps
        PROVE  Stamped(a, i) < Stamped(b, j)
    <2>1. PICK d \in Nat : b = a + 1 + d
      <3>1. b - a - 1 \in Nat /\ b = a + 1 + (b - a - 1)
        BY <1>4
      <3>2. QED BY <3>1
    <2>2. b * Stride = a * Stride + Stride + d * Stride /\ d * Stride \in Nat
      BY <2>1, ReplicaAssumption
    <2>3. PICK y \in Nat : y = d * Stride
      BY <2>2
    <2>4. b * Stride = x + Stride + y
      BY <1>1, <2>2, <2>3
    <2>5. QED BY <1>1, <1>4, <2>4, ReplicaAssumption DEF Stamped
  <1>5. QED BY <1>2, <1>3, <1>4

LEMMA RecordLemma ==
  ASSUME NEW old \in Record \cup {NoRec}, NEW new \in Record
  PROVE  LET r == guard_replica(old, new)
         IN  r \in Record /\ r.v = new.v /\ r.ops = new.ops
  BY DEF guard_replica, Record, Ledger

LEMMA LocalLemma ==
  ASSUME NEW old \in Record \cup {NoRec}, NEW op \in 1..MaxOps, NEW r,
         \/ \E t \in Text : r = LocalWrite(old, t, op)
         \/ old # NoRec /\ r = LocalContradict(old, op)
  PROVE  r \in Record /\ op \in r.ops /\ Ops(old) \subseteq r.ops /\ (r.v = 0 \/ r.v = Version(old))
  <1>1. ASSUME NEW t \in Text, r = LocalWrite(old, t, op)
        PROVE  r \in Record /\ op \in r.ops /\ Ops(old) \subseteq r.ops /\ (r.v = 0 \/ r.v = Version(old))
    <2>1. CASE old = NoRec
      BY <1>1, <2>1 DEF LocalWrite, Record, Ops
    <2>2. CASE old # NoRec /\ old.text = t
      BY <1>1, <2>2 DEF LocalWrite, Record, Ops, Version
    <2>3. CASE old # NoRec /\ old.text # t
      BY <1>1, <2>3 DEF LocalWrite, SupersedeLedger, Record, Ops, Version
    <2>4. QED BY <2>1, <2>2, <2>3
  <1>2. CASE old # NoRec /\ r = LocalContradict(old, op)
    BY <1>2 DEF LocalContradict, Record, Ops, Version
  <1>3. QED BY <1>1, <1>2

LEMMA MutLemma ==
  ASSUME Types, NEW n \in Node
  PROVE  /\ mut[n].at \in {"idle", "local", "stamp", "send"}
         /\ mut[n] = Idle <=> mut[n].at = "idle"
         /\ mut[n].at \in {"local", "stamp"} =>
              mut[n] \in [at : {"local", "stamp"}, token : Nat, op : 1..MaxOps]
         /\ mut[n].at = "send" =>
              mut[n] \in [at : {"send"}, token : Nat, op : 1..MaxOps, rec : Record, todo : SUBSET Node,
                          wait : Node \cup {None}, acks : Nat]
         /\ mut[n] # Idle => mut[n].token \in Nat /\ mut[n].op \in 1..MaxOps
  BY DEF Types, Mutation, Idle

LEMMA CallsLemma ==
  ASSUME Types
  PROVE  /\ net \subseteq Calls /\ Calls \subseteq Call
         /\ \A p \in Node : serving[p] # None => serving[p] \in Calls
         /\ \A m \in Calls : m \in net \/ \E p \in Node : serving[p] # None /\ m = serving[p]
         /\ \A m \in Calls : m.rec \in Record /\ m.rec.v \in Nat /\ m # None /\ m.token \in Nat
                             /\ m.from \in Node /\ m.to \in Node
  <1>1. /\ net \subseteq Calls /\ Calls \subseteq Call
        /\ \A p \in Node : serving[p] # None => serving[p] \in Calls
        /\ \A m \in Calls : m \in net \/ \E p \in Node : serving[p] # None /\ m = serving[p]
    BY DEF Types, Calls, Served
  <1>2. ASSUME NEW m \in Calls
        PROVE  m.rec \in Record /\ m.rec.v \in Nat /\ m # None /\ m.token \in Nat /\ m.from \in Node /\ m.to \in Node
    <2>1. m \in Call
      BY <1>1
    <2>2. m.rec \in Record /\ m # None /\ m.token \in Nat /\ m.from \in Node /\ m.to \in Node
      BY <2>1, ReplicaAssumption DEF Call
    <2>3. QED BY <2>2 DEF Record
  <1>3. QED BY <1>1, <1>2

LEMMA CopyLemma ==
  ASSUME Types, NEW n \in Node
  PROVE  /\ copy[n] \in Record \cup {NoRec} /\ Version(copy[n]) \in Nat /\ seq[n] \in Nat
         /\ copy[n] # NoRec => Version(copy[n]) = copy[n].v /\ Ops(copy[n]) = copy[n].ops
         /\ Standing(n) \in Nat
  <1>1. copy[n] \in Record \cup {NoRec} /\ seq[n] \in Nat
    BY DEF Types
  <1>2. Version(copy[n]) \in Nat
    BY <1>1 DEF Version, Record
  <1>3. mut[n].at = "stamp" => mut[n].token \in Nat
    BY MutLemma
  <1>4. mut[n].at = "stamp" => Stamped(mut[n].token, seq[n] + 1) \in Nat
    <2>1. seq[n] + 1 \in Nat
      BY <1>1
    <2>2. QED BY <1>3, <2>1, StampedLemma
  <1>5. Standing(n) \in Nat
    BY <1>2, <1>4 DEF Standing
  <1>6. QED BY <1>1, <1>2, <1>5 DEF Version, Ops

LEMMA StandingIsNat == Types => \A n \in Node : Standing(n) \in Nat
  BY CopyLemma

LEMMA CopyPrimed == Types' => (\A n \in Node : Standing(n) \in Nat)'
  BY StandingIsNat, PTL

LEMMA NodesLemma ==
  ASSUME Types
  PROVE  /\ conf.nodes \subseteq Node /\ IsFiniteSet(conf.nodes) /\ Cardinality(conf.nodes) \in Nat
         /\ \A S \in SUBSET conf.nodes :
              IsFiniteSet(S) /\ Cardinality(S) \in Nat /\ Cardinality(S) <= Cardinality(conf.nodes)
  <1>1. conf.nodes \subseteq Node /\ IsFiniteSet(Node)
    BY ReplicaAssumption DEF Types
  <1>2. IsFiniteSet(conf.nodes)
    BY <1>1, FS_Subset
  <1>3. ASSUME NEW S \in SUBSET conf.nodes
        PROVE  IsFiniteSet(S) /\ Cardinality(S) \in Nat /\ Cardinality(S) <= Cardinality(conf.nodes)
    BY <1>2, FS_Subset, FS_CardinalityType
  <1>4. QED BY <1>1, <1>2, <1>3, FS_CardinalityType

\* A step that changes no record and no version, and adds no call.
Still ==
  /\ conf' = conf /\ copy' = copy /\ Calls' \subseteq Calls
  /\ \A p \in Node : Standing(p)' = Standing(p)

LEMMA StillCovers ==
  ASSUME Types, Still, NEW op, NEW v, Covers(op, v) PROVE Covers(op, v)'
  BY NodesLemma DEF Still, Covers

LEMMA StillSettled ==
  ASSUME Types, Still, NEW op, Settled(op) PROVE Settled(op)'
  <1>1. PICK v \in Nat \ {0} : Covers(op, v) /\ \A p \in conf.nodes : Standing(p) >= v
    BY DEF Settled
  <1>2. Covers(op, v)'
    BY <1>1, StillCovers
  <1>3. \A p \in conf'.nodes : Standing(p)' >= v
    BY <1>1, NodesLemma DEF Still
  <1>4. QED BY <1>2, <1>3 DEF Settled

LEMMA StillStamps ==
  ASSUME Types, Still
  PROVE  Versions' \subseteq Versions /\ \A t, k : Within(t, k) => Within(t, k)'
  <1>1. Versions' \subseteq Versions
    BY DEF Still, Versions
  <1>2. QED BY <1>1 DEF Within

\* A mutation goes on as it was, while others step.
LEMMA CarrySend ==
  ASSUME Types, Types', conf' = conf, NEW n \in Node, mut[n].at = "send", mut'[n] = mut[n],
         NEW op, NEW v \in Nat,
         row'.max_token >= row.max_token,
         \A p \in Pending(n) :
           row.max_token > mut[n].token /\ serving'[p] # None /\ serving'[p].from = n
             /\ serving'[p].rec = mut[n].rec => serving'[p] = serving[p],
         \A p \in conf.nodes : Standing(p)' >= Standing(p),
         Covers(op, v) /\ mut[n].acks <= Cardinality(Answered(n, v)) => Covers(op, v)' \/ Doomed(n)',
         Doomed(n) \/ (Covers(op, v) /\ mut[n].acks <= Cardinality(Answered(n, v)))
  PROVE  Doomed(n)' \/ (Covers(op, v)' /\ mut'[n].acks <= Cardinality(Answered(n, v)'))
  <1>1. Pending(n)' = Pending(n) /\ mut[n].token \in Nat /\ mut[n].acks \in Nat
    BY MutLemma DEF Pending
  <1>2. CASE Doomed(n)
    <2>1. CASE mut[n].acks + Cardinality(Pending(n)) < Cardinality(conf.nodes)
      BY <1>1, <2>1 DEF Doomed
    <2>2. ASSUME NEW p \in Pending(n), row.max_token > mut[n].token,
                 ~(serving[p] # None /\ serving[p].from = n /\ serving[p].rec = mut[n].rec)
          PROVE  Doomed(n)'
      <3>1. ~(serving'[p] # None /\ serving'[p].from = n /\ serving'[p].rec = mut'[n].rec)
        BY <2>2
      <3>2. row'.max_token > mut'[n].token
        BY <1>1, <2>2 DEF Types
      <3>3. QED BY <1>1, <3>1, <3>2 DEF Doomed
    <2>3. QED BY <1>2, <2>1, <2>2 DEF Doomed
  <1>3. CASE Covers(op, v)' /\ mut[n].acks <= Cardinality(Answered(n, v))
    <2>1. Answered(n, v)' \in SUBSET conf.nodes /\ Answered(n, v) \subseteq Answered(n, v)'
      <3>1. \A p \in conf.nodes : Standing(p) \in Nat /\ Standing(p)' \in Nat
        BY CopyLemma, NodesLemma, CopyPrimed
      <3>2. QED BY <1>1, <3>1 DEF Answered
    <2>2. IsFiniteSet(Answered(n, v)') /\ Cardinality(Answered(n, v)') \in Nat
      BY <2>1, NodesLemma
    <2>3. Cardinality(Answered(n, v)) <= Cardinality(Answered(n, v)') /\ Cardinality(Answered(n, v)) \in Nat
      BY <2>1, <2>2, FS_Subset, FS_CardinalityType
    <2>4. QED BY <1>1, <1>3, <2>2, <2>3
  <1>4. QED BY <1>2, <1>3

LEMMA StillSends ==
  ASSUME Types, Types', Sends, Still, row'.max_token >= row.max_token,
         \A n \in Node : mut'[n].at = "send" => mut'[n] = mut[n],
         \A n, p \in Node :
           mut[n].at = "send" /\ row.max_token > mut[n].token /\ serving'[p] # None
             /\ serving'[p].from = n /\ serving'[p].rec = mut[n].rec => serving'[p] = serving[p]
  PROVE  Sends'
  <1> SUFFICES ASSUME NEW n \in Node, mut'[n].at = "send",
                      NEW op \in {mut'[n].op}, NEW v \in {mut'[n].rec.v}
               PROVE  Doomed(n)' \/ (Covers(op, v)' /\ mut'[n].acks <= Cardinality(Answered(n, v)'))
    BY DEF Sends
  <1>1. mut[n].at = "send" /\ mut'[n] = mut[n] /\ op \in {mut[n].op} /\ v \in {mut[n].rec.v}
    OBVIOUS
  <1>2. Doomed(n) \/ (Covers(op, v) /\ mut[n].acks <= Cardinality(Answered(n, v)))
    BY <1>1 DEF Sends
  <1>3. Covers(op, v) => Covers(op, v)'
    BY StillCovers
  <1>4. v \in Nat /\ Pending(n) \subseteq Node
    <2>1. mut[n].rec \in Record /\ mut[n].todo \subseteq Node /\ mut[n].wait \in Node \cup {None}
      BY <1>1, MutLemma
    <2>2. QED BY <1>1, <2>1 DEF Record, Pending
  <1>5. \A p \in conf.nodes : Standing(p)' >= Standing(p)
    BY StandingIsNat, NodesLemma DEF Still
  <1>6. conf' = conf
    BY DEF Still
  <1>7. \A p \in Pending(n) :
           row.max_token > mut[n].token /\ serving'[p] # None /\ serving'[p].from = n
             /\ serving'[p].rec = mut[n].rec => serving'[p] = serving[p]
    BY <1>1, <1>4
  <1>8. QED BY <1>1, <1>2, <1>3, <1>4, <1>5, <1>6, <1>7, CarrySend

\* Under a new token nothing has been stamped.
LEMMA NewTokenLemma ==
  ASSUME NEW a \in Nat, NEW k \in Nat, NEW V \in SUBSET Nat, \A v \in V : v < Stamped(a, 0)
  PROVE  \A v \in V : v < Stamped(a + 1, 0) /\ v <= Stamped(a, k)
  <1>1. a + 1 \in Nat /\ a < a + 1 /\ 0 \in Nat /\ 0 <= MaxOps /\ 0 <= k
    BY ReplicaAssumption
  <1>2. Stamped(a, 0) \in Nat /\ Stamped(a + 1, 0) \in Nat /\ Stamped(a, k) \in Nat
    BY <1>1, StampedLemma
  <1>3. Stamped(a, 0) < Stamped(a + 1, 0)
    BY <1>1, StampedLemma
  <1>4. Stamped(a, 0) <= Stamped(a, k)
    BY <1>1, StampedLemma
  <1>5. QED BY <1>2, <1>3, <1>4

\* A version is of one token.
LEMMA ApartLemma ==
  ASSUME NEW t \in Nat, NEW i \in Nat, i <= MaxOps, NEW a \in Nat, NEW k \in Nat, a # t
  PROVE  Stamped(t, i) <= Stamped(a, k) \/ Stamped(t, i) >= Stamped(a + 1, 0)
  <1>1. Stamped(t, i) \in Nat /\ Stamped(a, k) \in Nat
    BY StampedLemma
  <1>2. CASE t < a
    BY <1>1, <1>2, StampedLemma
  <1>3. CASE a < t
    <2>1. a + 1 \in Nat /\ 0 \in Nat /\ 0 <= i /\ 0 <= MaxOps /\ (a + 1 = t \/ a + 1 < t)
      BY <1>3, ReplicaAssumption
    <2>2. Stamped(a + 1, 0) \in Nat
      BY <2>1, StampedLemma
    <2>3. CASE a + 1 = t
      BY <1>1, <2>1, <2>2, <2>3, StampedLemma
    <2>4. CASE a + 1 < t
      BY <1>1, <2>1, <2>2, <2>4, StampedLemma
    <2>5. QED BY <2>1, <2>3, <2>4
  <1>4. QED BY <1>2, <1>3

-----------------------------------------------------------------------------
(* The steps of the lease and of the leader that change no record.         *)

LEMMA AcquireLemma ==
  ASSUME Types, Tokens, Stamps, NEW n \in conf.nodes, row' = SqlAcquire(row, n, clock, Ttl)
  PROVE  /\ row'.owner = n /\ row'.token = row'.max_token /\ row'.max_token \in Nat
         /\ row'.max_token >= row.max_token
         /\ \A p \in Node \ {n} : mut[p] # Idle => mut[p].token # row'.token
         /\ \A v \in Versions : v < Stamped(row'.max_token + 1, 0)
         /\ Within(row'.token, seq[n])
  <1> DEFINE t == SqlGrant(row, n, clock)
  <1>1. /\ row.max_token \in Nat /\ row.token \in Nat /\ n \in Node /\ n # NoOwner
    BY NodesLemma, ReplicaAssumption DEF Types
  <1>2. \/ t = row.token /\ row.owner = n /\ row.token = row.max_token
        \/ t = row.max_token + 1
    BY <1>1 DEF SqlGrant, Tokens
  <1>3. /\ row'.owner = n /\ row'.token = t
        /\ row'.max_token = IF t > row.max_token THEN t ELSE row.max_token
    BY DEF SqlAcquire
  <1> HIDE DEF t
  <1>4. /\ row'.owner = n /\ row'.token = row'.max_token /\ row'.max_token \in Nat
        /\ row'.max_token >= row.max_token
    BY <1>1, <1>2, <1>3
  <1>5. \A v \in Versions : v \in Nat
    BY CopyLemma, CallsLemma DEF Versions
  <1>6. seq[n] \in Nat
    BY <1>1, CopyLemma
  <1>7. CASE t = row.token /\ row.owner = n /\ row.token = row.max_token
    <2>1. row'.token = row.token /\ row'.max_token = row.max_token
      BY <1>1, <1>3, <1>7
    <2>2. \A p \in Node \ {n} : mut[p] # Idle => mut[p].token # row'.token
      BY <1>7, <2>1 DEF Tokens
    <2>3. Within(row'.token, seq[n]) /\ \A v \in Versions : v < Stamped(row'.max_token + 1, 0)
      BY <1>1, <1>7, <2>1 DEF Stamps
    <2>4. QED BY <1>4, <2>2, <2>3
  <1>8. CASE t = row.max_token + 1
    <2>1. row'.token = row.max_token + 1 /\ row'.max_token = row.max_token + 1
      BY <1>1, <1>3, <1>8
    <2>2. \A p \in Node : mut[p] # Idle => mut[p].token \in Nat /\ mut[p].token <= row.max_token
      BY MutLemma DEF Tokens
    <2>3. \A p \in Node \ {n} : mut[p] # Idle => mut[p].token # row'.token
      BY <1>1, <2>1, <2>2
    <2>4. PICK a \in Nat : a = row.max_token + 1
      BY <1>1
    <2>6. \A v \in Versions : v < Stamped(a, 0)
      BY <2>4 DEF Stamps
    <2>7. \A v \in Versions : v < Stamped(a + 1, 0) /\ v <= Stamped(a, seq[n])
      BY <1>5, <1>6, <2>6, NewTokenLemma
    <2>8. row'.token = a /\ row'.max_token = a
      BY <2>1, <2>4
    <2>9. QED BY <1>4, <2>3, <2>7, <2>8 DEF Within
  <1>9. QED BY <1>2, <1>7, <1>8

LEMMA LeadStep == ASSUME Body, NEW n \in conf.nodes, Lead(n) PROVE Body'
  <1>1. Types /\ Shape /\ Tokens /\ Stamps /\ Sends /\ Acks /\ n \in Node
    BY NodesLemma DEF Body
  <1>2. /\ mut[n] = Idle /\ serving[n] = None /\ nops < MaxOps /\ nops' = nops + 1
        /\ row' = SqlAcquire(row, n, clock, Ttl)
        /\ mut' = [mut EXCEPT ![n] = [at |-> "local", token |-> row'.token, op |-> nops + 1]]
        /\ UNCHANGED <<conf, clock, copy, seq, net, serving, pulled, crashes, acked, reused>>
    BY DEF Lead, Locked
  <1>3. /\ row'.owner = n /\ row'.token = row'.max_token /\ row'.max_token \in Nat
        /\ row'.max_token >= row.max_token
        /\ \A p \in Node \ {n} : mut[p] # Idle => mut[p].token # row'.token
        /\ \A v \in Versions : v < Stamped(row'.max_token + 1, 0)
        /\ Within(row'.token, seq[n])
    BY <1>1, <1>2, AcquireLemma
  <1>4. nops + 1 \in 1..MaxOps /\ nops' \in 0..MaxOps
    BY <1>1, <1>2, ReplicaAssumption DEF Types
  <1> DEFINE M == [at |-> "local", token |-> row'.token, op |-> nops + 1]
  <1>5. M \in Mutation /\ M.at = "local" /\ M.token = row'.token /\ M # Idle
    BY <1>3, <1>4 DEF Mutation, Idle
  <1>6. mut' = [mut EXCEPT ![n] = M]
    BY <1>2
  <1> HIDE DEF M
  <1>7. mut'[n] = M /\ (\A p \in Node \ {n} : mut'[p] = mut[p]) /\ mut' \in [Node -> Mutation]
    BY <1>1, <1>5, <1>6 DEF Types
  <1>8. Types'
    BY <1>1, <1>2, <1>3, <1>4, <1>7 DEF Types
  <1>9. Still
    <2>1. Calls' = Calls
      BY <1>2 DEF Calls, Served
    <2>2. \A p \in Node : Standing(p)' = Standing(p)
      BY <1>2, <1>5, <1>7 DEF Standing, Idle
    <2>3. QED BY <1>2, <2>1, <2>2 DEF Still
  <1>10. Shape'
    <2>1. \A p \in Node : seq'[p] + (IF mut'[p].at \in {"local", "stamp"} THEN 1 ELSE 0) <= nops'
      <3>1. nops \in Nat /\ \A p \in Node : seq[p] \in Nat
        BY <1>1, ReplicaAssumption DEF Types
      <3>2. seq[n] + 0 <= nops
        BY <1>1, <1>2 DEF Shape, Idle
      <3>3. \A p \in Node : seq[p] + (IF mut[p].at \in {"local", "stamp"} THEN 1 ELSE 0) <= nops
        BY <1>1 DEF Shape
      <3>4. QED BY <1>2, <1>5, <1>7, <3>1, <3>2, <3>3
    <2>2. \A p \in Node : mut'[p].at \in {"stamp", "send"} => p # n /\ mut'[p] = mut[p]
      BY <1>5, <1>7
    <2>3. \A p \in Node : mut'[p].at = "send" => Pending(p)' = Pending(p)
      BY <2>2 DEF Pending
    <2>4. Calls' = Calls
      BY <1>2 DEF Calls, Served
    <2>5. \A p \in Node : mut'[p] # Idle => p \in conf.nodes /\ serving[p] = None
      BY <1>1, <1>2, <1>7 DEF Shape
    <2>6. QED BY <1>1, <1>2, <2>1, <2>2, <2>3, <2>4, <2>5 DEF Shape
  <1>11. Tokens'
    <2>1. \A p \in Node : mut[p] # Idle => mut[p].token \in Nat /\ mut[p].token <= row.max_token
      BY <1>1, MutLemma DEF Tokens
    <2>2. \A p \in Node : mut'[p] # Idle => mut'[p].token <= row'.max_token
      BY <1>1, <1>3, <1>5, <1>7, <2>1 DEF Types
    <2>3. \A p \in Node : mut'[p] # Idle /\ row'.owner # p => mut'[p].token # row'.token
      BY <1>3, <1>7
    <2>4. \A p, q \in Node : mut'[p] # Idle /\ mut'[q] # Idle /\ p # q => mut'[p].token # mut'[q].token
      <3> SUFFICES ASSUME NEW p \in Node, NEW q \in Node, mut'[p] # Idle, mut'[q] # Idle, p # q
                   PROVE  mut'[p].token # mut'[q].token
        OBVIOUS
      <3>1. CASE p = n
        BY <1>3, <1>5, <1>7, <3>1
      <3>2. CASE q = n
        BY <1>3, <1>5, <1>7, <3>2
      <3>3. CASE p # n /\ q # n
        BY <1>1, <1>7, <3>3 DEF Tokens
      <3>4. QED BY <3>1, <3>2, <3>3
    <2>5. QED BY <1>3, <2>2, <2>3, <2>4 DEF Tokens
  <1>12. Stamps'
    <2>1. Versions' \subseteq Versions /\ \A t, k : Within(t, k) => Within(t, k)'
      BY <1>1, <1>9, StillStamps
    <2>2. PICK t \in Nat, k \in Nat : t = row'.token /\ k = seq[n]
      BY <1>1, <1>3, CopyLemma
    <2>3. Within(t, k)'
      BY <1>3, <2>1, <2>2
    <2>4. Version(copy[n]) <= Stamped(t, k)
      <3>1. Version(copy[n]) \in Versions /\ Version(copy[n]) \in Nat
        BY <1>1, CopyLemma DEF Versions
      <3>2. Version(copy[n]) < Stamped(t + 1, 0) /\ Within(t, k)
        BY <1>3, <2>2, <3>1
      <3>3. Stamped(t + 1, 0) \in Nat
        <4>1. t + 1 \in Nat /\ 0 \in Nat
          BY <2>2
        <4>2. QED BY <4>1, StampedLemma
      <3>4. QED BY <3>1, <3>2, <3>3 DEF Within
    <2>5. \A p \in Node \ {n} : mut'[p] # Idle =>
             Within(mut[p].token, seq[p])' /\ Version(copy'[p]) <= Stamped(mut'[p].token, seq'[p])
      <3> SUFFICES ASSUME NEW p \in Node \ {n}, mut'[p] # Idle
                   PROVE  Within(mut[p].token, seq[p])' /\ Version(copy'[p]) <= Stamped(mut'[p].token, seq'[p])
        OBVIOUS
      <3>1. PICK a, b : a = mut[p].token /\ b = seq[p]
        OBVIOUS
      <3>2. Within(a, b)' /\ Version(copy[p]) <= Stamped(a, b)
        BY <1>1, <1>7, <2>1, <3>1 DEF Stamps
      <3>3. QED BY <1>2, <1>7, <3>1, <3>2 DEF Within
    <2>6. Within(row.token, seq[n])' /\ Within(mut[n].token, seq[n])'
      BY <1>2, <1>5, <1>7, <2>2, <2>3 DEF Within
    <2>7. Version(copy'[n]) <= Stamped(mut'[n].token, seq'[n])
      BY <1>2, <1>5, <1>7, <2>2, <2>4
    <2>8. \A v \in Versions' : v < Stamped(row'.max_token + 1, 0)
      BY <1>3, <2>1
    <2>9. \A p \in Node : row'.owner = p => p = n
      BY <1>3
    <2>10. QED BY <2>5, <2>6, <2>7, <2>8, <2>9 DEF Stamps
  <1>13. Sends'
    <2>1. \A p \in Node : mut'[p].at = "send" => mut'[p] = mut[p]
      BY <1>5, <1>7
    <2>2. QED BY <1>1, <1>2, <1>3, <1>8, <1>9, <2>1, StillSends
  <1>14. Acks'
    BY <1>1, <1>2, <1>9, StillSettled DEF Acks
  <1>15. QED BY <1>8, <1>10, <1>11, <1>12, <1>13, <1>14 DEF Body

\* The leader stops waiting for a call that failed or timed out.
LEMMA GivenUp ==
  ASSUME Body, conf' = conf, NEW n \in Node, mut[n].at = "send", mut[n].wait # None,
         mut'[n] = [mut[n] EXCEPT !.wait = None]
  PROVE  /\ Pending(n)' \subseteq Pending(n)
         /\ mut'[n].acks + Cardinality(Pending(n)') <= Cardinality(conf.nodes)
         /\ Doomed(n)'
  <1> DEFINE w == mut[n].wait
             P == Pending(n)
             Q == Pending(n)'
  <1>1. Types /\ Shape /\ Sends
    BY DEF Body
  <1>2. /\ mut[n] \in [at : {"send"}, token : Nat, op : 1..MaxOps, rec : Record, todo : SUBSET Node,
                       wait : Node \cup {None}, acks : Nat]
        /\ P \subseteq conf.nodes \ {n} /\ w \notin mut[n].todo
        /\ mut[n].acks + Cardinality(P) <= Cardinality(conf.nodes)
    BY <1>1, MutLemma DEF Shape
  <1>3. mut'[n].todo = mut[n].todo /\ mut'[n].wait = None /\ mut'[n].acks = mut[n].acks
        /\ mut'[n].token = mut[n].token /\ mut'[n].rec = mut[n].rec
    BY <1>2
  <1>4. Q = P \ {w} /\ w \in P
    BY <1>2, <1>3 DEF Pending
  <1>5. P \in SUBSET conf.nodes /\ Q \in SUBSET conf.nodes
    BY <1>2, <1>4
  <1> HIDE DEF w, P, Q
  <1>6. IsFiniteSet(P) /\ Cardinality(P) \in Nat /\ Cardinality(Q) \in Nat /\ Cardinality(conf.nodes) \in Nat
    BY <1>1, <1>5, NodesLemma
  <1>7. Cardinality(Q) = Cardinality(P) - 1
    BY <1>4, <1>6, FS_RemoveElement
  <1>8. mut[n].acks + Cardinality(Q) < Cardinality(conf.nodes) /\ mut[n].acks \in Nat
    BY <1>2, <1>6, <1>7
  <1>9. Doomed(n)'
    BY <1>3, <1>8 DEF Doomed, Q
  <1>10. QED BY <1>3, <1>4, <1>6, <1>8, <1>9 DEF P, Q

\* Steps of the lease row apart, this is all that happens to a mutation
\* where no record changes.
Same(p) == mut'[p] = mut[p] /\ seq'[p] = seq[p]
Ended(p) == mut'[p] = Idle /\ (seq'[p] = seq[p] \/ (row.owner # p /\ seq'[p] = 0))
Unwaited(p) ==
  /\ mut[p].at = "send" /\ mut[p].wait # None
  /\ mut'[p] = [mut[p] EXCEPT !.wait = None] /\ seq'[p] = seq[p]

LEMMA QuietStep ==
  ASSUME Body, Types', Still, row' = row, nops' = nops,
         \A p \in Node : Same(p) \/ Ended(p) \/ Unwaited(p),
         \A p \in Node : serving'[p] # None => serving'[p].to = p /\ mut'[p] = Idle,
         \A n, p \in Node :
           mut[n].at = "send" /\ row.max_token > mut[n].token /\ serving'[p] # None
             /\ serving'[p].from = n /\ serving'[p].rec = mut[n].rec => serving'[p] = serving[p],
         Acks'
  PROVE  Body'
  <1>1. Types /\ Shape /\ Tokens /\ Stamps /\ Sends /\ conf' = conf /\ copy' = copy /\ Calls' \subseteq Calls
    BY DEF Body, Still
  <1>2. ASSUME NEW p \in Node, Unwaited(p)
        PROVE  /\ mut'[p] # Idle /\ mut'[p].at = "send" /\ mut'[p].token = mut[p].token /\ mut'[p].op = mut[p].op
               /\ mut'[p].rec = mut[p].rec /\ mut'[p].todo = mut[p].todo /\ mut'[p].wait = None
               /\ mut[p] # Idle /\ seq'[p] = seq[p]
               /\ Pending(p)' \subseteq Pending(p)
               /\ mut'[p].acks + Cardinality(Pending(p)') <= Cardinality(conf.nodes)
               /\ Doomed(p)'
    <2>1. mut[p] \in [at : {"send"}, token : Nat, op : 1..MaxOps, rec : Record, todo : SUBSET Node,
                      wait : Node \cup {None}, acks : Nat]
      BY <1>1, <1>2, MutLemma DEF Unwaited
    <2>2. /\ mut'[p].at = "send" /\ mut'[p].token = mut[p].token /\ mut'[p].op = mut[p].op
          /\ mut'[p].rec = mut[p].rec /\ mut'[p].todo = mut[p].todo /\ mut'[p].wait = None
          /\ seq'[p] = seq[p]
      BY <1>2, <2>1 DEF Unwaited
    <2>3. /\ Pending(p)' \subseteq Pending(p)
          /\ mut'[p].acks + Cardinality(Pending(p)') <= Cardinality(conf.nodes)
          /\ Doomed(p)'
      BY <1>1, <1>2, GivenUp DEF Unwaited
    <2>4. QED BY <1>2, <2>2, <2>3 DEF Idle, Unwaited
  <1>3. \A p \in Node : mut'[p] # Idle =>
          /\ mut[p] # Idle /\ mut'[p].at = mut[p].at /\ mut'[p].token = mut[p].token /\ seq'[p] = seq[p]
          /\ Same(p) \/ Unwaited(p)
    BY <1>2 DEF Same, Ended, Unwaited
  <1>4. \A p \in Node : seq'[p] = seq[p] \/ (row.owner # p /\ seq'[p] = 0 /\ mut'[p] = Idle)
    BY <1>2 DEF Same, Ended, Unwaited
  <1>5. Shape'
    <2>1. \A m \in Calls' : m.from \in conf'.nodes /\ m.to \in conf'.nodes /\ m.from # m.to
      BY <1>1 DEF Shape
    <2>2. \A p \in Node : mut'[p] # Idle => p \in conf'.nodes /\ serving'[p] = None
      BY <1>1, <1>3 DEF Shape
    <2>3. \A p \in Node : seq'[p] + (IF mut'[p].at \in {"local", "stamp"} THEN 1 ELSE 0) <= nops'
      <3> SUFFICES ASSUME NEW p \in Node
                   PROVE  seq'[p] + (IF mut'[p].at \in {"local", "stamp"} THEN 1 ELSE 0) <= nops'
        OBVIOUS
      <3>1. seq[p] \in Nat /\ nops \in Nat
        BY <1>1, ReplicaAssumption DEF Types
      <3>2. seq[p] + (IF mut[p].at \in {"local", "stamp"} THEN 1 ELSE 0) <= nops
        BY <1>1 DEF Shape
      <3>3. CASE mut'[p] # Idle
        BY <1>3, <3>1, <3>2, <3>3
      <3>4. CASE mut'[p] = Idle
        BY <1>4, <3>1, <3>2, <3>4 DEF Idle
      <3>5. QED BY <3>3, <3>4
    <2>4. \A p \in Node : mut'[p].at = "stamp" => copy'[p] # NoRec /\ mut'[p].op \in copy'[p].ops
      BY <1>1, <1>2, <1>3 DEF Shape, Same, Idle
    <2>5. ASSUME NEW p \in Node, mut'[p].at = "send"
          PROVE  /\ copy'[p] = mut'[p].rec /\ mut'[p].op \in mut'[p].rec.ops
                 /\ mut'[p].rec.v > Stamped(mut'[p].token, 0)
                 /\ Pending(p)' \subseteq conf'.nodes \ {p} /\ mut'[p].wait \notin mut'[p].todo
                 /\ mut'[p].acks + Cardinality(Pending(p)') <= Cardinality(conf'.nodes)
                 /\ \A m \in Calls' : m.from = p /\ m.rec = mut'[p].rec => m.token = mut'[p].token
      <3>1. mut'[p] # Idle /\ mut[p].at = "send"
        BY <1>3, <2>5 DEF Idle
      <3>2. CASE Same(p)
        <4>1. Pending(p)' = Pending(p)
          BY <3>2 DEF Pending, Same
        <4>2. QED BY <1>1, <3>1, <3>2, <4>1 DEF Shape, Same
      <3>3. CASE Unwaited(p)
        <4>1. mut'[p].todo \subseteq Node
          BY <1>1, <1>2, <3>1, <3>3, MutLemma
        <4>2. None \notin Node
          BY ReplicaAssumption
        <4>3. QED BY <1>1, <1>2, <3>1, <3>3, <4>1, <4>2 DEF Shape
      <3>4. QED BY <1>3, <3>1, <3>2, <3>3
    <2>6. QED BY <2>1, <2>2, <2>3, <2>4, <2>5 DEF Shape
  <1>6. Tokens'
    BY <1>1, <1>3 DEF Tokens
  <1>7. Stamps'
    <2>1. Versions' \subseteq Versions /\ \A t, k : Within(t, k) => Within(t, k)'
      BY <1>1, StillStamps
    <2>2. ASSUME NEW p \in Node, mut'[p] # Idle
          PROVE  Within(mut[p].token, seq[p])' /\ Version(copy'[p]) <= Stamped(mut'[p].token, seq'[p])
      <3>1. PICK a, b : a = mut[p].token /\ b = seq[p]
        OBVIOUS
      <3>2. Within(a, b)' /\ Version(copy[p]) <= Stamped(a, b)
        BY <1>1, <1>3, <2>1, <2>2, <3>1 DEF Stamps
      <3>3. QED BY <1>1, <1>3, <2>2, <3>1, <3>2 DEF Within
    <2>3. ASSUME NEW p \in Node, row'.owner = p PROVE Within(row.token, seq[p])'
      <3>1. PICK a, b : a = row.token /\ b = seq[p]
        OBVIOUS
      <3>2. Within(a, b)'
        BY <1>1, <2>1, <2>3, <3>1 DEF Stamps
      <3>3. row'.token = a /\ seq'[p] = b
        BY <1>4, <2>3, <3>1
      <3>4. QED BY <3>2, <3>3 DEF Within
    <2>4. QED BY <1>1, <2>1, <2>2, <2>3 DEF Stamps
  <1>8. Sends'
    <2> SUFFICES ASSUME NEW n \in Node, mut'[n].at = "send",
                        NEW op \in {mut'[n].op}, NEW v \in {mut'[n].rec.v}
                 PROVE  Doomed(n)' \/ (Covers(op, v)' /\ mut'[n].acks <= Cardinality(Answered(n, v)'))
      BY DEF Sends
    <2>1. mut'[n] # Idle /\ mut[n].at = "send"
      BY <1>3 DEF Idle
    <2>2. CASE Unwaited(n)
      BY <1>2, <2>2
    <2>3. CASE Same(n)
      <3>1. mut'[n] = mut[n] /\ op \in {mut[n].op} /\ v \in {mut[n].rec.v}
        BY <2>3 DEF Same
      <3>2. Doomed(n) \/ (Covers(op, v) /\ mut[n].acks <= Cardinality(Answered(n, v)))
        BY <1>1, <2>1, <3>1 DEF Sends
      <3>3. Covers(op, v) => Covers(op, v)'
        BY <1>1, StillCovers
      <3>4. v \in Nat /\ Pending(n) \subseteq Node
        <4>1. mut[n].rec \in Record /\ mut[n].todo \subseteq Node /\ mut[n].wait \in Node \cup {None}
          BY <1>1, <2>1, MutLemma
        <4>2. QED BY <3>1, <4>1 DEF Record, Pending
      <3>5. \A p \in conf.nodes : Standing(p)' >= Standing(p)
        BY <1>1, StandingIsNat, NodesLemma DEF Still
      <3>6. row'.max_token >= row.max_token
        BY <1>1 DEF Types
      <3>7. \A p \in Pending(n) :
              row.max_token > mut[n].token /\ serving'[p] # None /\ serving'[p].from = n
                /\ serving'[p].rec = mut[n].rec => serving'[p] = serving[p]
        BY <2>1, <3>4
      <3>8. QED BY <1>1, <2>1, <3>1, <3>2, <3>3, <3>4, <3>5, <3>6, <3>7, CarrySend
    <2>4. QED BY <1>3, <2>1, <2>2, <2>3
  <1>9. QED BY <1>5, <1>6, <1>7, <1>8 DEF Body

LEMMA LeaderStep == ASSUME Body, NEW n \in conf.nodes, is_leader(n) PROVE Body'
  <1>1. Types /\ Shape /\ Tokens /\ Stamps /\ Sends /\ Acks /\ n \in Node
    BY NodesLemma DEF Body
  <1>2. /\ row' = SqlAcquire(row, n, clock, Ttl)
        /\ UNCHANGED <<conf, clock, copy, seq, mut, net, serving, pulled, nops, crashes, acked, reused>>
    BY DEF is_leader
  <1>3. /\ row'.owner = n /\ row'.token = row'.max_token /\ row'.max_token \in Nat
        /\ row'.max_token >= row.max_token
        /\ \A p \in Node \ {n} : mut[p] # Idle => mut[p].token # row'.token
        /\ \A v \in Versions : v < Stamped(row'.max_token + 1, 0)
        /\ Within(row'.token, seq[n])
    BY <1>1, <1>2, AcquireLemma
  <1>4. Types'
    BY <1>1, <1>2, <1>3 DEF Types
  <1>5. Calls' = Calls /\ Versions' = Versions /\ \A p \in Node : Pending(p)' = Pending(p)
    BY <1>2 DEF Calls, Served, Versions, Pending
  <1>6. Still
    BY <1>2, <1>5 DEF Still, Standing
  <1>7. Shape'
    BY <1>1, <1>2, <1>5 DEF Shape
  <1>8. Tokens'
    <2>1. \A p \in Node : mut[p] # Idle => mut[p].token \in Nat /\ mut[p].token <= row.max_token
      BY <1>1, MutLemma DEF Tokens
    <2>2. \A p \in Node : mut'[p] # Idle => mut'[p].token <= row'.max_token
      BY <1>1, <1>2, <1>3, <2>1 DEF Types
    <2>3. QED BY <1>1, <1>2, <1>3, <2>2 DEF Tokens
  <1>9. Stamps'
    <2>1. \A t, k : Within(t, k) => Within(t, k)'
      BY <1>1, <1>6, StillStamps
    <2>2. ASSUME NEW p \in Node, row'.owner = p PROVE Within(row.token, seq[p])'
      <3>1. PICK a, b : a = row'.token /\ b = seq[n]
        OBVIOUS
      <3>2. Within(a, b)' /\ row'.token = a /\ seq'[p] = b
        BY <1>2, <1>3, <2>1, <2>2, <3>1
      <3>3. QED BY <3>2 DEF Within
    <2>3. ASSUME NEW p \in Node, mut'[p] # Idle
          PROVE  Within(mut[p].token, seq[p])' /\ Version(copy'[p]) <= Stamped(mut'[p].token, seq'[p])
      <3>1. PICK a, b : a = mut[p].token /\ b = seq[p]
        OBVIOUS
      <3>2. Within(a, b)' /\ Version(copy[p]) <= Stamped(a, b)
        BY <1>1, <1>2, <2>1, <2>3, <3>1 DEF Stamps
      <3>3. QED BY <1>2, <3>1, <3>2 DEF Within
    <2>4. QED BY <1>3, <1>5, <2>2, <2>3 DEF Stamps
  <1>10. Sends'
    BY <1>1, <1>2, <1>3, <1>4, <1>6, StillSends
  <1>11. Acks'
    BY <1>1, <1>2, <1>6, StillSettled DEF Acks
  <1>12. QED BY <1>4, <1>7, <1>8, <1>9, <1>10, <1>11 DEF Body

LEMMA TickStep == ASSUME Body, Tick \/ UNCHANGED vars PROVE Body'
  <1>1. UNCHANGED <<conf, row, copy, seq, mut, net, serving, pulled, nops, acked>>
    BY DEF Tick, vars
  <1>2. Types /\ Shape /\ Acks
    BY DEF Body
  <1>3. Types' /\ Calls' = Calls
    BY <1>1, <1>2 DEF Types, Calls, Served
  <1>4. Still
    BY <1>1, <1>3 DEF Still, Standing
  <1>5. Acks'
    BY <1>1, <1>2, <1>4, StillSettled DEF Acks
  <1>6. \A p \in Node : serving'[p] # None => serving'[p].to = p /\ mut'[p] = Idle
    BY <1>1, <1>2 DEF Shape
  <1>7. QED BY <1>1, <1>3, <1>4, <1>5, <1>6, QuietStep DEF Same

LEMMA GiveUpStep == ASSUME Body, NEW n \in conf.nodes, GiveUp(n) PROVE Body'
  <1>1. /\ mut[n].at = "send" /\ mut[n].wait # None /\ mut' = [mut EXCEPT ![n].wait = None]
        /\ UNCHANGED <<conf, row, copy, seq, net, serving, pulled, nops, acked>>
    BY DEF GiveUp
  <1>2. Types /\ Shape /\ Acks /\ n \in Node
    BY NodesLemma DEF Body
  <1> DEFINE M == [mut[n] EXCEPT !.wait = None]
  <1>3. M \in Mutation /\ M.at = "send" /\ M # Idle
    <2>1. mut[n] \in [at : {"send"}, token : Nat, op : 1..MaxOps, rec : Record, todo : SUBSET Node,
                      wait : Node \cup {None}, acks : Nat]
      BY <1>1, <1>2, MutLemma
    <2>2. QED BY <2>1 DEF Mutation, Idle
  <1>4. mut' = [mut EXCEPT ![n] = M]
    BY <1>1
  <1>5. mut'[n] = M /\ (\A p \in Node \ {n} : mut'[p] = mut[p]) /\ mut' \in [Node -> Mutation]
    BY <1>2, <1>3, <1>4 DEF Types
  <1>6. \A p \in Node : Same(p) \/ Unwaited(p)
    BY <1>1, <1>2, <1>5 DEF Same, Unwaited
  <1> HIDE DEF M
  <1>7. Types' /\ Calls' = Calls
    BY <1>1, <1>2, <1>5 DEF Types, Calls, Served
  <1>8. \A p \in Node : Standing(p)' = Standing(p)
    BY <1>1, <1>3, <1>5 DEF Standing
  <1>9. Still
    BY <1>1, <1>7, <1>8 DEF Still
  <1>10. Acks'
    BY <1>1, <1>2, <1>9, StillSettled DEF Acks
  <1>11. \A p \in Node : serving'[p] # None => serving'[p].to = p /\ mut'[p] = Idle
    <2>1. mut[n] # Idle
      BY <1>1 DEF Idle
    <2>2. QED BY <1>1, <1>2, <1>5, <2>1 DEF Shape
  <1>12. QED BY <1>1, <1>6, <1>7, <1>9, <1>10, <1>11, QuietStep

\* A mutation ends: answered, rejected by a follower's fence, or killed.
LEMMA EndedLemma ==
  ASSUME Types, NEW n \in Node, mut[n].at # "stamp", mut' = [mut EXCEPT ![n] = Idle],
         copy' = copy, \A p \in Node \ {n} : seq'[p] = seq[p]
  PROVE  /\ mut' \in [Node -> Mutation] /\ mut'[n] = Idle /\ \A p \in Node \ {n} : mut'[p] = mut[p]
         /\ \A p \in Node : Standing(p)' = Standing(p)
  <1>1. /\ mut' \in [Node -> Mutation] /\ mut'[n] = Idle /\ \A p \in Node \ {n} : mut'[p] = mut[p]
    BY DEF Types, Mutation
  <1>2. \A p \in Node : Standing(p)' = Standing(p)
    BY <1>1 DEF Standing, Idle
  <1>3. QED BY <1>1, <1>2

LEMMA AnswerStep == ASSUME Body, Strict, NEW n \in conf.nodes, Answer(n) PROVE Body'
  <1>1. /\ mut[n].at = "send" /\ mut[n].wait = None /\ mut[n].todo = {}
        /\ acked' = IF mut[n].acks < conf.quorum THEN acked ELSE acked \cup {mut[n].op}
        /\ mut' = [mut EXCEPT ![n] = Idle]
        /\ UNCHANGED <<conf, row, copy, seq, net, serving, pulled, nops>>
    BY DEF Answer
  <1>2. Types /\ Shape /\ Sends /\ Acks /\ n \in Node
    BY NodesLemma DEF Body
  <1>3. /\ mut' \in [Node -> Mutation] /\ mut'[n] = Idle /\ \A p \in Node \ {n} : mut'[p] = mut[p]
        /\ \A p \in Node : Standing(p)' = Standing(p)
    BY <1>1, <1>2, EndedLemma
  <1>4. Types' /\ Calls' = Calls
    BY <1>1, <1>2, <1>3 DEF Types, Calls, Served
  <1>5. Still
    BY <1>1, <1>3, <1>4 DEF Still
  \* All have answered, so all stand at its version or above.
  <1>6. mut[n].acks >= conf.quorum => Settled(mut[n].op)
    <2> SUFFICES ASSUME mut[n].acks >= conf.quorum PROVE Settled(mut[n].op)
      OBVIOUS
    <2> DEFINE v == mut[n].rec.v
               D == conf.nodes
    <2>1. Pending(n) = {} /\ Cardinality(Pending(n)) = 0
      BY <1>1, FS_EmptySet DEF Pending
    <2>2. mut[n].acks \in Nat /\ v \in Nat \ {0} /\ Cardinality(D) \in Nat /\ conf.quorum = Cardinality(D)
      <3>1. mut[n].acks \in Nat /\ mut[n].rec \in Record
        BY <1>1, <1>2, MutLemma
      <3>2. v > 0 /\ v \in Nat
        <4>1. v > Stamped(mut[n].token, 0) /\ v \in Nat
          BY <1>1, <1>2, <3>1 DEF Shape, Record
        <4>2. mut[n].token \in Nat /\ 0 \in Nat
          BY <1>1, <1>2, MutLemma
        <4>3. Stamped(mut[n].token, 0) \in Nat
          BY <4>2, StampedLemma
        <4>4. QED BY <4>1, <4>3
      <3>3. QED BY <1>2, <3>1, <3>2, NodesLemma DEF Strict
    <2>3. ~Doomed(n)
      BY <2>1, <2>2 DEF Doomed
    <2>4. Covers(mut[n].op, v) /\ mut[n].acks <= Cardinality(Answered(n, v))
      BY <1>1, <1>2, <2>3 DEF Sends
    <2>5. Answered(n, v) \in SUBSET D
      BY DEF Answered
    <2>6. IsFiniteSet(D) /\ Cardinality(Answered(n, v)) \in Nat /\ Cardinality(Answered(n, v)) <= Cardinality(D)
      BY <1>2, <2>5, NodesLemma
    <2>7. Cardinality(Answered(n, v)) = Cardinality(D)
      BY <2>2, <2>4, <2>6
    <2>8. Answered(n, v) = D
      BY <2>5, <2>6, <2>7, FS_Subset
    <2>9. \A p \in D : Standing(p) >= v
      BY <2>8 DEF Answered
    <2>10. QED BY <2>2, <2>4, <2>9 DEF Settled
  <1>7. Acks'
    <2>1. \A op \in acked' : Settled(op)
      <3>1. mut[n].acks \in Nat /\ conf.quorum \in Nat
        BY <1>1, <1>2, MutLemma, NodesLemma DEF Strict
      <3>2. acked' = acked \/ (mut[n].acks >= conf.quorum /\ acked' = acked \cup {mut[n].op})
        BY <1>1, <3>1
      <3>3. QED BY <1>2, <1>6, <3>2 DEF Acks
    <2>2. QED BY <1>2, <1>5, <2>1, StillSettled DEF Acks
  <1>8. \A p \in Node : Same(p) \/ Ended(p)
    BY <1>1, <1>3 DEF Same, Ended
  <1>9. \A p \in Node : serving'[p] # None => serving'[p].to = p /\ mut'[p] = Idle
    BY <1>1, <1>2, <1>3 DEF Shape
  <1>10. QED BY <1>1, <1>4, <1>5, <1>7, <1>8, <1>9, QuietStep

LEMMA RestartStep == ASSUME Body, reused' = {}, NEW n \in conf.nodes, Restart(n) PROVE Body'
  <1>1. /\ seq' = [seq EXCEPT ![n] = 0] /\ mut' = [mut EXCEPT ![n] = Idle]
        /\ serving' = [serving EXCEPT ![n] = None] /\ pulled' = [pulled EXCEPT ![n] = None]
        /\ UNCHANGED <<conf, row, copy, net, nops, acked>>
    BY DEF Restart
  <1>2. row.owner # n /\ mut[n].at # "stamp"
    BY DEF Restart
  <1>3. Types /\ Shape /\ Acks /\ n \in Node
    BY NodesLemma DEF Body
  <1>4. /\ seq' \in [Node -> Nat] /\ seq'[n] = 0 /\ \A p \in Node \ {n} : seq'[p] = seq[p]
    BY <1>1, <1>3 DEF Types
  <1>5. /\ mut' \in [Node -> Mutation] /\ mut'[n] = Idle /\ \A p \in Node \ {n} : mut'[p] = mut[p]
        /\ \A p \in Node : Standing(p)' = Standing(p)
    BY <1>1, <1>2, <1>3, <1>4, EndedLemma
  <1>6. /\ serving' \in [Node -> Call \cup {None}] /\ serving'[n] = None
        /\ \A p \in Node \ {n} : serving'[p] = serving[p]
    BY <1>1, <1>3 DEF Types
  <1>7. pulled' \in [Node -> Record \cup {None}]
    BY <1>1, <1>3 DEF Types
  <1>8. Types'
    BY <1>1, <1>3, <1>4, <1>5, <1>6, <1>7 DEF Types
  <1>9. Calls' \subseteq Calls
    BY <1>1, <1>6 DEF Calls, Served
  <1>10. Still
    BY <1>1, <1>5, <1>9 DEF Still
  <1>11. Acks'
    BY <1>1, <1>3, <1>10, StillSettled DEF Acks
  <1>12. \A p \in Node : Same(p) \/ Ended(p)
    BY <1>2, <1>4, <1>5 DEF Same, Ended
  <1>13. \A p \in Node : serving'[p] # None => serving'[p].to = p /\ mut'[p] = Idle
    BY <1>3, <1>5, <1>6 DEF Shape
  <1>14. \A p \in Node : serving'[p] # None => serving'[p] = serving[p]
    BY <1>6
  <1>15. QED BY <1>1, <1>8, <1>10, <1>11, <1>12, <1>13, <1>14, QuietStep

LEMMA FenceStep == ASSUME Body, NEW m \in net, Fence(m) PROVE Body'
  <1>1. Types /\ Shape /\ Acks
    BY DEF Body
  <1>2. /\ m \in Calls /\ m \in Call /\ m # None /\ m.to \in Node /\ m.from \in Node /\ m.token \in Nat
    BY <1>1, CallsLemma
  <1>3. /\ mut[m.to] = Idle /\ serving[m.to] = None /\ net' = net \ {m}
        /\ UNCHANGED <<conf, row, copy, seq, pulled, nops, acked>>
    BY DEF Fence, Locked
  <1>4. CASE m.token < row.max_token /\ Awaited(m)
    <2>1. serving' = serving /\ mut' = [mut EXCEPT ![m.from] = Idle] /\ mut[m.from].at = "send"
      BY <1>4 DEF Fence, Awaited
    <2>2. /\ mut' \in [Node -> Mutation] /\ mut'[m.from] = Idle /\ \A p \in Node \ {m.from} : mut'[p] = mut[p]
          /\ \A p \in Node : Standing(p)' = Standing(p)
      BY <1>1, <1>2, <1>3, <2>1, EndedLemma
    <2>3. Types' /\ Calls' \subseteq Calls
      BY <1>1, <1>3, <2>1, <2>2 DEF Types, Calls, Served
    <2>4. Still
      BY <1>3, <2>2, <2>3 DEF Still
    <2>5. Acks'
      BY <1>1, <1>3, <2>4, StillSettled DEF Acks
    <2>6. \A p \in Node : Same(p) \/ Ended(p)
      BY <1>3, <2>2 DEF Same, Ended
    <2>7. \A p \in Node : serving'[p] # None => serving'[p].to = p /\ mut'[p] = Idle
      BY <1>1, <2>1, <2>2 DEF Shape
    <2>8. QED BY <1>3, <2>1, <2>3, <2>4, <2>5, <2>6, <2>7, QuietStep
  <1>5. CASE m.token < row.max_token /\ ~Awaited(m)
    <2>1. serving' = serving /\ mut' = mut
      BY <1>5 DEF Fence
    <2>2. Types' /\ Calls' \subseteq Calls
      BY <1>1, <1>3, <2>1 DEF Types, Calls, Served
    <2>3. Still
      BY <1>3, <2>1, <2>2 DEF Still, Standing
    <2>4. Acks'
      BY <1>1, <1>3, <2>3, StillSettled DEF Acks
    <2>5. \A p \in Node : serving'[p] # None => serving'[p].to = p /\ mut'[p] = Idle
      BY <1>1, <2>1 DEF Shape
    <2>6. QED BY <1>3, <2>1, <2>2, <2>3, <2>4, <2>5, QuietStep DEF Same
  <1>6. CASE ~(m.token < row.max_token)
    <2>1. serving' = [serving EXCEPT ![m.to] = m] /\ mut' = mut
      BY <1>6 DEF Fence
    <2>2. /\ serving' \in [Node -> Call \cup {None}] /\ serving'[m.to] = m
          /\ \A p \in Node \ {m.to} : serving'[p] = serving[p]
      BY <1>1, <1>2, <2>1 DEF Types
    <2>3. Types'
      BY <1>1, <1>3, <2>1, <2>2 DEF Types
    <2>4. Calls' \subseteq Calls
      BY <1>2, <1>3, <2>2 DEF Calls, Served
    <2>5. Still
      BY <1>3, <2>1, <2>4 DEF Still, Standing
    <2>6. Acks'
      BY <1>1, <1>3, <2>5, StillSettled DEF Acks
    <2>7. \A p \in Node : serving'[p] # None => serving'[p].to = p /\ mut'[p] = Idle
      BY <1>1, <1>3, <2>1, <2>2 DEF Shape
    \* What gets past the fence is not of a token that is out of date.
    <2>8. ASSUME NEW n \in Node, NEW p \in Node, mut[n].at = "send", row.max_token > mut[n].token,
                 serving'[p] # None, serving'[p].from = n, serving'[p].rec = mut[n].rec
          PROVE  serving'[p] = serving[p]
      <3>1. CASE p = m.to
        <4>1. m.from = n /\ m.rec = mut[n].rec
          BY <2>2, <2>8, <3>1
        <4>2. m.token = mut[n].token
          BY <1>1, <1>2, <2>8, <4>1 DEF Shape
        <4>3. row.max_token \in Nat
          BY <1>1 DEF Types
        <4>4. FALSE
          BY <1>2, <1>6, <2>8, <4>2, <4>3
        <4>5. QED BY <4>4
      <3>2. CASE p # m.to
        BY <2>2, <3>2
      <3>3. QED BY <3>1, <3>2
    <2>9. QED BY <1>3, <2>1, <2>3, <2>5, <2>6, <2>7, <2>8, QuietStep DEF Same
  <1>7. QED BY <1>4, <1>5, <1>6

LEMMA SendStep ==
  ASSUME Body, NEW n \in conf.nodes, NEW p \in conf.nodes, Send(n, p) PROVE Body'
  <1> DEFINE c == [from |-> n, to |-> p, token |-> mut[n].token, rec |-> mut[n].rec]
             M == [mut[n] EXCEPT !.wait = p, !.todo = @ \ {p}]
  <1>1. /\ mut[n].at = "send" /\ mut[n].wait = None /\ p \in mut[n].todo
        /\ mut' = [mut EXCEPT ![n] = M] /\ net' = net \cup {c}
        /\ UNCHANGED <<conf, row, copy, seq, serving, pulled, nops, acked>>
    BY DEF Send
  <1>2. Types /\ Shape /\ Tokens /\ Stamps /\ Sends /\ Acks /\ n \in Node /\ p \in Node
    BY NodesLemma DEF Body
  <1>3. /\ mut[n] \in [at : {"send"}, token : Nat, op : 1..MaxOps, rec : Record, todo : SUBSET Node,
                      wait : Node \cup {None}, acks : Nat]
        /\ mut[n] # Idle
    BY <1>1, <1>2, MutLemma
  <1>4. /\ M \in Mutation /\ M # Idle /\ M.at = "send" /\ M.token = mut[n].token /\ M.op = mut[n].op
        /\ M.rec = mut[n].rec /\ M.acks = mut[n].acks /\ M.wait = p /\ M.todo = mut[n].todo \ {p}
    BY <1>2, <1>3 DEF Mutation, Idle
  <1>5. c \in Call /\ c.from = n /\ c.to = p /\ c.token = mut[n].token /\ c.rec = mut[n].rec /\ c # None
    BY <1>2, <1>3, ReplicaAssumption DEF Call
  <1> HIDE DEF c, M
  <1>6. mut'[n] = M /\ (\A q \in Node \ {n} : mut'[q] = mut[q]) /\ mut' \in [Node -> Mutation]
    BY <1>1, <1>2, <1>4 DEF Types
  <1>7. Types'
    BY <1>1, <1>2, <1>5, <1>6 DEF Types
  <1>8. Calls' = Calls \cup {c}
    BY <1>1 DEF Calls, Served
  <1>9. \A q \in Node : Standing(q)' = Standing(q)
    BY <1>1, <1>4, <1>6 DEF Standing
  <1>10. Pending(n)' = Pending(n) /\ p # n
    <2>1. Pending(n)' = (mut[n].todo \ {p}) \cup ({p} \ {None})
      BY <1>4, <1>6 DEF Pending
    <2>2. Pending(n) = mut[n].todo /\ p # None
      BY <1>1, <1>2, ReplicaAssumption DEF Pending
    <2>3. mut[n].todo \subseteq conf.nodes \ {n}
      BY <1>1, <1>2, <2>2 DEF Shape
    <2>4. QED BY <1>1, <2>1, <2>2, <2>3
  <1>11. copy[n] = mut[n].rec /\ c.rec.v = Version(copy[n]) /\ Standing(n) = c.rec.v /\ Ops(copy[n]) = c.rec.ops
    <2>1. copy[n] = mut[n].rec /\ copy[n] # NoRec
      BY <1>1, <1>2, <1>3, ReplicaAssumption DEF Shape
    <2>2. QED BY <1>1, <1>5, <2>1 DEF Version, Ops, Standing
  <1>12. Versions' = Versions
    <2>1. Version(copy[n]) \in Versions
      BY <1>2 DEF Versions
    <2>2. QED BY <1>1, <1>8, <1>11, <2>1 DEF Versions
  <1>13. ASSUME NEW op, NEW v, Covers(op, v) PROVE Covers(op, v)'
    <2>1. \A q \in conf'.nodes : Standing(q)' >= v => op \in Ops(copy'[q])
      BY <1>1, <1>2, <1>9, <1>13, NodesLemma DEF Covers
    <2>2. \A m \in Calls' : m.rec.v >= v => op \in m.rec.ops
      BY <1>8, <1>11, <1>13 DEF Covers
    <2>3. QED BY <2>1, <2>2 DEF Covers
  <1>14. \A q \in Node : mut'[q] # Idle => mut[q] # Idle /\ mut'[q].at = mut[q].at /\ mut'[q].token = mut[q].token
    BY <1>3, <1>4, <1>6
  <1>15. Shape'
    <2>1. \A m \in Calls' : m.from \in conf'.nodes /\ m.to \in conf'.nodes /\ m.from # m.to
      BY <1>1, <1>2, <1>5, <1>8, <1>10 DEF Shape
    <2>2. \A q \in Node : mut'[q] # Idle => q \in conf'.nodes /\ serving'[q] = None
      BY <1>1, <1>2, <1>14 DEF Shape
    <2>3. \A q \in Node : mut'[q].at = mut[q].at
      BY <1>1, <1>4, <1>6
    <2>4. \A q \in Node : seq'[q] + (IF mut'[q].at \in {"local", "stamp"} THEN 1 ELSE 0) <= nops'
      BY <1>1, <1>2, <2>3 DEF Shape
    <2>5. \A q \in Node : mut'[q].at = "stamp" => copy'[q] # NoRec /\ mut'[q].op \in copy'[q].ops
      BY <1>1, <1>2, <1>4, <1>6 DEF Shape
    <2>6. ASSUME NEW q \in Node, mut'[q].at = "send"
          PROVE  /\ copy'[q] = mut'[q].rec /\ mut'[q].op \in mut'[q].rec.ops
                 /\ mut'[q].rec.v > Stamped(mut'[q].token, 0)
                 /\ Pending(q)' \subseteq conf'.nodes \ {q} /\ mut'[q].wait \notin mut'[q].todo
                 /\ mut'[q].acks + Cardinality(Pending(q)') <= Cardinality(conf'.nodes)
                 /\ \A m \in Calls' : m.from = q /\ m.rec = mut'[q].rec => m.token = mut'[q].token
      <3>1. CASE q = n
        BY <1>1, <1>2, <1>4, <1>5, <1>6, <1>8, <1>10, <3>1 DEF Shape
      <3>2. CASE q # n
        <4>1. mut'[q] = mut[q] /\ Pending(q)' = Pending(q)
          BY <1>6, <3>2 DEF Pending
        <4>2. QED BY <1>1, <1>2, <1>5, <1>8, <2>6, <3>2, <4>1 DEF Shape
      <3>3. QED BY <3>1, <3>2
    <2>7. \A q \in Node : serving'[q] # None => serving'[q].to = q
      BY <1>1, <1>2 DEF Shape
    <2>8. QED BY <2>1, <2>2, <2>4, <2>5, <2>6, <2>7 DEF Shape
  <1>16. Tokens'
    BY <1>1, <1>2, <1>14 DEF Tokens
  <1>17. Stamps'
    BY <1>1, <1>2, <1>12, <1>14 DEF Stamps, Within
  <1>18. Sends'
    <2> SUFFICES ASSUME NEW q \in Node, mut'[q].at = "send",
                        NEW op \in {mut'[q].op}, NEW v \in {mut'[q].rec.v}
                 PROVE  Doomed(q)' \/ (Covers(op, v)' /\ mut'[q].acks <= Cardinality(Answered(q, v)'))
      BY DEF Sends
    <2>1. /\ mut[q].at = "send" /\ op \in {mut[q].op} /\ v \in {mut[q].rec.v}
          /\ mut'[q].token = mut[q].token /\ mut'[q].rec = mut[q].rec /\ mut'[q].acks = mut[q].acks
          /\ Pending(q)' = Pending(q)
      BY <1>1, <1>4, <1>6, <1>10 DEF Pending
    <2>2. Doomed(q) \/ (Covers(op, v) /\ mut[q].acks <= Cardinality(Answered(q, v)))
      BY <1>2, <2>1 DEF Sends
    <2>3. Doomed(q)' <=> Doomed(q)
      BY <1>1, <2>1 DEF Doomed
    <2>4. Answered(q, v)' = Answered(q, v)
      BY <1>1, <1>2, <1>9, <2>1, NodesLemma DEF Answered
    <2>5. QED BY <1>13, <2>1, <2>2, <2>3, <2>4
  <1>19. Acks'
    <2>1. ASSUME NEW op \in acked PROVE Settled(op)'
      <3>1. PICK v \in Nat \ {0} : Covers(op, v) /\ \A q \in conf.nodes : Standing(q) >= v
        BY <1>2 DEF Acks, Settled
      <3>2. QED BY <1>1, <1>2, <1>9, <1>13, <3>1, NodesLemma DEF Settled
    <2>2. QED BY <1>1, <2>1 DEF Acks
  <1>20. QED BY <1>7, <1>15, <1>16, <1>17, <1>18, <1>19 DEF Body

-----------------------------------------------------------------------------
(* The steps that change a record: the leader's change and its stamp, and  *)
(* a follower that takes over what it is sent.                             *)

\* A node that stands below a version has not answered the call of it.
LEMMA MissingLemma ==
  ASSUME Types, NEW q \in Node, mut[q].at = "send", NEW v, NEW n \in conf.nodes,
         n \notin Pending(q), ~(Standing(n) >= v), Pending(q) \subseteq conf.nodes,
         mut[q].acks <= Cardinality(Answered(q, v))
  PROVE  Doomed(q)
  <1> DEFINE A == Answered(q, v)
             P == Pending(q)
             D == conf.nodes
  <1>1. A \in SUBSET (D \ {n}) /\ P \in SUBSET (D \ {n}) /\ A \cap P = {}
    BY DEF Answered
  <1>2. mut[q].acks \in Nat
    BY MutLemma
  <1>3. mut[q].acks <= Cardinality(A)
    OBVIOUS
  <1> HIDE DEF A, P, D
  <1>4. IsFiniteSet(D) /\ Cardinality(D) \in Nat /\ n \in D /\ \A S \in SUBSET D : IsFiniteSet(S) /\ Cardinality(S) \in Nat
    BY NodesLemma DEF D
  <1>5. Cardinality(D \ {n}) = Cardinality(D) - 1
    BY <1>4, FS_RemoveElement
  <1>6. IsFiniteSet(A) /\ IsFiniteSet(P) /\ Cardinality(A) \in Nat /\ Cardinality(P) \in Nat /\ IsFiniteSet(D \ {n})
    BY <1>1, <1>4
  <1>7. Cardinality(A \cup P) = Cardinality(A) + Cardinality(P)
    <2>1. Cardinality(A \cap P) = 0
      BY <1>1, FS_EmptySet
    <2>2. Cardinality(A \cup P) = Cardinality(A) + Cardinality(P) - Cardinality(A \cap P)
      BY <1>6, FS_Union
    <2>3. QED BY <1>6, <2>1, <2>2
  <1>8. Cardinality(A \cup P) <= Cardinality(D \ {n})
    <2>1. A \cup P \subseteq D \ {n}
      BY <1>1
    <2>2. QED BY <1>6, <2>1, FS_Subset
  <1>9. mut[q].acks + Cardinality(P) < Cardinality(D)
    BY <1>2, <1>3, <1>4, <1>5, <1>6, <1>7, <1>8
  <1>10. QED BY <1>9 DEF Doomed, D, P

\* The next version of a leader is of its token, and new.
LEMMA NextVersion ==
  ASSUME Body, NEW n \in conf.nodes, mut[n].at \in {"local", "stamp"}
  PROVE  LET t == mut[n].token
             V == Stamped(t, seq[n] + 1)
         IN  /\ t \in Nat /\ t <= row.max_token /\ V \in Nat /\ V > Stamped(t, 0)
             /\ Stamped(t, seq[n]) \in Nat /\ Stamped(t, seq[n]) < V
             /\ Stamped(t + 1, 0) \in Nat /\ V < Stamped(t + 1, 0)
             /\ \A q \in Node : mut[q].at = "send" /\ mut[q].rec.v <= V =>
                  mut[q].token < t /\ row.max_token > mut[q].token
  <1>1. Types /\ Shape /\ Tokens /\ n \in Node /\ mut[n] # Idle
    BY NodesLemma DEF Body, Idle
  <1>2. PICK t \in Nat : t = mut[n].token
    BY <1>1, MutLemma
  <1>3. PICK s \in Nat : s = seq[n]
    BY <1>1, CopyLemma
  <1>4. s + 1 \in Nat /\ s < s + 1 /\ 0 < s + 1 /\ s + 1 <= MaxOps /\ t + 1 \in Nat /\ t < t + 1
    <2>1. s + 1 <= nops /\ nops \in 0..MaxOps
      BY <1>1, <1>3 DEF Shape, Types
    <2>2. QED BY <2>1, ReplicaAssumption
  <1>5. Stamped(t, s + 1) \in Nat /\ Stamped(t, s) \in Nat /\ Stamped(t + 1, 0) \in Nat
    BY <1>4, StampedLemma
  <1>6. Stamped(t, s) < Stamped(t, s + 1) /\ Stamped(t, 0) < Stamped(t, s + 1) /\ Stamped(t, s + 1) < Stamped(t + 1, 0)
    BY <1>4, StampedLemma
  <1>7. t <= row.max_token /\ row.max_token \in Nat
    BY <1>1, <1>2 DEF Tokens, Types
  <1>8. ASSUME NEW q \in Node, mut[q].at = "send", mut[q].rec.v <= Stamped(t, s + 1)
        PROVE  mut[q].token < t /\ row.max_token > mut[q].token
    <2>1. mut[q].token \in Nat /\ mut[q].rec.v \in Nat /\ mut[q] # Idle
      <3>1. mut[q].token \in Nat /\ mut[q].rec \in Record /\ mut[q] # Idle
        BY <1>1, <1>8, MutLemma DEF Idle
      <3>2. QED BY <3>1 DEF Record
    <2>2. mut[q].token # t
      BY <1>1, <1>2, <1>8, <2>1 DEF Tokens
    <2>3. mut[q].rec.v > Stamped(mut[q].token, 0)
      BY <1>1, <1>8 DEF Shape
    <2>4. ASSUME mut[q].token > t PROVE FALSE
      <3>1. PICK b \in Nat : b = mut[q].token
        BY <2>1
      <3>2. Stamped(t, s + 1) < Stamped(b, 0) /\ Stamped(b, 0) \in Nat
        BY <1>4, <2>4, <3>1, StampedLemma
      <3>3. QED BY <1>5, <1>8, <2>1, <2>3, <3>1, <3>2
    <2>5. QED BY <1>7, <2>1, <2>2, <2>4
  <1>9. QED BY <1>2, <1>3, <1>5, <1>6, <1>7, <1>8

LEMMA ApplyLocallyStep == ASSUME Body, NEW n \in conf.nodes, ApplyLocally(n) PROVE Body'
  <1> DEFINE t == mut[n].token
             s == seq[n]
             V == Stamped(t, s + 1)
             M == [mut[n] EXCEPT !.at = "stamp"]
  <1>1. /\ mut[n].at = "local" /\ mut' = [mut EXCEPT ![n] = M]
        /\ UNCHANGED <<conf, row, seq, net, serving, pulled, nops, acked, reused>>
    BY DEF ApplyLocally
  <1>2. Types /\ Shape /\ Tokens /\ Stamps /\ Sends /\ Acks /\ n \in Node
    BY NodesLemma DEF Body
  <1>3. mut[n] \in [at : {"local", "stamp"}, token : Nat, op : 1..MaxOps] /\ mut[n] # Idle /\ serving[n] = None
    BY <1>1, <1>2, MutLemma DEF Idle, Shape
  <1>4. /\ M \in Mutation /\ M.at = "stamp" /\ M.token = t /\ M.op = mut[n].op /\ M # Idle
    BY <1>3 DEF Mutation, Idle
  <1>5. PICK r : /\ copy' = [copy EXCEPT ![n] = r]
                 /\ r \in Record /\ mut[n].op \in r.ops /\ Ops(copy[n]) \subseteq r.ops
                 /\ (r.v = 0 \/ r.v = Version(copy[n]))
    <2>1. /\ copy[n] \in Record \cup {NoRec} /\ mut[n].op \in 1..MaxOps
      BY <1>2, <1>3, CopyLemma
    <2>2. PICK r : /\ copy' = [copy EXCEPT ![n] = r]
                   /\ \/ \E x \in Text : r = LocalWrite(copy[n], x, mut[n].op)
                      \/ copy[n] # NoRec /\ r = LocalContradict(copy[n], mut[n].op)
      BY DEF ApplyLocally
    <2>3. QED BY <2>1, <2>2, LocalLemma
  <1>6. /\ t <= row.max_token /\ V \in Nat /\ Stamped(t, s) \in Nat /\ Stamped(t, s) < V
        /\ \A q \in Node : mut[q].at = "send" /\ mut[q].rec.v <= V => row.max_token > mut[q].token
    BY <1>1, NextVersion
  <1> HIDE DEF M
  <1>7. /\ mut'[n] = M /\ (\A q \in Node \ {n} : mut'[q] = mut[q]) /\ mut' \in [Node -> Mutation]
        /\ copy'[n] = r /\ (\A q \in Node \ {n} : copy'[q] = copy[q]) /\ copy' \in [Node -> Record \cup {NoRec}]
    BY <1>1, <1>2, <1>4, <1>5 DEF Types
  <1>8. Types' /\ Calls' = Calls
    BY <1>1, <1>2, <1>7 DEF Types, Calls, Served
  <1>9. /\ Standing(n)' = V /\ Standing(n) = Version(copy[n])
        /\ \A q \in Node \ {n} : Standing(q)' = Standing(q)
    BY <1>1, <1>4, <1>7 DEF Standing
  <1>10. r # NoRec /\ Version(r) = r.v /\ Ops(r) = r.ops /\ Version(copy[n]) <= Stamped(t, s) /\ Version(copy[n]) \in Nat
    BY <1>2, <1>3, <1>5, CopyLemma, ReplicaAssumption DEF Version, Ops, Stamps
  <1> HIDE DEF V
  <1>11. \A q \in conf.nodes : Standing(q)' >= Standing(q) /\ Standing(q) \in Nat
    BY <1>2, <1>6, <1>9, <1>10, StandingIsNat, NodesLemma
  <1>12. Versions' \subseteq Versions \cup {0}
    <2>1. Version(copy'[n]) \in Versions \cup {0}
      BY <1>2, <1>5, <1>7, <1>10 DEF Versions
    <2>2. \A q \in Node \ {n} : Version(copy'[q]) \in Versions
      BY <1>7 DEF Versions
    <2>3. QED BY <1>8, <2>1, <2>2 DEF Versions
  <1>13. \A a, k \in Nat : Within(a, k) => Within(a, k)'
    <2> SUFFICES ASSUME NEW a \in Nat, NEW k \in Nat, Within(a, k) PROVE Within(a, k)'
      OBVIOUS
    <2>1. Stamped(a, k) \in Nat
      BY StampedLemma
    <2>2. QED BY <1>12, <2>1 DEF Within
  <1>14. \A op, v : Covers(op, v) /\ (Standing(n) >= v \/ ~(V >= v)) => Covers(op, v)'
    <2> SUFFICES ASSUME NEW op, NEW v, Covers(op, v), Standing(n) >= v \/ ~(V >= v)
                 PROVE  Covers(op, v)'
      OBVIOUS
    <2>1. ASSUME NEW q \in conf.nodes, Standing(q)' >= v PROVE op \in Ops(copy'[q])
      <3>1. CASE q = n
        BY <1>5, <1>7, <1>9, <1>10, <2>1, <3>1 DEF Covers
      <3>2. CASE q # n
        BY <1>2, <1>7, <1>9, <2>1, <3>2, NodesLemma DEF Covers
      <3>3. QED BY <3>1, <3>2
    <2>2. QED BY <1>1, <1>8, <2>1 DEF Covers
  <1>15. \A q \in Node : mut'[q] # Idle => mut[q] # Idle /\ mut'[q].token = mut[q].token
    BY <1>3, <1>4, <1>7
  <1>16. Shape'
    <2>1. \A q \in Node : mut'[q] # Idle => q \in conf'.nodes /\ serving'[q] = None
      BY <1>1, <1>2, <1>15 DEF Shape
    <2>2. \A q \in Node : seq'[q] + (IF mut'[q].at \in {"local", "stamp"} THEN 1 ELSE 0) <= nops'
      BY <1>1, <1>2, <1>4, <1>7 DEF Shape
    <2>3. \A q \in Node : mut'[q].at = "stamp" => copy'[q] # NoRec /\ mut'[q].op \in copy'[q].ops
      BY <1>2, <1>4, <1>5, <1>7, <1>10 DEF Shape
    <2>4. \A q \in Node : mut'[q].at = "send" =>
             mut[q].at = "send" /\ mut'[q] = mut[q] /\ copy'[q] = copy[q] /\ Pending(q)' = Pending(q)
      BY <1>4, <1>7 DEF Pending
    <2>5. QED BY <1>1, <1>2, <1>8, <2>1, <2>2, <2>3, <2>4 DEF Shape
  <1>17. Tokens'
    BY <1>1, <1>2, <1>15 DEF Tokens
  <1>18. Stamps'
    <2>1. \A v \in Versions' : v < Stamped(row'.max_token + 1, 0)
      <3>1. row.max_token \in Nat /\ Stamped(row.max_token + 1, 0) > 0
        <4>1. PICK a \in Nat : a = row.max_token
          BY <1>2 DEF Types
        <4>2. a + 1 \in Nat /\ a < a + 1 /\ 0 \in Nat /\ 0 <= MaxOps
          BY ReplicaAssumption
        <4>3. Stamped(a, 0) \in Nat /\ Stamped(a, 0) < Stamped(a + 1, 0) /\ Stamped(a + 1, 0) \in Nat
          BY <4>2, StampedLemma
        <4>4. QED BY <4>1, <4>3
      <3>2. QED BY <1>1, <1>2, <1>12, <3>1 DEF Stamps
    <2>2. ASSUME NEW p \in Node, row'.owner = p PROVE Within(row.token, seq[p])'
      <3>1. PICK a \in Nat, k \in Nat : a = row.token /\ k = seq[p]
        BY <1>2 DEF Types
      <3>2. Within(a, k)'
        BY <1>1, <1>2, <1>13, <2>2, <3>1 DEF Stamps
      <3>3. QED BY <1>1, <3>1, <3>2 DEF Within
    <2>3. ASSUME NEW p \in Node, mut'[p] # Idle
          PROVE  Within(mut[p].token, seq[p])' /\ Version(copy'[p]) <= Stamped(mut'[p].token, seq'[p])
      <3>1. PICK a \in Nat, k \in Nat : a = mut[p].token /\ k = seq[p]
        BY <1>2, <1>15, <2>3, MutLemma DEF Types
      <3>2. Within(a, k)' /\ Version(copy[p]) <= Stamped(a, k)
        BY <1>2, <1>13, <1>15, <2>3, <3>1 DEF Stamps
      <3>3. Stamped(a, k) \in Nat /\ (Version(copy'[p]) = 0 \/ Version(copy'[p]) = Version(copy[p]))
        BY <1>5, <1>7, <1>10, StampedLemma
      <3>4. mut'[p].token = a /\ seq'[p] = k
        BY <1>1, <1>15, <2>3, <3>1
      <3>5. QED BY <3>2, <3>3, <3>4 DEF Within
    <2>4. QED BY <2>1, <2>2, <2>3 DEF Stamps
  \* A mutation that this one overtakes can no longer be answered as done.
  <1>19. Sends'
    <2> SUFFICES ASSUME NEW q \in Node, mut'[q].at = "send",
                        NEW op \in {mut'[q].op}, NEW v \in {mut'[q].rec.v}
                 PROVE  Doomed(q)' \/ (Covers(op, v)' /\ mut'[q].acks <= Cardinality(Answered(q, v)'))
      BY DEF Sends
    <2>1. q # n /\ mut[q].at = "send" /\ mut'[q] = mut[q] /\ op \in {mut[q].op} /\ v \in {mut[q].rec.v}
      BY <1>4, <1>7
    <2>2. Doomed(q) \/ (Covers(op, v) /\ mut[q].acks <= Cardinality(Answered(q, v)))
      BY <1>2, <2>1 DEF Sends
    <2>3. v \in Nat /\ Pending(q) \subseteq conf.nodes
      <3>1. mut[q].rec \in Record
        BY <1>2, <2>1, MutLemma
      <3>2. QED BY <1>2, <2>1, <3>1 DEF Record, Shape
    <2>4. Doomed(q)' <=> Doomed(q)
      BY <1>1, <2>1 DEF Doomed, Pending
    <2>5. ASSUME Covers(op, v), mut[q].acks <= Cardinality(Answered(q, v))
          PROVE  Covers(op, v)' \/ Doomed(q)'
      <3>1. CASE Standing(n) >= v \/ ~(V >= v)
        BY <1>14, <2>5, <3>1
      <3>2. CASE ~(Standing(n) >= v) /\ V >= v
        <4>1. row.max_token > mut[q].token
          BY <1>6, <2>1, <2>3, <3>2
        <4>2. CASE n \in Pending(q)
          BY <1>3, <2>4, <4>1, <4>2 DEF Doomed
        <4>3. CASE n \notin Pending(q)
          BY <1>2, <2>1, <2>3, <2>4, <2>5, <3>2, <4>3, MissingLemma
        <4>4. QED BY <4>2, <4>3
      <3>3. QED BY <3>1, <3>2
    <2>6. row'.max_token >= row.max_token /\ conf' = conf
      BY <1>1, <1>2 DEF Types
    <2>7. \A p \in Pending(q) :
            row.max_token > mut[q].token /\ serving'[p] # None /\ serving'[p].from = q
              /\ serving'[p].rec = mut[q].rec => serving'[p] = serving[p]
      BY <1>1
    <2>8. QED BY <1>2, <1>8, <1>11, <2>1, <2>2, <2>3, <2>5, <2>6, <2>7, CarrySend
  <1>20. Acks'
    <2>1. ASSUME NEW op \in acked PROVE Settled(op)'
      <3>1. PICK v \in Nat \ {0} : Covers(op, v) /\ \A q \in conf.nodes : Standing(q) >= v
        BY <1>2 DEF Acks, Settled
      <3>2. Covers(op, v)'
        BY <1>14, <3>1
      <3>3. \A q \in conf'.nodes : Standing(q)' >= v
        BY <1>1, <1>2, <1>8, <1>11, <3>1, CopyPrimed, NodesLemma
      <3>4. QED BY <3>2, <3>3 DEF Settled
    <2>2. QED BY <1>1, <2>1 DEF Acks
  <1>21. QED BY <1>8, <1>16, <1>17, <1>18, <1>19, <1>20 DEF Body

LEMMA StampStep == ASSUME Body, NEW n \in conf.nodes, Stamp(n) PROVE Body'
  <1>0. PICK t, s, V : t = mut[n].token /\ s = seq[n] /\ V = Stamped(t, s + 1)
    OBVIOUS
  <1> DEFINE r == [copy[n] EXCEPT !.v = V]
             M == [at |-> "send", token |-> t, op |-> mut[n].op, rec |-> r,
                   todo |-> conf.nodes \ {n}, wait |-> None, acks |-> 1]
  <1>1. /\ mut[n].at = "stamp" /\ copy' = [copy EXCEPT ![n] = r] /\ mut' = [mut EXCEPT ![n] = M]
        /\ seq' = [seq EXCEPT ![n] = @ + 1]
        /\ UNCHANGED <<conf, row, net, serving, pulled, nops, acked, reused>>
    BY <1>0 DEF Stamp
  <1>2. Types /\ Shape /\ Tokens /\ Stamps /\ Sends /\ Acks /\ n \in Node
    BY NodesLemma DEF Body
  <1>3. /\ mut[n] \in [at : {"local", "stamp"}, token : Nat, op : 1..MaxOps]
        /\ mut[n] # Idle /\ serving[n] = None /\ copy[n] \in Record /\ mut[n].op \in copy[n].ops
    <2>1. mut[n] \in [at : {"local", "stamp"}, token : Nat, op : 1..MaxOps] /\ mut[n] # Idle
      BY <1>1, <1>2, MutLemma DEF Idle
    <2>2. QED BY <1>1, <1>2, <2>1, CopyLemma DEF Shape
  <1>4. /\ t \in Nat /\ t <= row.max_token /\ V \in Nat /\ V > Stamped(t, 0) /\ s \in Nat
        /\ Stamped(t, s) \in Nat /\ Stamped(t, s) < V /\ Stamped(t + 1, 0) \in Nat /\ V < Stamped(t + 1, 0)
        /\ \A q \in Node : mut[q].at = "send" /\ mut[q].rec.v <= V => row.max_token > mut[q].token
    BY <1>0, <1>1, <1>2, NextVersion, CopyLemma
  <1>5. r \in Record /\ r.v = V /\ r.ops = copy[n].ops /\ r # NoRec /\ Version(r) = V /\ Ops(r) = r.ops
    <2>1. r \in Record /\ r.v = V /\ r.ops = copy[n].ops
      BY <1>3, <1>4 DEF Record
    <2> HIDE DEF r
    <2>2. QED BY <2>1, ReplicaAssumption DEF Version, Ops
  <1> HIDE DEF r
  <1>6. /\ M \in Mutation /\ M.at = "send" /\ M.token = t /\ M.op = mut[n].op /\ M.rec = r /\ M # Idle
        /\ M.todo = conf.nodes \ {n} /\ M.wait = None /\ M.acks = 1
    <2>1. conf.nodes \ {n} \in SUBSET Node
      BY <1>2, NodesLemma
    <2>2. QED BY <1>4, <1>3, <1>5, <2>1 DEF Mutation, Idle
  <1> HIDE DEF M
  <1>7. /\ mut'[n] = M /\ (\A q \in Node \ {n} : mut'[q] = mut[q]) /\ mut' \in [Node -> Mutation]
        /\ copy'[n] = r /\ (\A q \in Node \ {n} : copy'[q] = copy[q]) /\ copy' \in [Node -> Record \cup {NoRec}]
        /\ seq'[n] = s + 1 /\ (\A q \in Node \ {n} : seq'[q] = seq[q]) /\ seq' \in [Node -> Nat]
    BY <1>0, <1>1, <1>2, <1>5, <1>6 DEF Types
  <1>8. Types' /\ Calls' = Calls
    BY <1>1, <1>2, <1>7 DEF Types, Calls, Served
  <1>9. /\ Standing(n) = V /\ Standing(n)' = V /\ Ops(copy'[n]) = Ops(copy[n])
        /\ \A q \in Node : Standing(q)' = Standing(q) /\ Ops(copy'[q]) = Ops(copy[q])
    <2>1. Standing(n) = V
      BY <1>0, <1>1 DEF Standing
    <2>2. Standing(n)' = V
      BY <1>5, <1>6, <1>7 DEF Standing
    <2>3. Ops(copy'[n]) = Ops(copy[n])
      BY <1>2, <1>3, <1>5, <1>7, CopyLemma, ReplicaAssumption
    <2>4. \A q \in Node \ {n} : Standing(q)' = Standing(q) /\ Ops(copy'[q]) = Ops(copy[q])
      BY <1>7 DEF Standing
    <2>5. QED BY <2>1, <2>2, <2>3, <2>4
  <1>10. Versions' \subseteq Versions \cup {V}
    BY <1>5, <1>7, <1>8 DEF Versions
  <1>11. Pending(n)' = conf.nodes \ {n}
    BY <1>6, <1>7 DEF Pending
  <1>12. \A op, v : Covers(op, v) => Covers(op, v)'
    BY <1>1, <1>2, <1>8, <1>9, NodesLemma DEF Covers
  <1>13. \A q \in Node : mut'[q] # Idle => mut[q] # Idle /\ mut'[q].token = mut[q].token
    BY <1>0, <1>3, <1>6, <1>7
  \* The version is new: no call carries it yet.
  <1>14. \A v \in Versions : v # V
    <2>1. Within(t, s)
      BY <1>0, <1>2, <1>3 DEF Stamps
    <2>2. QED BY <1>4, <2>1 DEF Within
  <1>15. Shape'
    <2>1. \A q \in Node : mut'[q] # Idle => q \in conf'.nodes /\ serving'[q] = None
      BY <1>1, <1>2, <1>13 DEF Shape
    <2>2. \A q \in Node : seq'[q] + (IF mut'[q].at \in {"local", "stamp"} THEN 1 ELSE 0) <= nops'
      <3>1. s + 1 <= nops /\ nops \in Nat
        BY <1>0, <1>1, <1>2, ReplicaAssumption DEF Shape, Types
      <3>2. QED BY <1>1, <1>2, <1>4, <1>6, <1>7, <3>1 DEF Shape
    <2>3. \A q \in Node : mut'[q].at = "stamp" => copy'[q] # NoRec /\ mut'[q].op \in copy'[q].ops
      BY <1>2, <1>6, <1>7 DEF Shape
    <2>4. ASSUME NEW q \in Node, mut'[q].at = "send"
          PROVE  /\ copy'[q] = mut'[q].rec /\ mut'[q].op \in mut'[q].rec.ops
                 /\ mut'[q].rec.v > Stamped(mut'[q].token, 0)
                 /\ Pending(q)' \subseteq conf'.nodes \ {q} /\ mut'[q].wait \notin mut'[q].todo
                 /\ mut'[q].acks + Cardinality(Pending(q)') <= Cardinality(conf'.nodes)
                 /\ \A m \in Calls' : m.from = q /\ m.rec = mut'[q].rec => m.token = mut'[q].token
      <3>1. CASE q = n
        <4>1. IsFiniteSet(conf.nodes) /\ Cardinality(conf.nodes) \in Nat
              /\ Cardinality(conf.nodes \ {n}) = Cardinality(conf.nodes) - 1
          BY <1>2, NodesLemma, FS_RemoveElement
        <4>2. \A m \in Calls : m.rec # r
          BY <1>5, <1>14 DEF Versions
        <4>3. None \notin conf.nodes
          BY <1>2, NodesLemma, ReplicaAssumption
        <4>4. mut[n].op \in r.ops /\ r.v > Stamped(t, 0)
          BY <1>3, <1>4, <1>5
        <4>5. Cardinality(Pending(n)') = Cardinality(conf.nodes) - 1 /\ mut'[n].acks + Cardinality(Pending(n)') <= Cardinality(conf.nodes)
          BY <1>6, <1>7, <1>11, <4>1
        <4>6. \A m \in Calls' : m.rec # mut'[n].rec
          BY <1>6, <1>7, <1>8, <4>2
        <4>7. /\ copy'[n] = mut'[n].rec /\ mut'[n].op \in mut'[n].rec.ops
              /\ mut'[n].rec.v > Stamped(mut'[n].token, 0) /\ mut'[n].wait \notin mut'[n].todo
          BY <1>6, <1>7, <4>3, <4>4
        <4>8. QED BY <1>1, <1>11, <3>1, <4>5, <4>6, <4>7
      <3>2. CASE q # n
        <4>1. mut'[q] = mut[q] /\ copy'[q] = copy[q] /\ Pending(q)' = Pending(q)
          BY <1>7, <3>2 DEF Pending
        <4>2. QED BY <1>1, <1>2, <1>8, <2>4, <4>1 DEF Shape
      <3>3. QED BY <3>1, <3>2
    <2>5. QED BY <1>1, <1>2, <1>8, <2>1, <2>2, <2>3, <2>4 DEF Shape
  <1>16. Tokens'
    BY <1>1, <1>2, <1>13 DEF Tokens
  <1>17. Within(t, s + 1)'
    <2>1. \A v \in Versions : v \in Nat
      BY <1>2, CopyLemma, CallsLemma DEF Versions
    <2>2. Within(t, s)
      BY <1>0, <1>2, <1>3 DEF Stamps
    <2>3. \A v \in Versions \cup {V} : v <= V \/ v >= Stamped(t + 1, 0)
      BY <1>4, <2>1, <2>2 DEF Within
    <2>4. QED BY <1>0, <1>10, <2>3 DEF Within
  \* Within the other tokens nothing was stamped.
  <1>18. \A a, k \in Nat : a # t /\ Within(a, k) => Within(a, k)'
    <2> SUFFICES ASSUME NEW a \in Nat, NEW k \in Nat, a # t, Within(a, k) PROVE Within(a, k)'
      OBVIOUS
    <2>1. PICK i \in Nat : i = s + 1 /\ i <= MaxOps
      <3>1. s + 1 <= nops /\ nops \in 0..MaxOps
        BY <1>0, <1>1, <1>2 DEF Shape, Types
      <3>2. QED BY <1>4, <3>1, ReplicaAssumption
    <2>2. V <= Stamped(a, k) \/ V >= Stamped(a + 1, 0)
      BY <1>0, <1>4, <2>1, ApartLemma
    <2>3. QED BY <1>10, <2>2 DEF Within
  <1>19. Stamps'
    <2>1. row.max_token \in Nat /\ \A v \in Versions' : v < Stamped(row'.max_token + 1, 0)
      <3>1. PICK b \in Nat, c \in Nat : b = t /\ c = row.max_token
        BY <1>2, <1>4 DEF Types
      <3>2. b + 1 \in Nat /\ c + 1 \in Nat /\ 0 \in Nat /\ (b = c \/ b + 1 < c + 1) /\ 0 <= MaxOps
        BY <1>4, <3>1, ReplicaAssumption
      <3>3. Stamped(b + 1, 0) \in Nat /\ Stamped(c + 1, 0) \in Nat
        BY <3>2, StampedLemma
      <3>4. Stamped(b + 1, 0) <= Stamped(c + 1, 0)
        <4>1. CASE b = c
          BY <3>3, <4>1
        <4>2. CASE b + 1 < c + 1
          BY <3>2, <3>3, <4>2, StampedLemma
        <4>3. QED BY <3>2, <4>1, <4>2
      <3>5. V < Stamped(c + 1, 0)
        BY <1>4, <3>1, <3>3, <3>4
      <3>6. QED BY <1>1, <1>2, <1>10, <3>1, <3>5 DEF Stamps
    <2>2. ASSUME NEW p \in Node, row'.owner = p PROVE Within(row.token, seq[p])'
      <3>1. PICK a \in Nat, k \in Nat : a = row.token /\ k = seq[p]
        BY <1>2 DEF Types
      <3>2. row.owner = p /\ Within(a, k) /\ row'.token = a
        BY <1>1, <1>2, <2>2, <3>1 DEF Stamps
      <3>3. CASE a = t
        <4>1. p = n
          BY <1>0, <1>2, <1>3, <3>1, <3>2, <3>3 DEF Tokens
        <4>2. seq'[p] = s + 1
          BY <1>7, <4>1
        <4>3. QED BY <1>17, <3>2, <3>3, <4>2 DEF Within
      <3>4. CASE a # t
        <4>1. Within(a, k)'
          BY <1>18, <3>2, <3>4
        <4>2. PICK j \in Nat : j = seq'[p] /\ k <= j
          BY <1>0, <1>7, <3>1
        <4>3. Stamped(a, k) <= Stamped(a, j) /\ Stamped(a, k) \in Nat /\ Stamped(a, j) \in Nat
          BY <4>2, StampedLemma
        <4>4. \A v \in Versions' : v \in Nat
          BY <1>0, <1>2, <1>4, <1>10, CopyLemma, CallsLemma DEF Versions
        <4>5. QED BY <3>2, <4>1, <4>2, <4>3, <4>4 DEF Within
      <3>5. QED BY <3>3, <3>4
    <2>3. ASSUME NEW p \in Node, mut'[p] # Idle
          PROVE  Within(mut[p].token, seq[p])' /\ Version(copy'[p]) <= Stamped(mut'[p].token, seq'[p])
      <3>1. CASE p = n
        <4>1. mut'[p].token = t /\ seq'[p] = s + 1 /\ Version(copy'[p]) = V
          BY <1>5, <1>6, <1>7, <3>1
        <4>2. V <= Stamped(t, s + 1)
          BY <1>0, <1>4
        <4>3. QED BY <1>17, <4>1, <4>2 DEF Within
      <3>2. CASE p # n
        <4>1. PICK a \in Nat, k \in Nat : a = mut[p].token /\ k = seq[p]
          BY <1>2, <1>13, <2>3, MutLemma DEF Types
        <4>2. a # t /\ Within(a, k) /\ Version(copy[p]) <= Stamped(a, k)
          BY <1>0, <1>2, <1>3, <1>13, <2>3, <3>2, <4>1 DEF Tokens, Stamps
        <4>3. Within(a, k)' /\ mut'[p].token = a /\ seq'[p] = k /\ copy'[p] = copy[p]
          BY <1>7, <1>18, <3>2, <4>1, <4>2
        <4>4. QED BY <4>2, <4>3 DEF Within
      <3>3. QED BY <3>1, <3>2
    <2>4. QED BY <2>1, <2>2, <2>3 DEF Stamps
  \* Who stands at the version already, or sends it, is of a later token.
  <1>20. \A v \in Versions : v >= V => row.max_token > t
    <2> SUFFICES ASSUME NEW v \in Versions, v >= V, ~(row.max_token > t) PROVE FALSE
      OBVIOUS
    <2>1. v \in Nat
      BY <1>2, CopyLemma, CallsLemma DEF Versions
    <2>2. row.max_token = t
      <3>1. row.max_token \in Nat
        BY <1>2 DEF Types
      <3>2. t \in Nat /\ t <= row.max_token
        BY <1>4
      <3>3. QED BY <3>1, <3>2
    <2>3. v < Stamped(t + 1, 0) /\ Within(t, s)
      BY <1>0, <1>2, <1>3, <2>2 DEF Stamps
    <2>4. QED BY <1>4, <2>1, <2>3 DEF Within
  <1>21. \A p \in conf.nodes : p # n /\ Standing(p) >= V => row.max_token > t
    <2> SUFFICES ASSUME NEW p \in conf.nodes, p # n, Standing(p) >= V PROVE row.max_token > t
      OBVIOUS
    <2>1. p \in Node
      BY <1>2, NodesLemma
    <2>2. CASE mut[p].at # "stamp"
      BY <1>20, <2>1, <2>2 DEF Standing, Versions
    <2>3. CASE mut[p].at = "stamp"
      <3>1. mut[p] # Idle /\ mut[p].token # t /\ mut[p].token <= row.max_token
        BY <1>0, <1>2, <1>3, <2>1, <2>3 DEF Tokens, Idle
      <3>2. PICK a \in Nat, k \in Nat : a = mut[p].token /\ k = seq[p]
        BY <1>2, <2>1, <3>1, MutLemma DEF Types
      <3>3. k + 1 \in Nat /\ k + 1 <= MaxOps /\ 0 \in Nat
        <4>1. k + 1 <= nops /\ nops \in 0..MaxOps
          BY <1>2, <2>1, <2>3, <3>2 DEF Shape, Types
        <4>2. QED BY <4>1, ReplicaAssumption
      <3>4. Standing(p) = Stamped(a, k + 1) /\ Stamped(a, k + 1) \in Nat
        BY <2>3, <3>2, <3>3, StampedLemma DEF Standing
      <3>5. ASSUME a < t PROVE FALSE
        <4>1. PICK b \in Nat : b = t
          BY <1>4
        <4>2. Stamped(a, k + 1) < Stamped(b, 0) /\ Stamped(b, 0) \in Nat
          BY <3>3, <3>5, <4>1, StampedLemma
        <4>3. QED BY <1>4, <3>4, <4>1, <4>2
      <3>6. a # t /\ a <= row.max_token /\ row.max_token \in Nat
        BY <1>2, <3>1, <3>2 DEF Types
      <3>7. t \in Nat
        BY <1>4
      <3>8. QED BY <3>2, <3>5, <3>6, <3>7
    <2>4. QED BY <2>2, <2>3
  <1>22. Sends'
    <2>1. ASSUME NEW q \in Node \ {n}, mut'[q].at = "send",
                 NEW op \in {mut'[q].op}, NEW v \in {mut'[q].rec.v}
          PROVE  Doomed(q)' \/ (Covers(op, v)' /\ mut'[q].acks <= Cardinality(Answered(q, v)'))
      <3>1. mut[q].at = "send" /\ mut'[q] = mut[q] /\ op \in {mut[q].op} /\ v \in {mut[q].rec.v}
        BY <1>7, <2>1
      <3>2. Doomed(q) \/ (Covers(op, v) /\ mut[q].acks <= Cardinality(Answered(q, v)))
        BY <1>2, <3>1 DEF Sends
      <3>3. v \in Nat
        <4>1. mut[q].rec \in Record
          BY <1>2, <3>1, MutLemma
        <4>2. QED BY <3>1, <4>1 DEF Record
      <3>4. \A p \in conf.nodes : Standing(p)' >= Standing(p)
        BY <1>2, <1>9, StandingIsNat, NodesLemma
      <3>5. row'.max_token >= row.max_token /\ conf' = conf
        BY <1>1, <1>2 DEF Types
      <3>6. \A p \in Pending(q) :
              row.max_token > mut[q].token /\ serving'[p] # None /\ serving'[p].from = q
                /\ serving'[p].rec = mut[q].rec => serving'[p] = serving[p]
        BY <1>1
      <3>7. QED BY <1>2, <1>8, <1>12, <3>1, <3>2, <3>3, <3>4, <3>5, <3>6, CarrySend
    <2>2. \A m \in Calls : m.rec.v \in Versions /\ m.rec # r
      BY <1>5, <1>14 DEF Versions
    <2>3. ASSUME NEW p \in conf.nodes, p # n, row.max_token > t PROVE Doomed(n)'
      <3>1. serving[p] # None => serving[p] \in Calls
        BY <1>2, CallsLemma, NodesLemma
      <3>2. QED BY <1>1, <1>6, <1>7, <1>11, <2>2, <2>3, <3>1 DEF Doomed
    <2>4. ASSUME \E p \in conf.nodes : p # n /\ Standing(p) >= V PROVE Doomed(n)'
      BY <1>21, <2>3, <2>4
    <2>5. ASSUME \E m \in Calls : m.rec.v >= V PROVE Doomed(n)'
      <3>1. PICK m \in Calls : m.rec.v >= V
        BY <2>5
      <3>2. row.max_token > t
        BY <1>20, <2>2, <3>1
      <3>3. m.from \in conf.nodes /\ m.to \in conf.nodes /\ m.from # m.to
        BY <1>2 DEF Shape
      <3>4. QED BY <2>3, <3>2, <3>3
    <2>6. ASSUME \A p \in conf.nodes : p # n => ~(Standing(p) >= V), \A m \in Calls : ~(m.rec.v >= V),
                 NEW op \in {mut'[n].op}
          PROVE  Covers(op, V)' /\ mut'[n].acks <= Cardinality(Answered(n, V)')
      <3>1. op \in Ops(copy'[n])
        BY <1>3, <1>5, <1>6, <1>7
      <3>2. Covers(op, V)'
        <4>1. \A p \in conf'.nodes : Standing(p)' >= V => op \in Ops(copy'[p])
          BY <1>1, <1>2, <1>9, <2>6, <3>1, NodesLemma
        <4>2. \A m \in Calls' : m.rec.v >= V => op \in m.rec.ops
          BY <1>8, <2>6
        <4>3. PICK x : x = V
          OBVIOUS
        <4>4. Covers(op, x)'
          BY <4>1, <4>2, <4>3 DEF Covers
        <4>5. QED BY <4>3, <4>4
      <3>3. n \in Answered(n, V)' /\ Answered(n, V)' \in SUBSET conf.nodes
        BY <1>1, <1>4, <1>9, <1>11 DEF Answered
      <3>4. Cardinality({n}) <= Cardinality(Answered(n, V)') /\ Cardinality({n}) = 1
        <4>1. IsFiniteSet(Answered(n, V)')
          BY <1>2, <3>3, NodesLemma
        <4>2. QED BY <3>3, <4>1, FS_Subset, FS_Singleton
      <3>5. QED BY <1>6, <1>7, <3>2, <3>4
    <2>7. mut'[n].rec.v = V
      BY <1>5, <1>6, <1>7
    <2>8. ASSUME NEW op \in {mut'[n].op}, NEW v \in {mut'[n].rec.v}
          PROVE  Doomed(n)' \/ (Covers(op, v)' /\ mut'[n].acks <= Cardinality(Answered(n, v)'))
      BY <2>4, <2>5, <2>6, <2>7
    <2>9. QED BY <2>1, <2>8 DEF Sends
  <1>23. Acks'
    <2>1. ASSUME NEW op \in acked PROVE Settled(op)'
      <3>1. PICK v \in Nat \ {0} : Covers(op, v) /\ \A q \in conf.nodes : Standing(q) >= v
        BY <1>2 DEF Acks, Settled
      <3>2. \A q \in conf'.nodes : Standing(q)' >= v
        BY <1>1, <1>2, <1>9, <3>1, NodesLemma
      <3>3. QED BY <1>12, <3>1, <3>2 DEF Settled
    <2>2. QED BY <1>1, <2>1 DEF Acks
  <1>24. QED BY <1>8, <1>15, <1>16, <1>19, <1>22, <1>23 DEF Body

LEMMA CountedLemma ==
  ASSUME NEW x \in [at : {"send"}, token : Nat, op : 1..MaxOps, rec : Record, todo : SUBSET Node,
                    wait : Node \cup {None}, acks : Nat]
  PROVE  LET y == [x EXCEPT !.wait = None, !.acks = @ + 1]
         IN  /\ y \in [at : {"send"}, token : Nat, op : 1..MaxOps, rec : Record, todo : SUBSET Node,
                       wait : Node \cup {None}, acks : Nat]
             /\ y.at = "send" /\ y.token = x.token /\ y.op = x.op /\ y.rec = x.rec
             /\ y.todo = x.todo /\ y.wait = None /\ y.acks = x.acks + 1 /\ x.acks \in Nat
  <1>1. x.acks \in Nat /\ x.acks + 1 \in Nat /\ x.at = "send"
    OBVIOUS
  <1>2. PICK z \in Nat : z = x.acks + 1
    BY <1>1
  <1> DEFINE y == [x EXCEPT !.wait = None, !.acks = z]
  <1>3. /\ y.at = "send" /\ y.token = x.token /\ y.op = x.op /\ y.rec = x.rec
        /\ y.todo = x.todo /\ y.wait = None /\ y.acks = z
    OBVIOUS
  <1>4. y \in [at : {"send"}, token : Nat, op : 1..MaxOps, rec : Record, todo : SUBSET Node,
              wait : Node \cup {None}, acks : Nat]
    OBVIOUS
  <1>5. [x EXCEPT !.wait = None, !.acks = @ + 1] = y
    BY <1>2
  <1> HIDE DEF y
  <1>6. QED BY <1>1, <1>2, <1>3, <1>4, <1>5

LEMMA ApplyReplicaStep == ASSUME Body, NEW p \in conf.nodes, ApplyReplica(p) PROVE Body'
  <1>0. PICK m : m = serving[p]
    OBVIOUS
  <1>1. /\ m # None /\ serving' = [serving EXCEPT ![p] = None]
        /\ copy' = IF KeepsMine(copy[p], m.rec) THEN copy
                   ELSE [copy EXCEPT ![p] = guard_replica(@, m.rec)]
        /\ UNCHANGED <<conf, row, seq, net, pulled, nops, acked, reused>>
    BY <1>0 DEF ApplyReplica
  <1>2. Types /\ Shape /\ Tokens /\ Stamps /\ Sends /\ Acks /\ p \in Node
    BY NodesLemma DEF Body
  <1>3. /\ m \in Calls /\ m.rec \in Record /\ m.rec.v \in Nat /\ m.from \in Node /\ m.to = p /\ m.from # p
        /\ mut[p] = Idle
    BY <1>0, <1>1, <1>2, CallsLemma DEF Shape
  <1>4. /\ copy[p] \in Record \cup {NoRec} /\ Version(copy[p]) \in Nat /\ Standing(p) = Version(copy[p])
    BY <1>2, <1>3, CopyLemma DEF Standing, Idle
  <1>5. PICK c : /\ copy' = [copy EXCEPT ![p] = c] /\ c \in Record \cup {NoRec}
                 /\ Version(c) >= Version(copy[p]) /\ Version(c) >= m.rec.v
                 /\ \/ Version(c) = Version(copy[p]) /\ Ops(c) = Ops(copy[p])
                    \/ Version(c) = m.rec.v /\ Ops(c) = m.rec.ops
    <2>1. CASE KeepsMine(copy[p], m.rec)
      <3>1. copy' = [copy EXCEPT ![p] = copy[p]]
        BY <1>1, <1>2, <2>1 DEF Types
      <3>2. Version(copy[p]) > m.rec.v
        BY <1>3, <2>1, ReplicaAssumption DEF KeepsMine, Version
      <3>3. PICK c : c = copy[p]
        OBVIOUS
      <3>4. /\ copy' = [copy EXCEPT ![p] = c] /\ c \in Record \cup {NoRec} /\ Version(c) >= Version(copy[p])
            /\ Version(c) >= m.rec.v /\ Version(c) = Version(copy[p]) /\ Ops(c) = Ops(copy[p])
        BY <1>3, <1>4, <3>1, <3>2, <3>3
      <3>5. QED BY <3>4
    <2>2. CASE ~KeepsMine(copy[p], m.rec)
      <3>1. PICK r : r = guard_replica(copy[p], m.rec)
        OBVIOUS
      <3>2. r \in Record /\ r.v = m.rec.v /\ r.ops = m.rec.ops
        BY <1>3, <1>4, <3>1, RecordLemma
      <3>3. Version(r) = m.rec.v /\ Ops(r) = m.rec.ops
        BY <3>2, ReplicaAssumption DEF Version, Ops
      <3>4. copy' = [copy EXCEPT ![p] = r]
        BY <1>1, <2>2, <3>1
      <3>5. Version(copy[p]) <= m.rec.v
        BY <1>3, <1>4, <2>2, ReplicaAssumption DEF KeepsMine, Version
      <3>6. /\ r \in Record \cup {NoRec} /\ Version(r) >= Version(copy[p]) /\ Version(r) >= m.rec.v
        BY <1>3, <3>2, <3>3, <3>5
      <3>7. QED BY <3>3, <3>4, <3>6
    <2>3. QED BY <2>1, <2>2
  <1>6. /\ copy'[p] = c /\ (\A q \in Node \ {p} : copy'[q] = copy[q]) /\ copy' \in [Node -> Record \cup {NoRec}]
        /\ serving'[p] = None /\ (\A q \in Node \ {p} : serving'[q] = serving[q])
        /\ serving' \in [Node -> Call \cup {None}]
    BY <1>1, <1>2, <1>5 DEF Types
  <1> DEFINE f == m.from
             M == [mut[f] EXCEPT !.wait = None, !.acks = @ + 1]
  \* The leader that waits for this answer counts it.
  <1>7. Awaited(m) =>
          /\ mut[f].at = "send" /\ mut[f] # Idle /\ mut[f].wait = p /\ mut[f].rec = m.rec
          /\ mut' = [mut EXCEPT ![f] = M] /\ M \in Mutation /\ M # Idle
          /\ M.at = "send" /\ M.token = mut[f].token /\ M.op = mut[f].op /\ M.rec = m.rec
          /\ M.todo = mut[f].todo /\ M.wait = None /\ M.acks = mut[f].acks + 1 /\ mut[f].acks \in Nat
    <2> SUFFICES ASSUME Awaited(m)
                 PROVE  /\ mut[f].at = "send" /\ mut[f] # Idle /\ mut[f].wait = p /\ mut[f].rec = m.rec
                        /\ mut' = [mut EXCEPT ![f] = M] /\ M \in Mutation /\ M # Idle
                        /\ M.at = "send" /\ M.token = mut[f].token /\ M.op = mut[f].op /\ M.rec = m.rec
                        /\ M.todo = mut[f].todo /\ M.wait = None /\ M.acks = mut[f].acks + 1 /\ mut[f].acks \in Nat
      OBVIOUS
    <2>1. mut[f].at = "send" /\ mut[f].wait = p /\ mut[f].rec = m.rec
      BY <1>3 DEF Awaited
    <2>2. /\ mut[f] \in [at : {"send"}, token : Nat, op : 1..MaxOps, rec : Record, todo : SUBSET Node,
                         wait : Node \cup {None}, acks : Nat]
          /\ mut[f] # Idle
      BY <1>2, <1>3, <2>1, MutLemma DEF Idle
    <2>3. mut' = [mut EXCEPT ![f] = M]
      BY <1>0 DEF ApplyReplica
    <2>4. /\ M \in [at : {"send"}, token : Nat, op : 1..MaxOps, rec : Record, todo : SUBSET Node,
                    wait : Node \cup {None}, acks : Nat]
          /\ M.at = "send" /\ M.token = mut[f].token /\ M.op = mut[f].op /\ M.rec = mut[f].rec
          /\ M.todo = mut[f].todo /\ M.wait = None /\ M.acks = mut[f].acks + 1 /\ mut[f].acks \in Nat
      BY <2>2, CountedLemma
    <2> HIDE DEF M
    <2>5. M \in Mutation /\ M # Idle
      BY <2>4 DEF Mutation, Idle
    <2>6. QED BY <2>1, <2>2, <2>3, <2>4, <2>5
  <1>8. ~Awaited(m) => mut' = mut
    BY <1>0 DEF ApplyReplica
  <1> HIDE DEF M
  <1>9. mut' \in [Node -> Mutation] /\ \A q \in Node : mut'[q] = mut[q] \/ (q = f /\ Awaited(m) /\ mut'[q] = M)
    BY <1>2, <1>3, <1>7, <1>8 DEF Types
  <1>10. \A q \in Node : /\ mut'[q].at = mut[q].at /\ (mut'[q] # Idle <=> mut[q] # Idle)
                         /\ mut[q] # Idle => mut'[q].token = mut[q].token /\ q # p
                         /\ mut[q].at = "send" =>
                              mut'[q].op = mut[q].op /\ mut'[q].rec = mut[q].rec /\ mut'[q].todo = mut[q].todo
    <2> SUFFICES ASSUME NEW q \in Node
                 PROVE  /\ mut'[q].at = mut[q].at /\ (mut'[q] # Idle <=> mut[q] # Idle)
                        /\ mut[q] # Idle => mut'[q].token = mut[q].token /\ q # p
                        /\ mut[q].at = "send" =>
                             mut'[q].op = mut[q].op /\ mut'[q].rec = mut[q].rec /\ mut'[q].todo = mut[q].todo
      OBVIOUS
    <2>1. CASE mut'[q] = mut[q]
      BY <1>3, <2>1
    <2>2. CASE q = f /\ Awaited(m) /\ mut'[q] = M
      BY <1>3, <1>7, <2>2
    <2>3. QED BY <1>9, <2>1, <2>2
  <1>11. Types'
    BY <1>1, <1>2, <1>6, <1>9 DEF Types
  <1>12. Calls' \subseteq Calls
    BY <1>1, <1>6 DEF Calls, Served
  <1>13. /\ Standing(p)' = Version(c) /\ \A q \in Node \ {p} : Standing(q)' = Standing(q)
    <2>1. mut'[p].at # "stamp"
      BY <1>2, <1>3, <1>10 DEF Idle
    <2>2. Standing(p)' = Version(c)
      BY <1>6, <2>1 DEF Standing
    <2>3. ASSUME NEW q \in Node \ {p} PROVE Standing(q)' = Standing(q)
      <3>1. mut'[q].at = mut[q].at /\ (mut[q].at = "stamp" => mut'[q].token = mut[q].token)
        BY <1>10 DEF Idle
      <3>2. QED BY <1>1, <1>6, <3>1 DEF Standing
    <2>4. QED BY <2>2, <2>3
  <1>14. \A q \in conf.nodes : Standing(q)' >= Standing(q) /\ Standing(q) \in Nat
    BY <1>2, <1>4, <1>5, <1>13, StandingIsNat, NodesLemma
  <1>15. Versions' \subseteq Versions
    <2>1. Version(copy'[p]) \in Versions
      BY <1>2, <1>3, <1>5, <1>6 DEF Versions
    <2>2. QED BY <1>6, <1>12, <2>1 DEF Versions
  <1>16. ASSUME NEW op, NEW v, Covers(op, v) PROVE Covers(op, v)'
    <2>1. ASSUME NEW q \in conf.nodes, Standing(q)' >= v PROVE op \in Ops(copy'[q])
      <3>1. CASE q = p
        BY <1>3, <1>4, <1>5, <1>6, <1>13, <1>16, <2>1, <3>1 DEF Covers
      <3>2. CASE q # p
        BY <1>2, <1>6, <1>13, <1>16, <2>1, <3>2, NodesLemma DEF Covers
      <3>3. QED BY <3>1, <3>2
    <2>2. \A x \in Calls' : x.rec.v >= v => op \in x.rec.ops
      BY <1>12, <1>16 DEF Covers
    <2>3. QED BY <1>1, <2>1, <2>2 DEF Covers
  <1>17. Awaited(m) =>
           /\ Pending(f)' = Pending(f) \ {p} /\ p \in Pending(f) /\ Pending(f) \in SUBSET conf.nodes
           /\ Cardinality(Pending(f)') = Cardinality(Pending(f)) - 1 /\ Cardinality(Pending(f)) \in Nat
           /\ mut'[f] = M
    <2> SUFFICES ASSUME Awaited(m)
                 PROVE  /\ Pending(f)' = Pending(f) \ {p} /\ p \in Pending(f) /\ Pending(f) \in SUBSET conf.nodes
                        /\ Cardinality(Pending(f)') = Cardinality(Pending(f)) - 1 /\ Cardinality(Pending(f)) \in Nat
                        /\ mut'[f] = M
      OBVIOUS
    <2>1. mut'[f] = M
      BY <1>2, <1>3, <1>7 DEF Types
    <2>2. p # None /\ p \notin mut[f].todo /\ Pending(f) \subseteq conf.nodes
      BY <1>2, <1>3, <1>7, ReplicaAssumption DEF Shape
    <2>3. Pending(f)' = Pending(f) \ {p} /\ p \in Pending(f)
      BY <1>7, <2>1, <2>2 DEF Pending
    <2>4. IsFiniteSet(Pending(f)) /\ Cardinality(Pending(f)) \in Nat
      BY <1>2, <2>2, NodesLemma
    <2>5. QED BY <2>1, <2>2, <2>3, <2>4, FS_RemoveElement
  <1>18. \A q \in Node : mut'[q] = mut[q] => Pending(q)' = Pending(q)
    BY DEF Pending
  <1>19. Shape'
    <2>1. \A q \in Node : mut'[q] # Idle => q \in conf'.nodes /\ serving'[q] = None
      BY <1>1, <1>2, <1>6, <1>10 DEF Shape
    <2>2. \A q \in Node : seq'[q] + (IF mut'[q].at \in {"local", "stamp"} THEN 1 ELSE 0) <= nops'
      BY <1>1, <1>2, <1>10 DEF Shape
    <2>3. ASSUME NEW q \in Node, mut'[q].at = "stamp" PROVE copy'[q] # NoRec /\ mut'[q].op \in copy'[q].ops
      <3>1. mut'[q] = mut[q]
        BY <1>7, <1>9, <2>3
      <3>2. q # p /\ copy'[q] = copy[q]
        BY <1>3, <1>6, <2>3, <3>1 DEF Idle
      <3>3. QED BY <1>2, <2>3, <3>1, <3>2 DEF Shape
    <2>4. ASSUME NEW q \in Node, mut'[q].at = "send"
          PROVE  /\ copy'[q] = mut'[q].rec /\ mut'[q].op \in mut'[q].rec.ops
                 /\ mut'[q].rec.v > Stamped(mut'[q].token, 0)
                 /\ Pending(q)' \subseteq conf'.nodes \ {q} /\ mut'[q].wait \notin mut'[q].todo
                 /\ mut'[q].acks + Cardinality(Pending(q)') <= Cardinality(conf'.nodes)
                 /\ \A x \in Calls' : x.from = q /\ x.rec = mut'[q].rec => x.token = mut'[q].token
      <3>1. mut[q].at = "send" /\ q # p /\ copy'[q] = copy[q] /\ mut[q] # Idle
        BY <1>6, <1>10, <2>4 DEF Idle
      <3>2. CASE mut'[q] = mut[q]
        <4>1. Pending(q)' = Pending(q)
          BY <1>18, <3>2
        <4>2. QED BY <1>1, <1>2, <1>12, <3>1, <3>2, <4>1 DEF Shape
      <3>3. CASE q = f /\ Awaited(m) /\ mut'[q] = M
        <4>1. mut'[f].acks + Cardinality(Pending(f)') = mut[f].acks + Cardinality(Pending(f))
          BY <1>7, <1>17, <3>3
        <4>2. None \notin mut[f].todo
          <5>1. mut[f].todo \subseteq Node
            BY <1>2, <3>1, <3>3, MutLemma
          <5>2. QED BY <5>1, ReplicaAssumption
        <4>3. /\ copy[f] = mut[f].rec /\ mut[f].op \in mut[f].rec.ops
              /\ mut[f].rec.v > Stamped(mut[f].token, 0) /\ Pending(f) \subseteq conf.nodes \ {f}
              /\ mut[f].acks + Cardinality(Pending(f)) <= Cardinality(conf.nodes)
              /\ \A x \in Calls : x.from = f /\ x.rec = mut[f].rec => x.token = mut[f].token
          BY <1>2, <3>1, <3>3 DEF Shape
        <4>4. QED BY <1>1, <1>7, <1>12, <1>17, <3>1, <3>3, <4>1, <4>2, <4>3
      <3>4. QED BY <1>9, <3>2, <3>3
    <2>5. (\A x \in Calls' : x.from \in conf'.nodes /\ x.to \in conf'.nodes /\ x.from # x.to)
          /\ \A q \in Node : serving'[q] # None => serving'[q].to = q
      BY <1>1, <1>2, <1>6, <1>12 DEF Shape
    <2>6. QED BY <2>1, <2>2, <2>3, <2>4, <2>5 DEF Shape
  <1>20. Tokens'
    BY <1>1, <1>2, <1>10 DEF Tokens
  <1>21. Stamps'
    <2>1. \A q \in Node : mut'[q] # Idle => mut[q] # Idle /\ mut'[q].token = mut[q].token /\ copy'[q] = copy[q]
      BY <1>6, <1>10
    <2>2. QED BY <1>1, <1>2, <1>15, <2>1 DEF Stamps, Within
  <1>22. Sends'
    <2> SUFFICES ASSUME NEW q \in Node, mut'[q].at = "send",
                        NEW op \in {mut'[q].op}, NEW v \in {mut'[q].rec.v}
                 PROVE  Doomed(q)' \/ (Covers(op, v)' /\ mut'[q].acks <= Cardinality(Answered(q, v)'))
      BY DEF Sends
    <2>1. mut[q].at = "send" /\ op \in {mut[q].op} /\ v \in {mut[q].rec.v}
      BY <1>10
    <2>2. Doomed(q) \/ (Covers(op, v) /\ mut[q].acks <= Cardinality(Answered(q, v)))
      BY <1>2, <2>1 DEF Sends
    <2>3. v \in Nat /\ Pending(q) \subseteq conf.nodes
      <3>1. mut[q].rec \in Record
        BY <1>2, <2>1, MutLemma
      <3>2. QED BY <1>2, <2>1, <3>1 DEF Record, Shape
    <2>4. CASE mut'[q] = mut[q]
      <3>1. row'.max_token >= row.max_token /\ conf' = conf
        BY <1>1, <1>2 DEF Types
      <3>2. \A w \in Pending(q) :
              row.max_token > mut[q].token /\ serving'[w] # None /\ serving'[w].from = q
                /\ serving'[w].rec = mut[q].rec => serving'[w] = serving[w]
        BY <1>2, <1>6, <2>3, NodesLemma
      <3>3. Covers(op, v) => Covers(op, v)'
        BY <1>16
      <3>4. QED BY <1>2, <1>11, <1>14, <2>1, <2>2, <2>3, <2>4, <3>1, <3>2, <3>3, CarrySend
    <2>5. CASE q = f /\ Awaited(m) /\ mut'[q] = M
      <3>1. v = m.rec.v
        BY <1>7, <2>1, <2>5
      <3>2. CASE Doomed(f)
        <4>1. CASE mut[f].acks + Cardinality(Pending(f)) < Cardinality(conf.nodes)
          <5>1. mut'[f].acks + Cardinality(Pending(f)') = mut[f].acks + Cardinality(Pending(f))
            BY <1>7, <1>17, <2>5
          <5>2. QED BY <1>1, <2>5, <4>1, <5>1 DEF Doomed
        <4>2. ASSUME NEW w \in Pending(f), row.max_token > mut[f].token,
                     ~(serving[w] # None /\ serving[w].from = f /\ serving[w].rec = mut[f].rec)
              PROVE  Doomed(f)'
          <5>1. w # p
            BY <1>0, <1>1, <1>7, <2>5, <4>2
          <5>2. w \in Pending(f)' /\ serving'[w] = serving[w]
            BY <1>2, <1>6, <1>17, <2>3, <2>5, <4>2, <5>1, NodesLemma
          <5>3. row'.max_token > mut'[f].token /\ mut'[f].rec = mut[f].rec
            BY <1>1, <1>7, <2>5, <4>2
          <5>4. QED BY <4>2, <5>2, <5>3 DEF Doomed
        <4>3. QED BY <2>5, <3>2, <4>1, <4>2 DEF Doomed
      <3>3. CASE Covers(op, v) /\ mut[f].acks <= Cardinality(Answered(f, v))
        <4> DEFINE A == Answered(f, v)
                   B == Answered(f, v)'
        <4>1. A \cup {p} \subseteq B
          <5>1. \A x \in A : x \in B
            <6> SUFFICES ASSUME NEW x \in A PROVE x \in B
              OBVIOUS
            <6>1. x \in conf.nodes /\ x \notin Pending(f) /\ Standing(x) >= v
              BY DEF Answered
            <6>2. Standing(x)' >= v
              BY <1>2, <1>11, <1>14, <2>3, <6>1, CopyPrimed, NodesLemma
            <6>3. QED BY <1>1, <1>17, <2>5, <6>1, <6>2 DEF Answered
          <5>2. p \in B
            BY <1>1, <1>5, <1>13, <1>17, <2>5, <3>1 DEF Answered
          <5>3. QED BY <5>1, <5>2
        <4>2. p \notin A /\ A \in SUBSET conf.nodes /\ B \in SUBSET conf.nodes
          BY <1>1, <1>17, <2>5 DEF Answered
        <4>3. mut[f].acks <= Cardinality(A)
          BY <3>3
        <4>4. mut'[f].acks = mut[f].acks + 1 /\ mut[f].acks \in Nat
          BY <1>7, <2>5
        <4> HIDE DEF A, B
        <4>5. IsFiniteSet(A) /\ Cardinality(A) \in Nat /\ IsFiniteSet(B) /\ Cardinality(B) \in Nat
          BY <1>2, <4>2, NodesLemma
        <4>6. Cardinality(A \cup {p}) = Cardinality(A) + 1
          BY <4>2, <4>5, FS_AddElement
        <4>7. Cardinality(A \cup {p}) <= Cardinality(B)
          BY <4>1, <4>5, FS_Subset
        <4>8. mut'[f].acks <= Cardinality(B)
          BY <4>3, <4>4, <4>5, <4>6, <4>7
        <4>9. Covers(op, v)'
          BY <1>16, <3>3
        <4>10. QED BY <2>5, <4>8, <4>9 DEF B
      <3>4. QED BY <2>2, <2>5, <3>2, <3>3
    <2>6. QED BY <1>9, <2>4, <2>5
  <1>23. Acks'
    <2>1. ASSUME NEW op \in acked PROVE Settled(op)'
      <3>1. PICK v \in Nat \ {0} : Covers(op, v) /\ \A q \in conf.nodes : Standing(q) >= v
        BY <1>2 DEF Acks, Settled
      <3>2. Covers(op, v)'
        BY <1>16, <3>1
      <3>3. \A q \in conf'.nodes : Standing(q)' >= v
        BY <1>1, <1>2, <1>11, <1>14, <3>1, CopyPrimed, NodesLemma
      <3>4. QED BY <3>2, <3>3 DEF Settled
    <2>2. QED BY <1>1, <2>1 DEF Acks
  <1>24. QED BY <1>11, <1>19, <1>20, <1>21, <1>22, <1>23 DEF Body

-----------------------------------------------------------------------------
(* The invariant, and what it means for the readers.                       *)

LEMMA InitInv == Init => RepInv
  <1> SUFFICES ASSUME Init PROVE RepInv
    OBVIOUS
  <1>1. /\ conf \in Configs /\ row = NoRow /\ copy = [n \in Node |-> NoRec] /\ seq = [n \in Node |-> 0]
        /\ mut = [n \in Node |-> Idle] /\ net = {} /\ serving = [n \in Node |-> None]
        /\ pulled = [n \in Node |-> None] /\ nops = 0 /\ acked = {}
    BY DEF Init
  <1>2. row.owner = NoOwner /\ row.token = 0 /\ row.max_token = 0
    BY <1>1 DEF NoRow
  <1>3. Types
    BY <1>1, <1>2, ReplicaAssumption DEF Types, Mutation
  <1>4. Calls = {} /\ \A n \in Node : mut[n] = Idle /\ Version(copy[n]) = 0
    BY <1>1 DEF Calls, Served, Version
  <1>5. Shape
    BY <1>1, <1>4 DEF Shape, Idle
  <1>6. Tokens
    BY <1>2, <1>4 DEF Tokens
  <1>7. Stamps
    <2>1. \A v \in Versions : v = 0
      BY <1>4 DEF Versions
    <2>2. 0 < Stamped(0 + 1, 0)
      BY ReplicaAssumption DEF Stamped
    <2>3. \A n \in Node : row.owner # n
      BY <1>2, ReplicaAssumption
    <2>4. QED BY <1>2, <1>4, <2>1, <2>2, <2>3 DEF Stamps
  <1>8. Sends
    BY <1>4 DEF Sends, Idle
  <1>9. Acks
    BY <1>1 DEF Acks
  <1>10. QED BY <1>1, <1>3, <1>5, <1>6, <1>7, <1>8, <1>9 DEF RepInv, Body

\* Strictness is given up, never gained.
LEMMA StrictStays ==
  ASSUME [Next]_vars PROVE conf' = conf /\ reused \subseteq reused' /\ (Strict' => Strict)
  <1>1. conf' = conf /\ reused \subseteq reused'
    BY DEF Next, Step, Lead, is_leader, ApplyLocally, Stamp, Send, GiveUp, Answer, Fence, ApplyReplica,
           Pull, sync_from, Restart, Tick, vars
  <1>2. QED BY <1>1 DEF Strict

LEMMA NextInv == RepInv /\ [Next]_vars => RepInv'
  <1> SUFFICES ASSUME RepInv, [Next]_vars, Strict' PROVE Body' /\ pulled' = [n \in Node |-> None]
    BY StrictStays DEF RepInv
  <1>1. Strict /\ Body /\ reused' = {} /\ conf.nodes \subseteq Node
    <2>1. Strict /\ Body /\ reused' = {}
      BY StrictStays DEF RepInv, Strict
    <2>2. QED BY <2>1, NodesLemma DEF Body
  <1>2. ASSUME NEW n \in conf.nodes, Step(n) PROVE Body'
    BY <1>1, <1>2, ApplyLocallyStep, StampStep, GiveUpStep, AnswerStep, ApplyReplicaStep, SendStep DEF Step
  <1>3. ASSUME NEW n \in conf.nodes, Lead(n) \/ is_leader(n) \/ Restart(n) PROVE Body'
    BY <1>1, <1>3, LeadStep, LeaderStep, RestartStep
  \* There is no anti-entropy here.
  <1>4. ASSUME NEW n \in conf.nodes, Pull(n) \/ sync_from(n) PROVE FALSE
    <2>1. ~conf.sync /\ pulled[n] = None
      BY <1>1 DEF Strict, RepInv
    <2>2. QED BY <1>4, <2>1 DEF Pull, sync_from
  <1>5. ASSUME NEW m \in net, Fence(m) PROVE Body'
    BY <1>1, <1>5, FenceStep
  <1>6. ASSUME Tick \/ UNCHANGED vars PROVE Body'
    BY <1>1, <1>6, TickStep
  <1>7. Body'
    BY <1>2, <1>3, <1>4, <1>5, <1>6 DEF Next
  <1>8. pulled' = [n \in Node |-> None]
    <2>1. pulled = [n \in Node |-> None]
      BY <1>1 DEF RepInv
    <2>2. pulled' = pulled \/ \E n \in conf.nodes : Restart(n)
      BY <1>4 DEF Next, Step, Lead, is_leader, ApplyLocally, Stamp, Send, GiveUp, Answer, Fence,
                  ApplyReplica, Tick, vars
    <2>3. QED BY <2>1, <2>2 DEF Restart
  <1>9. QED BY <1>7, <1>8

\* In a cluster that asks all nodes, leaders, calls and versions are always as
\* RepInv says: the invariant of _mutate and apply_replica_fenced together.
THEOREM ReplicationInvariance == Spec => []RepInv
  BY InitInv, NextInv, PTL DEF Spec

\* Among some replicas one has the newest version.
LEMMA NewestLemma ==
  ASSUME Types, Stamps, NEW S \in SUBSET Node, S # {}
  PROVE  \E r \in {copy[m] : m \in S} : \A m \in S : Version(r) >= Version(copy[m])
  <1>1. PICK b \in Nat : b = row.max_token
    BY DEF Types
  <1>2. PICK B \in Nat : B = Stamped(b + 1, 0)
    <2>1. b + 1 \in Nat /\ 0 \in Nat
      OBVIOUS
    <2>2. QED BY <2>1, StampedLemma
  <1>3. \A m \in S : Version(copy[m]) \in Nat /\ Version(copy[m]) < B
    BY <1>1, <1>2, CopyLemma DEF Stamps, Versions
  <1> DEFINE T == {B - Version(copy[m]) : m \in S}
  <1>4. T \subseteq Nat /\ T # {}
    BY <1>3
  <1> HIDE DEF T
  <1>5. PICK x \in T : \A y \in T : ~ (<<y, x>> \in OpToRel(<, Nat))
    BY <1>4, NatLessThanWellFounded, WFMin
  <1>6. \A y \in T : x <= y
    <2>1. \A i, j \in Nat : i < j => <<i, j>> \in OpToRel(<, Nat)
      BY DEF OpToRel
    <2>2. x \in Nat /\ \A y \in T : y \in Nat /\ ~(y < x)
      BY <1>4, <1>5, <2>1
    <2>3. QED BY <2>2
  <1>7. PICK m \in S : x = B - Version(copy[m])
    BY DEF T
  <1>8. ASSUME NEW q \in S PROVE Version(copy[m]) >= Version(copy[q])
    <2>1. B - Version(copy[q]) \in T
      BY DEF T
    <2>2. QED BY <1>3, <1>6, <1>7, <2>1
  <1>9. QED BY <1>8

LEMMA InvSurvives == RepInv => AckedSurvives
  <1> SUFFICES ASSUME RepInv, Strict, NEW n \in conf.nodes, NEW op \in acked, NEW r \in Reads(n)
               PROVE  op \in Ops(r)
    BY DEF AckedSurvives, Strict
  <1>1. Types /\ Stamps /\ conf.nodes \subseteq Node
    BY NodesLemma DEF RepInv, Body
  <1>2. \A p \in conf.nodes : op \in Ops(copy[p])
    BY DEF RepInv, Body, Acks, Settled, Covers
  <1>3. CASE r = copy[n]
    BY <1>2, <1>3
  <1>4. CASE r = copy[LeaderView(n)]
    <2>1. LeaderView(n) \in conf.nodes
      BY <1>1 DEF LeaderView, SqlHolder, Types
    <2>2. QED BY <1>2, <1>4, <2>1
  <1>5. ASSUME NEW S \in SUBSET conf.nodes, n \in S, r = QuorumGet(S) PROVE op \in Ops(r)
    <2>1. \E x \in {copy[m] : m \in S} : \A m \in S : Version(x) >= Version(copy[m])
      BY <1>1, <1>5, NewestLemma
    <2>2. r \in {copy[m] : m \in S}
      BY <1>5, <2>1 DEF QuorumGet
    <2>3. QED BY <1>2, <2>2
  <1>6. QED BY <1>3, <1>4, <1>5 DEF Reads

\* A write that all nodes acknowledged (_mutate returned) is in the history of
\* what any node answers ever after, to a local, a strong or a quorum read:
\* through failovers, timeouts and calls served late.
THEOREM AckedStays == Spec => []AckedSurvives
  BY ReplicationInvariance, InvSurvives, PTL

-----------------------------------------------------------------------------
(* The version tells the state: with any quorum, with anti-entropy, and    *)
(* with leaders that restart.  A record is wherever it is stored, sent,    *)
(* pulled or about to be sent; a node that has changed its copy and not    *)
(* stamped it yet is left out.                                             *)
View(r) == [v |-> r.v, text |-> r.text, ops |-> r.ops]
Held ==
  {View(copy[n]) : n \in {q \in Node : copy[q] # NoRec /\ mut[q].at # "stamp"}}
  \cup {View(m.rec) : m \in Calls}
  \cup {View(pulled[n]) : n \in {q \in Node : pulled[q] # None}}
  \cup {View(mut[n].rec) : n \in {q \in Node : mut[q].at = "send"}}
Known == {Version(copy[n]) : n \in Node} \cup {h.v : h \in Held}
Agree == \A g, h \in Held : g.v = h.v /\ g.v # 0 /\ g.v \div Stride \notin reused => g = h

Steady ==
  /\ \A n \in Node : seq[n] + (IF mut[n].at \in {"local", "stamp"} THEN 1 ELSE 0) <= nops
  /\ \A n \in Node : mut[n].at = "stamp" => copy[n] # NoRec
Under(t, k) == \A v \in Known : v <= Stamped(t, k) \/ v >= Stamped(t + 1, 0)
Fresh ==
  /\ \A v \in Known : v < Stamped(row.max_token + 1, 0)
  /\ \A n \in Node : row.owner = n /\ row.token \notin reused => Under(row.token, seq[n])
  /\ \A n \in Node : mut[n] # Idle /\ mut[n].token \notin reused => Under(mut[n].token, seq[n])
StateInv == Types /\ Steady /\ Tokens /\ Fresh /\ Agree

LEMMA HeldLemma ==
  ASSUME Types
  PROVE  /\ \A q \in Node : copy[q] # NoRec /\ mut[q].at # "stamp" => View(copy[q]) \in Held
         /\ \A m \in Calls : View(m.rec) \in Held
         /\ \A q \in Node : pulled[q] # None => View(pulled[q]) \in Held
         /\ \A q \in Node : mut[q].at = "send" => View(mut[q].rec) \in Held
         /\ \A q \in Node : Version(copy[q]) \in Known
         /\ \A h \in Held : h.v \in Known
         /\ Known \subseteq Nat
         /\ \A h \in Held : \/ \E q \in Node : copy[q] # NoRec /\ mut[q].at # "stamp" /\ h = View(copy[q])
                            \/ \E m \in Calls : h = View(m.rec)
                            \/ \E q \in Node : pulled[q] # None /\ h = View(pulled[q])
                            \/ \E q \in Node : mut[q].at = "send" /\ h = View(mut[q].rec)
  <1>1. \A h \in Held : \/ \E q \in Node : copy[q] # NoRec /\ mut[q].at # "stamp" /\ h = View(copy[q])
                        \/ \E m \in Calls : h = View(m.rec)
                        \/ \E q \in Node : pulled[q] # None /\ h = View(pulled[q])
                        \/ \E q \in Node : mut[q].at = "send" /\ h = View(mut[q].rec)
    BY DEF Held
  <1>2. \A r \in Record : View(r).v \in Nat
    BY DEF View, Record
  <1>3. \A q \in Node : /\ copy[q] # NoRec => copy[q] \in Record
                        /\ pulled[q] # None => pulled[q] \in Record
                        /\ mut[q].at = "send" => mut[q].rec \in Record
    BY MutLemma DEF Types
  <1>4. \A h \in Held : h.v \in Nat
    BY <1>1, <1>2, <1>3, CallsLemma
  <1>5. \A q \in Node : Version(copy[q]) \in Nat
    BY CopyLemma
  <1>6. Known \subseteq Nat
    BY <1>4, <1>5 DEF Known
  <1>7. /\ \A q \in Node : Version(copy[q]) \in Known
        /\ \A h \in Held : h.v \in Known
    BY DEF Known
  <1>8. /\ \A q \in Node : copy[q] # NoRec /\ mut[q].at # "stamp" => View(copy[q]) \in Held
        /\ \A m \in Calls : View(m.rec) \in Held
        /\ \A q \in Node : pulled[q] # None => View(pulled[q]) \in Held
        /\ \A q \in Node : mut[q].at = "send" => View(mut[q].rec) \in Held
    BY DEF Held
  <1>9. QED BY <1>1, <1>6, <1>7, <1>8

\* The steps that stamp nothing and take no lease.
Kept(q) ==
  \/ mut'[q] = Idle
  \/ mut'[q] = mut[q]
  \/ mut[q].at = "local" /\ mut'[q].at = "stamp" /\ mut'[q].token = mut[q].token
  \/ mut[q].at = "send" /\ mut'[q].at = "send" /\ mut'[q].token = mut[q].token /\ mut'[q].rec = mut[q].rec
Copied(q) ==
  /\ Version(copy'[q]) \in Known \cup {0}
  /\ mut'[q].at = "stamp" => copy'[q] # NoRec
  /\ \/ copy'[q] = NoRec \/ mut'[q].at = "stamp" \/ View(copy'[q]) \in Held
     \/ View(copy'[q]).v \div Stride \in reused' /\ View(copy'[q]).v \in Known
Counted(q) ==
  \/ seq'[q] = seq[q]
  \/ seq'[q] = 0 /\ mut'[q] = Idle /\ (row.owner = q => row.token \in reused')

LEMMA KeptStep ==
  ASSUME StateInv, Types', row' = row, nops' = nops, reused \subseteq reused',
         \A q \in Node : Kept(q) /\ Copied(q) /\ Counted(q),
         \A m \in Calls' : View(m.rec) \in Held,
         \A q \in Node : pulled'[q] # None => View(pulled'[q]) \in Held
  PROVE  StateInv'
  <1>1. Types /\ Steady /\ Tokens /\ Fresh /\ Agree
    BY DEF StateInv
  <1>2. \A q \in Node : mut'[q].at = "send" => mut[q].at = "send" /\ mut'[q].rec = mut[q].rec
    BY DEF Kept, Idle
  <1>3. \A q \in Node : mut'[q] # Idle => mut[q] # Idle /\ mut'[q].token = mut[q].token /\ seq'[q] = seq[q]
    BY DEF Kept, Counted, Idle
  <1>4. \A h \in Held' : h \in Held \/ (h.v \div Stride \in reused' /\ h.v \in Known)
    <2>1. \A h \in Held' : \/ \E q \in Node : copy'[q] # NoRec /\ mut'[q].at # "stamp" /\ h = View(copy'[q])
                           \/ \E m \in Calls' : h = View(m.rec)
                           \/ \E q \in Node : pulled'[q] # None /\ h = View(pulled'[q])
                           \/ \E q \in Node : mut'[q].at = "send" /\ h = View(mut'[q].rec)
      BY DEF Held, View
    <2>2. QED BY <1>1, <1>2, <2>1, HeldLemma DEF Copied
  <1>5. Known' \subseteq Known \cup {0}
    <2>1. \A h \in Held' : h.v \in Known
      BY <1>1, <1>4, HeldLemma
    <2>2. \A q \in Node : Version(copy'[q]) \in Known \cup {0}
      BY DEF Copied
    <2>3. QED BY <2>1, <2>2 DEF Known, Version
  <1>6. \A t, k \in Nat : Under(t, k) => Under(t, k)'
    <2> SUFFICES ASSUME NEW t \in Nat, NEW k \in Nat, Under(t, k) PROVE Under(t, k)'
      OBVIOUS
    <2>1. 0 <= Stamped(t, k)
      BY StampedLemma
    <2>2. QED BY <1>5, <2>1 DEF Under
  <1>7. Steady'
    <2> SUFFICES ASSUME NEW n \in Node
                 PROVE  /\ seq'[n] + (IF mut'[n].at \in {"local", "stamp"} THEN 1 ELSE 0) <= nops'
                        /\ mut'[n].at = "stamp" => copy'[n] # NoRec
      BY DEF Steady
    <2>1. seq[n] + (IF mut[n].at \in {"local", "stamp"} THEN 1 ELSE 0) <= nops
      BY <1>1 DEF Steady
    <2>2. seq[n] \in Nat /\ nops \in Nat
      BY <1>1, ReplicaAssumption DEF Types
    <2>3. mut'[n].at \in {"local", "stamp"} => mut[n].at \in {"local", "stamp"}
      BY DEF Kept, Idle
    <2>4. seq'[n] + (IF mut'[n].at \in {"local", "stamp"} THEN 1 ELSE 0) <= nops'
      <3>1. CASE seq'[n] = seq[n]
        BY <2>1, <2>2, <2>3, <3>1
      <3>2. CASE seq'[n] = 0 /\ mut'[n] = Idle
        BY <2>2, <3>2 DEF Idle
      <3>3. QED BY <3>1, <3>2 DEF Counted
    <2>5. QED BY <2>4 DEF Copied
  <1>8. Tokens'
    BY <1>1, <1>3 DEF Tokens
  <1>9. Fresh'
    <2>1. \A v \in Known' : v < Stamped(row'.max_token + 1, 0)
      <3>1. PICK a \in Nat : a = row.max_token
        BY <1>1 DEF Types
      <3>2. a + 1 \in Nat /\ a < a + 1 /\ 0 \in Nat /\ 0 <= MaxOps
        BY ReplicaAssumption
      <3>3. Stamped(a, 0) \in Nat /\ Stamped(a, 0) < Stamped(a + 1, 0) /\ Stamped(a + 1, 0) \in Nat
        BY <3>2, StampedLemma
      <3>4. QED BY <1>1, <1>5, <3>1, <3>3 DEF Fresh
    <2>2. ASSUME NEW n \in Node, row'.owner = n, row'.token \notin reused' PROVE Under(row.token, seq[n])'
      <3>1. PICK t \in Nat, k \in Nat : t = row.token /\ k = seq[n]
        BY <1>1 DEF Types
      <3>2. Under(t, k)'
        BY <1>1, <1>6, <2>2, <3>1 DEF Fresh
      <3>3. row'.token = t /\ seq'[n] = k
        BY <2>2, <3>1 DEF Counted
      <3>4. QED BY <3>2, <3>3 DEF Under
    <2>3. ASSUME NEW n \in Node, mut'[n] # Idle, mut'[n].token \notin reused' PROVE Under(mut[n].token, seq[n])'
      <3>1. PICK t \in Nat, k \in Nat : t = mut[n].token /\ k = seq[n]
        BY <1>1, <1>3, <2>3, MutLemma DEF Types
      <3>2. Under(t, k)'
        BY <1>1, <1>3, <1>6, <2>3, <3>1 DEF Fresh
      <3>3. mut'[n].token = t /\ seq'[n] = k
        BY <1>3, <2>3, <3>1
      <3>4. QED BY <3>2, <3>3 DEF Under
    <2>4. QED BY <2>1, <2>2, <2>3 DEF Fresh
  <1>10. Agree'
    BY <1>1, <1>4 DEF Agree
  <1>11. QED BY <1>7, <1>8, <1>9, <1>10 DEF StateInv

LEMMA CopiedLemma ==
  ASSUME Types, Steady, NEW q \in Node, copy'[q] = copy[q], mut'[q].at = "stamp" <=> mut[q].at = "stamp"
  PROVE  Copied(q)
  BY HeldLemma DEF Copied, Steady, View, Version

\* What a replica takes over is the record it is sent.
LEMMA TakenLemma ==
  ASSUME Types, NEW q \in Node, NEW r \in Record, View(r) \in Held,
         copy'[q] = guard_replica(copy[q], r)
  PROVE  Copied(q)
  <1>1. copy[q] \in Record \cup {NoRec}
    BY DEF Types
  <1>2. PICK c : c = guard_replica(copy[q], r)
    OBVIOUS
  <1>3. c \in Record /\ c.v = r.v /\ c.ops = r.ops
    BY <1>1, <1>2, RecordLemma
  <1>4. c.text = r.text
    BY <1>2 DEF guard_replica, Record
  <1>5. View(c) = View(r) /\ c # NoRec /\ Version(c) = View(r).v
    BY <1>3, <1>4, ReplicaAssumption DEF View, Version
  <1>6. View(r).v \in Known
    BY HeldLemma
  <1>7. QED BY <1>2, <1>5, <1>6 DEF Copied

LEMMA StateOfApplyLocally == ASSUME StateInv, NEW n \in conf.nodes, ApplyLocally(n) PROVE StateInv'
  <1> DEFINE M == [mut[n] EXCEPT !.at = "stamp"]
  <1>1. /\ mut[n].at = "local" /\ mut' = [mut EXCEPT ![n] = M]
        /\ UNCHANGED <<conf, row, seq, net, serving, pulled, nops, acked, reused>>
    BY DEF ApplyLocally
  <1>2. Types /\ Steady /\ n \in Node
    BY NodesLemma DEF StateInv
  <1>3. mut[n] \in [at : {"local", "stamp"}, token : Nat, op : 1..MaxOps]
    BY <1>1, <1>2, MutLemma
  <1>4. M \in Mutation /\ M.at = "stamp" /\ M.token = mut[n].token
    BY <1>3 DEF Mutation
  <1>5. PICK r : copy' = [copy EXCEPT ![n] = r] /\ r \in Record /\ (r.v = 0 \/ r.v = Version(copy[n]))
    <2>1. copy[n] \in Record \cup {NoRec} /\ mut[n].op \in 1..MaxOps
      BY <1>2, <1>3, CopyLemma
    <2>2. PICK r : /\ copy' = [copy EXCEPT ![n] = r]
                   /\ \/ \E x \in Text : r = LocalWrite(copy[n], x, mut[n].op)
                      \/ copy[n] # NoRec /\ r = LocalContradict(copy[n], mut[n].op)
      BY DEF ApplyLocally
    <2>3. QED BY <2>1, <2>2, LocalLemma
  <1> HIDE DEF M
  <1>6. /\ mut'[n] = M /\ (\A q \in Node \ {n} : mut'[q] = mut[q]) /\ mut' \in [Node -> Mutation]
        /\ copy'[n] = r /\ (\A q \in Node \ {n} : copy'[q] = copy[q]) /\ copy' \in [Node -> Record \cup {NoRec}]
    BY <1>1, <1>2, <1>4, <1>5 DEF Types
  <1>7. Types' /\ Calls' = Calls
    BY <1>1, <1>2, <1>6 DEF Types, Calls, Served
  <1>8. Copied(n)
    <2>1. r # NoRec /\ Version(r) = r.v
      BY <1>5, ReplicaAssumption DEF Version
    <2>2. QED BY <1>2, <1>4, <1>5, <1>6, <2>1, HeldLemma DEF Copied
  <1>9. \A q \in Node : Copied(q)
    BY <1>2, <1>6, <1>8, CopiedLemma
  <1>10. \A q \in Node : Kept(q) /\ Counted(q)
    BY <1>1, <1>4, <1>6 DEF Kept, Counted
  <1>11. QED BY <1>1, <1>2, <1>7, <1>9, <1>10, HeldLemma, KeptStep

\* A mutation goes on sending, or ends.
LEMMA StateOfSending ==
  ASSUME StateInv, Types', UNCHANGED <<row, copy, seq, pulled, nops, reused>>,
         \A q \in Node : mut'[q] # mut[q] =>
           /\ mut[q].at = "send"
           /\ mut'[q] = Idle \/ (mut'[q].at = "send" /\ mut'[q].token = mut[q].token /\ mut'[q].rec = mut[q].rec),
         \A m \in Calls' : View(m.rec) \in Held
  PROVE  StateInv'
  <1>1. Types /\ Steady
    BY DEF StateInv
  <1>2. \A q \in Node : Kept(q) /\ Counted(q)
    BY DEF Kept, Counted
  <1>3. \A q \in Node : Copied(q)
    BY <1>1, CopiedLemma DEF Idle
  <1>4. QED BY <1>1, <1>2, <1>3, HeldLemma, KeptStep

LEMMA StateOfSend ==
  ASSUME StateInv, NEW n \in conf.nodes, NEW p \in conf.nodes, Send(n, p) PROVE StateInv'
  <1> DEFINE c == [from |-> n, to |-> p, token |-> mut[n].token, rec |-> mut[n].rec]
             M == [mut[n] EXCEPT !.wait = p, !.todo = @ \ {p}]
  <1>1. /\ mut[n].at = "send" /\ mut' = [mut EXCEPT ![n] = M] /\ net' = net \cup {c}
        /\ UNCHANGED <<conf, row, copy, seq, serving, pulled, nops, acked, reused>>
    BY DEF Send
  <1>2. Types /\ n \in Node /\ p \in Node
    BY NodesLemma DEF StateInv
  <1>3. mut[n] \in [at : {"send"}, token : Nat, op : 1..MaxOps, rec : Record, todo : SUBSET Node,
                    wait : Node \cup {None}, acks : Nat]
    BY <1>1, <1>2, MutLemma
  <1>4. M \in Mutation /\ M.at = "send" /\ M.token = mut[n].token /\ M.rec = mut[n].rec
    BY <1>2, <1>3 DEF Mutation
  <1>5. c \in Call /\ c.rec = mut[n].rec
    BY <1>2, <1>3 DEF Call
  <1> HIDE DEF c, M
  <1>6. mut'[n] = M /\ (\A q \in Node \ {n} : mut'[q] = mut[q]) /\ mut' \in [Node -> Mutation]
    BY <1>1, <1>2, <1>4 DEF Types
  <1>7. Types' /\ Calls' = Calls \cup {c}
    BY <1>1, <1>2, <1>5, <1>6 DEF Types, Calls, Served
  <1>8. \A m \in Calls' : View(m.rec) \in Held
    BY <1>1, <1>2, <1>5, <1>7, HeldLemma
  <1>9. QED BY <1>1, <1>4, <1>6, <1>7, <1>8, StateOfSending

LEMMA StateOfEnd == ASSUME StateInv, NEW n \in conf.nodes, GiveUp(n) \/ Answer(n) PROVE StateInv'
  <1> DEFINE W == [mut[n] EXCEPT !.wait = None]
  <1>1. /\ mut[n].at = "send" /\ (mut' = [mut EXCEPT ![n] = Idle] \/ mut' = [mut EXCEPT ![n] = W])
        /\ UNCHANGED <<conf, row, copy, seq, net, serving, pulled, nops, reused>>
    BY DEF GiveUp, Answer
  <1>2. Types /\ n \in Node
    BY NodesLemma DEF StateInv
  <1>3. mut[n] \in [at : {"send"}, token : Nat, op : 1..MaxOps, rec : Record, todo : SUBSET Node,
                    wait : Node \cup {None}, acks : Nat]
    BY <1>1, <1>2, MutLemma
  <1>4. W \in Mutation /\ W.at = "send" /\ W.token = mut[n].token /\ W.rec = mut[n].rec /\ Idle \in Mutation
    BY <1>3 DEF Mutation
  <1> HIDE DEF W
  <1>5. /\ mut'[n] \in {Idle, W} /\ (\A q \in Node \ {n} : mut'[q] = mut[q])
        /\ mut' \in [Node -> Mutation]
    BY <1>1, <1>2, <1>4 DEF Types
  <1>6. Types' /\ Calls' = Calls
    BY <1>1, <1>2, <1>5 DEF Types, Calls, Served
  <1>7. QED BY <1>1, <1>2, <1>4, <1>5, <1>6, HeldLemma, StateOfSending

LEMMA StateOfFence == ASSUME StateInv, NEW m \in net, Fence(m) PROVE StateInv'
  <1>1. Types
    BY DEF StateInv
  <1>2. m \in Call /\ m.to \in Node /\ m.from \in Node /\ m \in Calls
    BY <1>1, CallsLemma
  <1>3. /\ net' = net \ {m} /\ UNCHANGED <<conf, row, copy, seq, pulled, nops, acked, reused>>
        /\ serving' = serving \/ serving' = [serving EXCEPT ![m.to] = m]
        /\ mut' = mut \/ (Awaited(m) /\ mut' = [mut EXCEPT ![m.from] = Idle])
    BY DEF Fence
  <1>4. mut' \in [Node -> Mutation] /\ \A q \in Node : mut'[q] # mut[q] => mut[q].at = "send" /\ mut'[q] = Idle
    BY <1>1, <1>2, <1>3 DEF Types, Mutation, Awaited
  <1>5. serving' \in [Node -> Call \cup {None}] /\ \A q \in Node : serving'[q] \in {serving[q], m}
    BY <1>1, <1>2, <1>3 DEF Types
  <1>6. Types'
    BY <1>1, <1>3, <1>4, <1>5 DEF Types
  <1>7. Calls' \subseteq Calls
    BY <1>2, <1>3, <1>5 DEF Calls, Served
  <1>8. QED BY <1>1, <1>3, <1>4, <1>6, <1>7, HeldLemma, StateOfSending

LEMMA StateOfApplyReplica == ASSUME StateInv, NEW p \in conf.nodes, ApplyReplica(p) PROVE StateInv'
  <1>0. PICK m : m = serving[p]
    OBVIOUS
  <1>1. /\ m # None /\ serving' = [serving EXCEPT ![p] = None]
        /\ copy' = IF KeepsMine(copy[p], m.rec) THEN copy
                   ELSE [copy EXCEPT ![p] = guard_replica(@, m.rec)]
        /\ UNCHANGED <<conf, row, seq, net, pulled, nops, acked, reused>>
    BY <1>0 DEF ApplyReplica
  <1>2. Types /\ Steady /\ p \in Node
    BY NodesLemma DEF StateInv
  <1>3. m \in Calls /\ m.rec \in Record /\ m.from \in Node /\ copy[p] \in Record \cup {NoRec}
    BY <1>0, <1>1, <1>2, CallsLemma DEF Types
  <1>4. PICK f \in Node : f = m.from
    BY <1>3
  <1> DEFINE M == [mut[f] EXCEPT !.wait = None, !.acks = @ + 1]
  <1>5. mut' = mut \/ (mut' = [mut EXCEPT ![f] = M] /\ mut[f].at = "send")
    BY <1>0, <1>4 DEF ApplyReplica, Awaited
  <1>6. mut[f].at = "send" => M \in Mutation /\ M.at = "send" /\ M.token = mut[f].token /\ M.rec = mut[f].rec
    <2> SUFFICES ASSUME mut[f].at = "send"
                 PROVE  M \in Mutation /\ M.at = "send" /\ M.token = mut[f].token /\ M.rec = mut[f].rec
      OBVIOUS
    <2>1. mut[f] \in [at : {"send"}, token : Nat, op : 1..MaxOps, rec : Record, todo : SUBSET Node,
                      wait : Node \cup {None}, acks : Nat]
      BY <1>2, MutLemma
    <2>2. /\ M \in [at : {"send"}, token : Nat, op : 1..MaxOps, rec : Record, todo : SUBSET Node,
                    wait : Node \cup {None}, acks : Nat]
          /\ M.at = "send" /\ M.token = mut[f].token /\ M.rec = mut[f].rec
      BY <2>1, CountedLemma
    <2> HIDE DEF M
    <2>3. QED BY <2>2 DEF Mutation
  <1> HIDE DEF M
  <1>7. mut' \in [Node -> Mutation] /\ \A q \in Node : mut'[q] = mut[q] \/ (mut[q].at = "send" /\ mut'[q] = M /\ q = f)
    BY <1>2, <1>5, <1>6 DEF Types
  <1>8. \A q \in Node : Kept(q) /\ Counted(q) /\ mut'[q].at = mut[q].at
    BY <1>1, <1>6, <1>7 DEF Kept, Counted
  <1>9. \/ copy' = copy
        \/ copy' = [copy EXCEPT ![p] = guard_replica(copy[p], m.rec)]
    BY <1>1
  <1>10. guard_replica(copy[p], m.rec) \in Record
    BY <1>3, RecordLemma
  <1>11. /\ copy' \in [Node -> Record \cup {NoRec}] /\ \A q \in Node \ {p} : copy'[q] = copy[q]
         /\ copy'[p] = copy[p] \/ copy'[p] = guard_replica(copy[p], m.rec)
    BY <1>2, <1>9, <1>10 DEF Types
  <1>12. serving' \in [Node -> Call \cup {None}] /\ \A q \in Node : serving'[q] \in {serving[q], None}
    BY <1>1, <1>2 DEF Types
  <1>13. Types'
    BY <1>1, <1>2, <1>7, <1>11, <1>12 DEF Types
  <1>14. Calls' \subseteq Calls
    BY <1>1, <1>12 DEF Calls, Served
  <1>15. View(m.rec) \in Held
    BY <1>2, <1>3, HeldLemma
  <1>16. \A q \in Node : Copied(q)
    BY <1>2, <1>3, <1>8, <1>11, <1>15, CopiedLemma, TakenLemma
  <1>17. QED BY <1>1, <1>2, <1>8, <1>13, <1>14, <1>16, HeldLemma, KeptStep

LEMMA StateOfSync == ASSUME StateInv, NEW n \in conf.nodes, Pull(n) \/ sync_from(n) PROVE StateInv'
  <1>1. UNCHANGED <<conf, row, seq, mut, net, serving, nops, acked, reused>>
    BY DEF Pull, sync_from
  <1>2. Types /\ Steady /\ n \in Node
    BY NodesLemma DEF StateInv
  <1>3. Calls' = Calls /\ \A q \in Node : Kept(q) /\ Counted(q)
    BY <1>1 DEF Calls, Served, Kept, Counted
  <1>4. CASE Pull(n)
    <2>1. PICK o : o = LeaderSource(n)
      OBVIOUS
    <2>2. /\ pulled' = [pulled EXCEPT ![n] = copy[o]] /\ copy' = copy
          /\ o # None /\ ~Locked(o) /\ copy[o] # NoRec
      BY <1>4, <2>1 DEF Pull
    <2>3. o \in Node
      BY <1>2, <2>1, <2>2, NodesLemma DEF LeaderSource, SqlHolder, Types
    <2>4. copy[o] \in Record /\ mut[o].at # "stamp"
      BY <1>2, <2>2, <2>3 DEF Types, Locked, Idle
    <2>5. pulled' \in [Node -> Record \cup {None}] /\ \A q \in Node : pulled'[q] \in {pulled[q], copy[o]}
      BY <1>2, <2>2, <2>4 DEF Types
    <2>6. Types'
      BY <1>1, <1>2, <2>2, <2>5 DEF Types
    <2>7. \A q \in Node : pulled'[q] # None => View(pulled'[q]) \in Held
      BY <1>2, <2>2, <2>3, <2>4, <2>5, HeldLemma
    <2>8. \A q \in Node : Copied(q)
      BY <1>1, <1>2, <2>2, CopiedLemma
    <2>9. QED BY <1>1, <1>2, <1>3, <2>6, <2>7, <2>8, HeldLemma, KeptStep
  <1>5. CASE sync_from(n)
    <2>1. PICK r : r = pulled[n]
      OBVIOUS
    <2>2. /\ r # None /\ copy' = [copy EXCEPT ![n] = guard_replica(copy[n], r)]
          /\ pulled' = [pulled EXCEPT ![n] = None]
      BY <1>5, <2>1 DEF sync_from
    <2>3. r \in Record /\ copy[n] \in Record \cup {NoRec} /\ View(r) \in Held
      BY <1>2, <2>1, <2>2, HeldLemma DEF Types
    <2>4. guard_replica(copy[n], r) \in Record
      BY <2>3, RecordLemma
    <2>5. /\ copy' \in [Node -> Record \cup {NoRec}] /\ copy'[n] = guard_replica(copy[n], r)
          /\ \A q \in Node \ {n} : copy'[q] = copy[q]
      BY <1>2, <2>2, <2>4 DEF Types
    <2>6. pulled' \in [Node -> Record \cup {None}] /\ \A q \in Node : pulled'[q] \in {pulled[q], None}
      BY <1>2, <2>2 DEF Types
    <2>7. Types'
      BY <1>1, <1>2, <2>5, <2>6 DEF Types
    <2>8. \A q \in Node : Copied(q)
      BY <1>1, <1>2, <2>3, <2>5, CopiedLemma, TakenLemma
    <2>9. QED BY <1>1, <1>2, <1>3, <2>6, <2>7, <2>8, HeldLemma, KeptStep
  <1>6. QED BY <1>4, <1>5

\* What a leader changed and did not stamp, it has under an old version.
LEMMA StateOfRestart == ASSUME StateInv, NEW n \in conf.nodes, Restart(n) PROVE StateInv'
  <1>1. /\ seq' = [seq EXCEPT ![n] = 0] /\ mut' = [mut EXCEPT ![n] = Idle]
        /\ serving' = [serving EXCEPT ![n] = None] /\ pulled' = [pulled EXCEPT ![n] = None]
        /\ reused \subseteq reused' /\ (row.owner = n => row.token \in reused')
        /\ (mut[n].at = "stamp" => TokenOf(copy[n]) \in reused')
        /\ UNCHANGED <<conf, row, copy, net, nops, acked>>
    BY DEF Restart
  <1>2. Types /\ Steady /\ n \in Node
    BY NodesLemma DEF StateInv
  <1>3. /\ seq' \in [Node -> Nat] /\ seq'[n] = 0 /\ \A q \in Node \ {n} : seq'[q] = seq[q]
    BY <1>1, <1>2 DEF Types
  <1>4. /\ mut' \in [Node -> Mutation] /\ mut'[n] = Idle /\ \A q \in Node \ {n} : mut'[q] = mut[q]
    BY <1>1, <1>2 DEF Types, Mutation
  <1>5. /\ serving' \in [Node -> Call \cup {None}] /\ \A q \in Node : serving'[q] \in {serving[q], None}
        /\ pulled' \in [Node -> Record \cup {None}] /\ \A q \in Node : pulled'[q] \in {pulled[q], None}
    BY <1>1, <1>2 DEF Types
  <1>6. Types'
    BY <1>1, <1>2, <1>3, <1>4, <1>5 DEF Types
  <1>7. Calls' \subseteq Calls
    BY <1>1, <1>5 DEF Calls, Served
  <1>8. \A q \in Node : Kept(q) /\ Counted(q)
    BY <1>1, <1>3, <1>4 DEF Kept, Counted
  <1>9. Copied(n)
    <2>1. Version(copy'[n]) \in Known /\ copy' = copy /\ mut'[n].at # "stamp"
      BY <1>1, <1>2, <1>4, HeldLemma DEF Idle, Version
    <2>2. CASE mut[n].at = "stamp"
      <3>1. copy[n] # NoRec
        BY <1>2, <2>2 DEF Steady
      <3>2. View(copy[n]).v = Version(copy[n])
        BY <3>1 DEF View, Version
      <3>3. View(copy'[n]).v \div Stride \in reused' /\ View(copy'[n]).v \in Known
        BY <1>1, <2>1, <2>2, <3>2 DEF TokenOf, Version, View
      <3>4. QED BY <2>1, <3>3 DEF Copied
    <2>3. CASE mut[n].at # "stamp"
      BY <1>2, <2>1, <2>3, CopiedLemma
    <2>4. QED BY <2>2, <2>3
  <1>10. \A q \in Node : Copied(q)
    BY <1>1, <1>2, <1>4, <1>9, CopiedLemma
  <1>11. QED BY <1>1, <1>2, <1>5, <1>6, <1>7, <1>8, <1>10, HeldLemma, KeptStep

LEMMA StateOfTick == ASSUME StateInv, Tick \/ UNCHANGED vars PROVE StateInv'
  <1>1. UNCHANGED <<conf, row, copy, seq, mut, net, serving, pulled, nops, acked, reused>>
    BY DEF Tick, vars
  <1>2. Types
    BY DEF StateInv
  <1>3. Types' /\ Calls' = Calls
    BY <1>1, <1>2 DEF Types, Calls, Served
  <1>4. QED BY <1>1, <1>2, <1>3, HeldLemma, StateOfSending

LEMMA GrantLemma ==
  ASSUME Types, Tokens, Fresh, NEW n \in conf.nodes, row' = SqlAcquire(row, n, clock, Ttl)
  PROVE  /\ row'.owner = n /\ row'.token = row'.max_token /\ row'.max_token \in Nat
         /\ row'.max_token >= row.max_token
         /\ \A p \in Node \ {n} : mut[p] # Idle => mut[p].token # row'.token
         /\ \A v \in Known : v < Stamped(row'.max_token + 1, 0)
         /\ row'.token \notin reused => Under(row'.token, seq[n])
  <1> DEFINE t == SqlGrant(row, n, clock)
  <1>1. row.max_token \in Nat /\ row.token \in Nat /\ n \in Node /\ n # NoOwner /\ seq[n] \in Nat
    BY NodesLemma, ReplicaAssumption DEF Types
  <1>2. \/ t = row.token /\ row.owner = n /\ row.token = row.max_token
        \/ t = row.max_token + 1
    BY <1>1 DEF SqlGrant, Tokens
  <1>3. /\ row'.owner = n /\ row'.token = t
        /\ row'.max_token = IF t > row.max_token THEN t ELSE row.max_token
    BY DEF SqlAcquire
  <1> HIDE DEF t
  <1>4. /\ row'.owner = n /\ row'.token = row'.max_token /\ row'.max_token \in Nat
        /\ row'.max_token >= row.max_token
    BY <1>1, <1>2, <1>3
  <1>5. CASE t = row.token /\ row.owner = n /\ row.token = row.max_token
    <2>1. row'.token = row.token /\ row'.max_token = row.max_token
      BY <1>1, <1>3, <1>5
    <2>2. \A p \in Node \ {n} : mut[p] # Idle => mut[p].token # row'.token
      BY <1>5, <2>1 DEF Tokens
    <2>3. /\ row'.token \notin reused => Under(row'.token, seq[n])
          /\ \A v \in Known : v < Stamped(row'.max_token + 1, 0)
      BY <1>1, <1>5, <2>1 DEF Fresh
    <2>4. QED BY <1>4, <2>2, <2>3
  <1>6. CASE t = row.max_token + 1
    <2>1. PICK a \in Nat : a = row.max_token + 1 /\ row'.token = a /\ row'.max_token = a
      BY <1>1, <1>3, <1>6
    <2>2. \A p \in Node : mut[p] # Idle => mut[p].token \in Nat /\ mut[p].token <= row.max_token
      BY MutLemma DEF Tokens
    <2>3. \A p \in Node \ {n} : mut[p] # Idle => mut[p].token # row'.token
      BY <1>1, <2>1, <2>2
    <2>4. \A v \in Known : v < Stamped(a, 0)
      BY <2>1 DEF Fresh
    <2>5. \A v \in Known : v < Stamped(a + 1, 0) /\ v <= Stamped(a, seq[n])
      BY <1>1, <2>4, HeldLemma, NewTokenLemma
    <2>6. QED BY <1>4, <2>1, <2>3, <2>5 DEF Under
  <1>7. QED BY <1>2, <1>5, <1>6

LEMMA StateOfLead == ASSUME StateInv, NEW n \in conf.nodes, Lead(n) \/ is_leader(n) PROVE StateInv'
  <1> DEFINE M == [at |-> "local", token |-> row'.token, op |-> nops + 1]
  <1>1. Types /\ Steady /\ Tokens /\ Fresh /\ Agree /\ n \in Node /\ nops \in Nat
    BY NodesLemma, ReplicaAssumption DEF StateInv, Types
  <1>2. /\ row' = SqlAcquire(row, n, clock, Ttl)
        /\ \/ mut' = mut /\ nops' = nops
           \/ mut[n] = Idle /\ nops < MaxOps /\ nops' = nops + 1 /\ mut' = [mut EXCEPT ![n] = M]
        /\ UNCHANGED <<conf, copy, seq, net, serving, pulled, acked, reused>>
    BY DEF Lead, Locked, is_leader
  <1>3. /\ row'.owner = n /\ row'.token = row'.max_token /\ row'.max_token \in Nat
        /\ row'.max_token >= row.max_token
        /\ \A p \in Node \ {n} : mut[p] # Idle => mut[p].token # row'.token
        /\ \A v \in Known : v < Stamped(row'.max_token + 1, 0)
        /\ row'.token \notin reused => Under(row'.token, seq[n])
    BY <1>1, <1>2, GrantLemma
  <1>4. /\ M.at = "local" /\ M.token = row'.token /\ M # Idle
        /\ nops < MaxOps => M \in Mutation /\ nops + 1 \in 0..MaxOps
    BY <1>1, <1>3, ReplicaAssumption DEF Mutation, Idle
  <1> HIDE DEF M
  <1>5. /\ \A q \in Node \ {n} : mut'[q] = mut[q]
        /\ (mut'[n] = mut[n] /\ nops' = nops) \/ (mut[n] = Idle /\ mut'[n] = M /\ nops' = nops + 1)
        /\ mut' \in [Node -> Mutation] /\ nops' \in 0..MaxOps
    BY <1>1, <1>2, <1>4 DEF Types
  <1>6. Types'
    BY <1>1, <1>2, <1>3, <1>5 DEF Types
  <1>7. \A q \in Node : /\ mut'[q].at = "stamp" <=> mut[q].at = "stamp"
                        /\ mut'[q].at = "send" <=> mut[q].at = "send"
                        /\ mut'[q].at = "send" => mut'[q] = mut[q]
    BY <1>4, <1>5 DEF Idle
  <1>8. Held' = Held /\ Known' = Known
    <2>1. Calls' = Calls
      BY <1>2 DEF Calls, Served
    <2>2. Held' = Held
      BY <1>2, <1>7, <2>1 DEF Held
    <2>3. QED BY <1>2, <2>2 DEF Known
  <1>9. Steady'
    <2>1. \A q \in Node : seq[q] \in Nat /\ seq[q] + (IF mut[q].at \in {"local", "stamp"} THEN 1 ELSE 0) <= nops
      BY <1>1 DEF Steady, Types
    <2>2. \A q \in Node : seq[q] + (IF mut'[q].at \in {"local", "stamp"} THEN 1 ELSE 0) <= nops'
      BY <1>1, <1>4, <1>5, <2>1 DEF Idle
    <2>3. QED BY <1>1, <1>2, <1>7, <2>2 DEF Steady
  <1>10. Tokens'
    <2>1. \A p \in Node : mut[p] # Idle => mut[p].token \in Nat /\ mut[p].token <= row.max_token
      BY <1>1, MutLemma DEF Tokens
    <2>2. \A p \in Node : mut'[p] # Idle => mut'[p].token <= row'.max_token
      BY <1>1, <1>3, <1>4, <1>5, <2>1 DEF Types
    <2>3. \A p \in Node : mut'[p] # Idle /\ row'.owner # p => mut'[p].token # row'.token
      BY <1>3, <1>5
    <2>4. \A p, q \in Node : mut'[p] # Idle /\ mut'[q] # Idle /\ p # q => mut'[p].token # mut'[q].token
      <3> SUFFICES ASSUME NEW p \in Node, NEW q \in Node, mut'[p] # Idle, mut'[q] # Idle, p # q
                   PROVE  mut'[p].token # mut'[q].token
        OBVIOUS
      <3>1. CASE mut'[p] = mut[p] /\ mut'[q] = mut[q]
        BY <1>1, <3>1 DEF Tokens
      <3>2. CASE p = n /\ mut'[n] = M
        BY <1>3, <1>4, <1>5, <3>2
      <3>3. CASE q = n /\ mut'[n] = M
        BY <1>3, <1>4, <1>5, <3>3
      <3>4. QED BY <1>5, <3>1, <3>2, <3>3
    <2>5. QED BY <1>3, <2>2, <2>3, <2>4 DEF Tokens
  <1>11. Fresh'
    <2>1. PICK t, k : t = row'.token /\ k = seq[n]
      OBVIOUS
    <2>2. t \notin reused => Under(t, k)'
      BY <1>3, <1>8, <2>1 DEF Under
    <2>3. ASSUME NEW q \in Node, row'.owner = q, row'.token \notin reused' PROVE Under(row.token, seq[q])'
      <3>1. q = n /\ seq'[q] = k /\ row'.token = t /\ t \notin reused
        BY <1>2, <1>3, <2>1, <2>3
      <3>2. QED BY <2>2, <3>1 DEF Under
    <2>4. ASSUME NEW q \in Node, mut'[q] # Idle, mut'[q].token \notin reused' PROVE Under(mut[q].token, seq[q])'
      <3>1. CASE mut'[q] = mut[q]
        <4>1. Under(mut[q].token, seq[q])
          BY <1>1, <1>2, <2>4, <3>1 DEF Fresh
        <4>2. QED BY <1>2, <1>8, <3>1, <4>1 DEF Under
      <3>2. CASE q = n /\ mut'[n] = M
        <4>1. mut'[q].token = t /\ seq'[q] = k /\ t \notin reused
          BY <1>2, <1>4, <2>1, <2>4, <3>2
        <4>2. QED BY <2>2, <4>1 DEF Under
      <3>3. QED BY <1>5, <3>1, <3>2
    <2>5. QED BY <1>3, <1>8, <2>3, <2>4 DEF Fresh
  <1>12. Agree'
    BY <1>1, <1>2, <1>8 DEF Agree
  <1>13. QED BY <1>6, <1>9, <1>10, <1>11, <1>12 DEF StateInv

LEMMA TokenLemma ==
  ASSUME NEW t \in Nat, NEW i \in Nat, i <= MaxOps PROVE Stamped(t, i) \div Stride = t
  <1>1. PICK x \in Nat : x = t * Stride + i
    BY ReplicaAssumption
  <1>2. PICK d \in Int, m \in 0..(Stride - 1) : d = x \div Stride /\ m = x % Stride /\ x = Stride * d + m
    BY ReplicaAssumption
  <1>3. Stride * (d - t) = i - m
    BY <1>1, <1>2, ReplicaAssumption
  <1>4. d - t = 0
    <2>1. ASSUME d - t >= 1 PROVE FALSE
      <3>1. Stride * (d - t) >= Stride
        BY <1>2, <2>1, ReplicaAssumption
      <3>2. QED BY <1>2, <1>3, <3>1, ReplicaAssumption
    <2>2. ASSUME d - t <= -1 PROVE FALSE
      <3>1. Stride * (d - t) <= -Stride
        BY <1>2, <2>2, ReplicaAssumption
      <3>2. QED BY <1>2, <1>3, <3>1, ReplicaAssumption
    <2>3. QED BY <1>2, <2>1, <2>2
  <1>5. QED BY <1>1, <1>2, <1>4 DEF Stamped

LEMMA StateOfStamp == ASSUME StateInv, NEW n \in conf.nodes, Stamp(n) PROVE StateInv'
  <1>0. PICK t, s, V : t = mut[n].token /\ s = seq[n] /\ V = Stamped(t, s + 1)
    OBVIOUS
  <1> DEFINE r == [copy[n] EXCEPT !.v = V]
             M == [at |-> "send", token |-> t, op |-> mut[n].op, rec |-> r,
                   todo |-> conf.nodes \ {n}, wait |-> None, acks |-> 1]
  <1>1. /\ mut[n].at = "stamp" /\ copy' = [copy EXCEPT ![n] = r] /\ mut' = [mut EXCEPT ![n] = M]
        /\ seq' = [seq EXCEPT ![n] = @ + 1]
        /\ UNCHANGED <<conf, row, net, serving, pulled, nops, acked, reused>>
    BY <1>0 DEF Stamp
  <1>2. Types /\ Steady /\ Tokens /\ Fresh /\ Agree /\ n \in Node
    BY NodesLemma DEF StateInv
  <1>3. /\ mut[n] \in [at : {"local", "stamp"}, token : Nat, op : 1..MaxOps]
        /\ mut[n] # Idle /\ copy[n] \in Record /\ t \in Nat /\ s \in Nat
    <2>1. mut[n] \in [at : {"local", "stamp"}, token : Nat, op : 1..MaxOps] /\ mut[n] # Idle /\ s \in Nat
      BY <1>0, <1>1, <1>2, MutLemma, CopyLemma DEF Idle
    <2>2. QED BY <1>0, <1>1, <1>2, <2>1, CopyLemma DEF Steady
  <1>4. PICK i \in Nat : i = s + 1 /\ i <= MaxOps /\ i <= nops
    <2>1. s + 1 <= nops /\ nops \in 0..MaxOps
      BY <1>0, <1>1, <1>2 DEF Steady, Types
    <2>2. QED BY <1>3, <2>1, ReplicaAssumption
  <1>5. V = Stamped(t, i) /\ V \in Nat /\ V \div Stride = t
    BY <1>0, <1>3, <1>4, StampedLemma, TokenLemma
  <1>6. r \in Record /\ r.v = V /\ r # NoRec /\ Version(r) = V
    <2>1. r \in Record /\ r.v = V
      BY <1>3, <1>5 DEF Record
    <2> HIDE DEF r
    <2>2. QED BY <2>1, ReplicaAssumption DEF Version
  <1> HIDE DEF r
  <1>7. M \in Mutation /\ M.at = "send" /\ M.token = t /\ M.rec = r /\ M # Idle
    <2>1. conf.nodes \ {n} \in SUBSET Node
      BY <1>2, NodesLemma
    <2>2. QED BY <1>3, <1>6, <2>1 DEF Mutation, Idle
  <1> HIDE DEF M
  <1>8. /\ mut'[n] = M /\ (\A q \in Node \ {n} : mut'[q] = mut[q]) /\ mut' \in [Node -> Mutation]
        /\ copy'[n] = r /\ (\A q \in Node \ {n} : copy'[q] = copy[q]) /\ copy' \in [Node -> Record \cup {NoRec}]
        /\ seq'[n] = i /\ (\A q \in Node \ {n} : seq'[q] = seq[q]) /\ seq' \in [Node -> Nat]
    BY <1>0, <1>1, <1>2, <1>4, <1>6, <1>7 DEF Types
  <1>9. Types' /\ Calls' = Calls
    BY <1>1, <1>2, <1>8 DEF Types, Calls, Served
  <1>10. \A h \in Held' : h \in Held \/ h = View(r)
    <2>1. \A h \in Held' : \/ \E q \in Node : copy'[q] # NoRec /\ mut'[q].at # "stamp" /\ h = View(copy'[q])
                           \/ \E m \in Calls' : h = View(m.rec)
                           \/ \E q \in Node : pulled'[q] # None /\ h = View(pulled'[q])
                           \/ \E q \in Node : mut'[q].at = "send" /\ h = View(mut'[q].rec)
      BY DEF Held, View
    <2>2. QED BY <1>1, <1>2, <1>7, <1>8, <1>9, <2>1, HeldLemma
  <1>11. View(r).v = V
    BY <1>6 DEF View
  <1>12. Known' \subseteq Known \cup {V} /\ Known \subseteq Nat
    <2>1. \A q \in Node : Version(copy'[q]) \in Known \cup {V}
      BY <1>2, <1>6, <1>8, HeldLemma
    <2>2. \A h \in Held' : h.v \in Known \cup {V}
      BY <1>2, <1>10, <1>11, HeldLemma
    <2>3. Known' = {Version(copy'[q]) : q \in Node} \cup {h.v : h \in Held'}
      BY DEF Known, Version
    <2>4. QED BY <1>2, <2>1, <2>2, <2>3, HeldLemma
  <1>13. \A q \in Node : mut'[q] # Idle => mut[q] # Idle /\ mut'[q].token = mut[q].token
    BY <1>0, <1>3, <1>7, <1>8
  <1>14. Steady'
    <2> SUFFICES ASSUME NEW q \in Node
                 PROVE  /\ seq'[q] + (IF mut'[q].at \in {"local", "stamp"} THEN 1 ELSE 0) <= nops'
                        /\ mut'[q].at = "stamp" => copy'[q] # NoRec
      BY DEF Steady
    <2>1. CASE q = n
      BY <1>1, <1>4, <1>7, <1>8, <2>1
    <2>2. CASE q # n
      BY <1>1, <1>2, <1>8, <2>2 DEF Steady
    <2>3. QED BY <2>1, <2>2
  <1>15. Tokens'
    BY <1>1, <1>2, <1>13 DEF Tokens
  \* Under another token nothing was stamped, and under this one the next.
  <1>16. \A a, k \in Nat : a # t /\ Under(a, k) => Under(a, k)'
    <2> SUFFICES ASSUME NEW a \in Nat, NEW k \in Nat, a # t, Under(a, k) PROVE Under(a, k)'
      OBVIOUS
    <2>1. V <= Stamped(a, k) \/ V >= Stamped(a + 1, 0)
      BY <1>3, <1>4, <1>5, ApartLemma
    <2>2. QED BY <1>12, <2>1 DEF Under
  <1>17. \A a, k, j \in Nat : k <= j /\ Under(a, k)' => Under(a, j)'
    <2> SUFFICES ASSUME NEW a \in Nat, NEW k \in Nat, NEW j \in Nat, k <= j, Under(a, k)' PROVE Under(a, j)'
      OBVIOUS
    <2>1. Stamped(a, k) <= Stamped(a, j) /\ Stamped(a, k) \in Nat /\ Stamped(a, j) \in Nat
      BY StampedLemma
    <2>2. \A v \in Known' : v \in Nat
      BY <1>5, <1>12
    <2>3. QED BY <2>1, <2>2 DEF Under
  <1>18. t \notin reused => Under(t, s) /\ Under(t, i)'
    <2> SUFFICES ASSUME t \notin reused PROVE Under(t, s) /\ Under(t, i)'
      OBVIOUS
    <2>1. Under(t, s)
      BY <1>0, <1>2, <1>3 DEF Fresh
    <2>2. Stamped(t, s) \in Nat /\ Stamped(t, s) < V
      <3>1. s < i
        BY <1>3, <1>4
      <3>2. QED BY <1>3, <1>4, <1>5, <3>1, StampedLemma
    <2>3. \A v \in Known \cup {V} : v <= V \/ v >= Stamped(t + 1, 0)
      BY <1>5, <1>12, <2>1, <2>2 DEF Under
    <2>4. QED BY <1>5, <1>12, <2>1, <2>3 DEF Under
  <1>19. Fresh'
    <2>1. \A v \in Known' : v < Stamped(row'.max_token + 1, 0)
      <3>1. PICK c \in Nat : c = row.max_token /\ t <= c
        BY <1>0, <1>2, <1>3 DEF Types, Tokens
      <3>2. c + 1 \in Nat /\ t < c + 1 /\ 0 \in Nat
        BY <1>3, <3>1
      <3>3. V < Stamped(c + 1, 0)
        BY <1>3, <1>4, <1>5, <3>2, StampedLemma
      <3>4. QED BY <1>1, <1>2, <1>12, <3>1, <3>3 DEF Fresh
    <2>2. ASSUME NEW q \in Node, row'.owner = q, row'.token \notin reused' PROVE Under(row.token, seq[q])'
      <3>1. PICK a \in Nat, k \in Nat, j \in Nat : a = row.token /\ k = seq[q] /\ j = seq'[q] /\ k <= j
        BY <1>0, <1>2, <1>4, <1>8 DEF Types
      <3>2. row.owner = q /\ Under(a, k) /\ row'.token = a /\ a \notin reused
        BY <1>1, <1>2, <2>2, <3>1 DEF Fresh
      <3>3. CASE a = t
        <4>1. q = n
          BY <1>0, <1>2, <1>3, <3>1, <3>2, <3>3 DEF Tokens
        <4>2. QED BY <1>8, <1>18, <3>2, <3>3, <4>1 DEF Under
      <3>4. CASE a # t
        <4>1. Under(a, j)'
          BY <1>16, <1>17, <3>1, <3>2, <3>4
        <4>2. QED BY <3>1, <3>2, <4>1 DEF Under
      <3>5. QED BY <3>3, <3>4
    <2>3. ASSUME NEW q \in Node, mut'[q] # Idle, mut'[q].token \notin reused' PROVE Under(mut[q].token, seq[q])'
      <3>1. CASE q = n
        <4>1. mut'[q].token = t /\ seq'[q] = i /\ t \notin reused
          BY <1>1, <1>7, <1>8, <2>3, <3>1
        <4>2. QED BY <1>18, <4>1 DEF Under
      <3>2. CASE q # n
        <4>1. PICK a \in Nat, k \in Nat : a = mut[q].token /\ k = seq[q]
          BY <1>2, <1>13, <2>3, MutLemma DEF Types
        <4>2. a # t /\ Under(a, k)
          BY <1>0, <1>1, <1>2, <1>3, <1>13, <2>3, <3>2, <4>1 DEF Tokens, Fresh
        <4>3. Under(a, k)' /\ mut'[q].token = a /\ seq'[q] = k
          BY <1>8, <1>16, <3>2, <4>1, <4>2
        <4>4. QED BY <4>3 DEF Under
      <3>3. QED BY <3>1, <3>2
    <2>4. QED BY <2>1, <2>2, <2>3 DEF Fresh
  \* So the version is new, or of a token that is not told apart.
  <1>20. Agree'
    <2>1. ASSUME t \notin reused PROVE \A h \in Held : h.v # V
      <3>1. \A v \in Known : v # V
        <4>1. Stamped(t, s) \in Nat /\ Stamped(t, s) < V
          <5>1. s < i
            BY <1>3, <1>4
          <5>2. QED BY <1>3, <1>4, <1>5, <5>1, StampedLemma
        <4>2. V < Stamped(t + 1, 0) /\ Stamped(t + 1, 0) \in Nat
          <5>1. t + 1 \in Nat /\ t < t + 1 /\ 0 \in Nat
            BY <1>3
          <5>2. QED BY <1>3, <1>4, <1>5, <5>1, StampedLemma
        <4>3. QED BY <1>5, <1>12, <1>18, <2>1, <4>1, <4>2 DEF Under
      <3>2. QED BY <1>2, <3>1, HeldLemma
    <2>2. ASSUME NEW g \in Held', NEW h \in Held', g.v = h.v, g.v # 0, g.v \div Stride \notin reused'
          PROVE  g = h
      <3>1. CASE g \in Held /\ h \in Held
        BY <1>1, <1>2, <2>2, <3>1 DEF Agree
      <3>2. CASE g.v = V
        <4>1. t \notin reused
          BY <1>1, <1>5, <2>2, <3>2
        <4>2. QED BY <1>10, <2>1, <2>2, <3>2, <4>1
      <3>3. QED BY <1>10, <1>11, <2>2, <3>1, <3>2
    <2>3. QED BY <2>2 DEF Agree
  <1>21. QED BY <1>9, <1>14, <1>15, <1>19, <1>20 DEF StateInv

LEMMA StateInit == Init => StateInv
  <1> SUFFICES ASSUME Init PROVE StateInv
    OBVIOUS
  <1>1. /\ conf \in Configs /\ row = NoRow /\ copy = [n \in Node |-> NoRec] /\ seq = [n \in Node |-> 0]
        /\ mut = [n \in Node |-> Idle] /\ net = {} /\ serving = [n \in Node |-> None]
        /\ pulled = [n \in Node |-> None] /\ nops = 0 /\ reused = {}
    BY DEF Init
  <1>2. row.owner = NoOwner /\ row.token = 0 /\ row.max_token = 0
    BY <1>1 DEF NoRow
  <1>3. Types
    BY <1>1, <1>2, ReplicaAssumption DEF Types, Mutation
  <1>4. Calls = {} /\ \A n \in Node : mut[n] = Idle /\ copy[n] = NoRec /\ pulled[n] = None /\ seq[n] = 0
    BY <1>1 DEF Calls, Served
  <1>5. Held = {}
    BY <1>3, <1>4, HeldLemma DEF Idle
  <1>6. \A v \in Known : v = 0
    BY <1>4, <1>5 DEF Known, Version
  <1>7. Steady
    BY <1>1, <1>4 DEF Steady, Idle
  <1>8. Tokens
    BY <1>2, <1>4 DEF Tokens
  <1>9. Fresh
    <2>1. 0 < Stamped(0 + 1, 0)
      BY ReplicaAssumption DEF Stamped
    <2>2. \A n \in Node : row.owner # n
      BY <1>2, ReplicaAssumption
    <2>3. QED BY <1>2, <1>4, <1>6, <2>1, <2>2 DEF Fresh
  <1>10. Agree
    BY <1>5 DEF Agree
  <1>11. QED BY <1>3, <1>7, <1>8, <1>9, <1>10 DEF StateInv

LEMMA StateNext == StateInv /\ [Next]_vars => StateInv'
  <1> SUFFICES ASSUME StateInv, [Next]_vars PROVE StateInv'
    OBVIOUS
  <1>1. ASSUME NEW n \in conf.nodes, Step(n) PROVE StateInv'
    BY <1>1, StateOfApplyLocally, StateOfStamp, StateOfEnd, StateOfApplyReplica, StateOfSend DEF Step
  <1>2. ASSUME NEW n \in conf.nodes, Lead(n) \/ is_leader(n) \/ Pull(n) \/ sync_from(n) \/ Restart(n)
        PROVE  StateInv'
    BY <1>2, StateOfLead, StateOfSync, StateOfRestart
  <1>3. ASSUME NEW m \in net, Fence(m) PROVE StateInv'
    BY <1>3, StateOfFence
  <1>4. CASE Tick \/ UNCHANGED vars
    BY <1>4, StateOfTick
  <1>5. QED BY <1>1, <1>2, <1>3, <1>4 DEF Next

\* Whatever the quorum, with reconcilers and restarts: no two leaders share a
\* token, and nothing is stamped twice under a token whose leader did not restart.
THEOREM StateInvariance == Spec => []StateInv
  BY StateInit, StateNext, PTL DEF Spec

LEMMA StateTells == StateInv => VersionTellsContent
  <1> SUFFICES ASSUME StateInv, NEW n \in Node, NEW m \in Node,
                      Clean(copy[n]), Clean(copy[m]), copy[n].v = copy[m].v,
                      mut[n].at # "stamp", mut[m].at # "stamp"
               PROVE  SameState(copy[n], copy[m])
    BY DEF VersionTellsContent
  <1>1. Types /\ Agree
    BY DEF StateInv
  <1>2. copy[n] # NoRec /\ copy[m] # NoRec /\ copy[n].v # 0 /\ copy[n].v \div Stride \notin reused
    BY DEF Clean, TokenOf, Version
  <1>3. View(copy[n]) \in Held /\ View(copy[m]) \in Held
    BY <1>1, <1>2, HeldLemma
  <1>4. View(copy[n]).v = copy[n].v /\ View(copy[m]).v = copy[m].v
    BY DEF View
  <1>5. View(copy[n]) = View(copy[m])
    BY <1>1, <1>2, <1>3, <1>4 DEF Agree
  <1>6. QED BY <1>5 DEF View, SameState

\* replicated.py:40-42 for the tokens whose leader did not restart: of copies with
\* one version the texts and histories are the same, wherever they are, so that
\* comparing versions, as apply_replica_fenced and quorum_get do, compares states.
THEOREM VersionTells == Spec => []VersionTellsContent
  BY StateInvariance, StateTells, PTL

-----------------------------------------------------------------------------
(* Rejections.  guard_replica keeps what was noted of a value, and a local *)
(* change only notes more.                                                 *)

LEMMA GuardLedger ==
  ASSUME NEW old \in Record \cup {NoRec}, NEW new \in Record
  PROVE  Ledger(old) \subseteq Ledger(guard_replica(old, new))
  <1>1. PICK r : r = guard_replica(old, new)
    OBVIOUS
  <1>2. r \in Record /\ r.ledger = Ledger(old) \cup new.ledger
    <2>1. r \in Record
      BY <1>1, RecordLemma
    <2>2. r.ledger = Ledger(old) \cup new.ledger
      BY <1>1 DEF guard_replica, Record, Ledger
    <2>3. QED BY <2>1, <2>2
  <1>3. Ledger(r) = r.ledger
    BY <1>2, ReplicaAssumption DEF Ledger
  <1>4. QED BY <1>1, <1>2, <1>3

LEMMA LocalLedger ==
  ASSUME NEW old \in Record \cup {NoRec}, NEW op, NEW r,
         \/ \E t \in Text : r = LocalWrite(old, t, op)
         \/ old # NoRec /\ r = LocalContradict(old, op),
         r \in Record
  PROVE  Ledger(old) \subseteq Ledger(r)
  <1>1. CASE old = NoRec
    BY <1>1 DEF Ledger
  <1>2. CASE old # NoRec
    <2>1. old \in Record /\ Ledger(old) = old.ledger /\ Ledger(r) = r.ledger
      BY <1>2, ReplicaAssumption DEF Ledger
    <2>2. ASSUME NEW t \in Text, r = LocalWrite(old, t, op) PROVE old.ledger \subseteq r.ledger
      <3>1. CASE old.text = t
        BY <1>2, <2>1, <2>2, <3>1 DEF LocalWrite, Record
      <3>2. CASE old.text # t
        BY <1>2, <2>2, <3>2 DEF LocalWrite, SupersedeLedger
      <3>3. QED BY <3>1, <3>2
    <2>3. CASE r = LocalContradict(old, op)
      BY <2>1, <2>3 DEF LocalContradict, Record
    <2>4. QED BY <1>2, <2>1, <2>2, <2>3
  <1>3. QED BY <1>1, <1>2

LEMMA LedgerStep == StateInv /\ [Next]_vars => \A n \in Node : Ledger(copy[n]) \subseteq Ledger(copy'[n])
  <1> SUFFICES ASSUME StateInv, [Next]_vars PROVE \A n \in Node : Ledger(copy[n]) \subseteq Ledger(copy'[n])
    OBVIOUS
  <1>1. Types /\ Steady /\ conf.nodes \subseteq Node
    BY NodesLemma DEF StateInv
  <1>2. ASSUME NEW p \in Node, NEW c, copy' = [copy EXCEPT ![p] = c], Ledger(copy[p]) \subseteq Ledger(c)
        PROVE  \A n \in Node : Ledger(copy[n]) \subseteq Ledger(copy'[n])
    BY <1>1, <1>2 DEF Types
  <1>3. ASSUME NEW p \in conf.nodes, ApplyLocally(p)
        PROVE  \A n \in Node : Ledger(copy[n]) \subseteq Ledger(copy'[n])
    <2>1. /\ copy[p] \in Record \cup {NoRec} /\ p \in Node /\ mut[p].op \in 1..MaxOps
      <3>1. p \in Node /\ mut[p] # Idle
        BY <1>1, <1>3 DEF ApplyLocally, Idle
      <3>2. QED BY <1>1, <3>1, CopyLemma, MutLemma
    <2>2. PICK r : /\ copy' = [copy EXCEPT ![p] = r]
                   /\ \/ \E x \in Text : r = LocalWrite(copy[p], x, mut[p].op)
                      \/ copy[p] # NoRec /\ r = LocalContradict(copy[p], mut[p].op)
      BY <1>3 DEF ApplyLocally
    <2>3. r \in Record
      BY <2>1, <2>2, LocalLemma
    <2>4. Ledger(copy[p]) \subseteq Ledger(r)
      BY <2>1, <2>2, <2>3, LocalLedger
    <2>5. QED BY <1>2, <2>1, <2>2, <2>4
  <1>4. ASSUME NEW p \in conf.nodes, Stamp(p)
        PROVE  \A n \in Node : Ledger(copy[n]) \subseteq Ledger(copy'[n])
    <2>1. p \in Node /\ copy[p] \in Record
      BY <1>1, <1>4 DEF Stamp, Steady, Types
    <2>2. PICK V : V = Stamped(mut[p].token, seq[p] + 1)
      OBVIOUS
    <2>3. PICK r : r = [copy[p] EXCEPT !.v = V] /\ copy' = [copy EXCEPT ![p] = r]
      BY <1>4, <2>2 DEF Stamp
    <2>4. r.ledger = copy[p].ledger
      BY <2>1, <2>3 DEF Record
    <2>5. Ledger(copy[p]) \subseteq Ledger(r)
      <3>1. V \in Nat
        <4>1. mut[p].token \in Nat /\ seq[p] \in Nat /\ seq[p] + 1 \in Nat
          BY <1>1, <1>4, <2>1, MutLemma, CopyLemma DEF Stamp, Idle
        <4>2. QED BY <2>2, <4>1, StampedLemma
      <3>2. r \in Record
        BY <2>1, <2>3, <3>1 DEF Record
      <3>3. QED BY <2>1, <2>4, <3>2, ReplicaAssumption DEF Ledger
    <2>6. QED BY <1>2, <2>1, <2>3, <2>5
  <1>5. ASSUME NEW p \in conf.nodes, ApplyReplica(p) \/ sync_from(p)
        PROVE  \A n \in Node : Ledger(copy[n]) \subseteq Ledger(copy'[n])
    <2>1. copy[p] \in Record \cup {NoRec} /\ p \in Node
      BY <1>1 DEF Types
    <2>2. copy' = copy \/ \E r \in Record : copy' = [copy EXCEPT ![p] = guard_replica(copy[p], r)]
      <3>1. CASE ApplyReplica(p)
        <4>1. PICK m : m = serving[p]
          OBVIOUS
        <4>2. m # None /\ (copy' = copy \/ copy' = [copy EXCEPT ![p] = guard_replica(copy[p], m.rec)])
          BY <3>1, <4>1 DEF ApplyReplica
        <4>3. m.rec \in Record
          BY <1>1, <2>1, <4>1, <4>2, CallsLemma
        <4>4. QED BY <4>2, <4>3
      <3>2. CASE sync_from(p)
        BY <1>1, <2>1, <3>2 DEF sync_from, Types
      <3>3. QED BY <1>5, <3>1, <3>2
    <2>3. QED BY <1>2, <2>1, <2>2, GuardLedger
  <1>6. CASE copy' = copy
    BY <1>6
  <1>7. copy' = copy \/ \E p \in conf.nodes : ApplyLocally(p) \/ Stamp(p) \/ ApplyReplica(p) \/ sync_from(p)
    BY DEF Next, Step, Lead, is_leader, Pull, Restart, GiveUp, Answer, Send, Fence, Tick, vars
  <1>8. QED BY <1>3, <1>4, <1>5, <1>6, <1>7

\* What was rejected at a node stays in its record's ledger, whichever leader,
\* stale or new, replicates or is copied (apply_replica behind guard_replica).
THEOREM LedgersOnlyGrow == Spec => LedgerGrows
  <1>1. StateInv /\ [Next]_vars => [\A n \in Node : Ledger(copy[n]) \subseteq Ledger(copy'[n])]_vars
    BY LedgerStep
  <1>2. QED BY <1>1, StateInvariance, PTL DEF Spec, LedgerGrows

\* Times and names, beside StateInv.
Rest == clock \in 0..conf.time /\ acked \cup reused \subseteq Nat

\* Every node holds at most one record, under a version of an issued token, and
\* no _seq passes the number of mutations.
THEOREM ReplicaTypes == Spec => []TypeOK
  <1>1. Init => Rest
    <2> SUFFICES ASSUME Init PROVE Rest
      OBVIOUS
    <2>1. conf.time \in Nat /\ clock = 0 /\ acked = {} /\ reused = {}
      BY ReplicaAssumption DEF Init
    <2>2. QED BY <2>1 DEF Rest
  <1>2. StateInv /\ Rest /\ [Next]_vars => Rest'
    <2> SUFFICES ASSUME StateInv, Rest, [Next]_vars PROVE Rest'
      OBVIOUS
    <2>1. Types /\ conf.nodes \subseteq Node /\ conf.time \in Nat
      BY NodesLemma, ReplicaAssumption DEF StateInv, Types
    <2>2. conf' = conf
      BY StrictStays
    <2>3. clock' \in 0..conf.time
      <3>1. clock' = clock \/ (clock < conf.time /\ clock' = clock + 1)
        BY DEF Next, Step, Lead, is_leader, ApplyLocally, Stamp, Send, GiveUp, Answer, Fence, ApplyReplica,
               Pull, sync_from, Restart, Tick, vars
      <3>2. QED BY <2>1, <3>1 DEF Rest
    <2>4. acked' \subseteq Nat
      <3>1. acked' = acked \/ \E n \in conf.nodes : mut[n].at = "send" /\ acked' \subseteq acked \cup {mut[n].op}
        BY DEF Next, Step, Lead, is_leader, ApplyLocally, Stamp, Send, GiveUp, Answer, Fence, ApplyReplica,
               Pull, sync_from, Restart, Tick, vars
      <3>2. \A n \in Node : mut[n].at = "send" => mut[n].op \in Nat
        BY <2>1, MutLemma, ReplicaAssumption DEF Idle
      <3>3. QED BY <2>1, <3>1, <3>2 DEF Rest
    <2>5. reused' \subseteq Nat
      <3>1. \/ reused' = reused
            \/ \E n \in conf.nodes : reused' \subseteq reused \cup {row.token, TokenOf(copy[n])}
        BY DEF Next, Step, Lead, is_leader, ApplyLocally, Stamp, Send, GiveUp, Answer, Fence, ApplyReplica,
               Pull, sync_from, Restart, Tick, vars
      <3>2. \A v \in Nat : v \div Stride \in Nat
        BY ReplicaAssumption
      <3>3. \A n \in Node : TokenOf(copy[n]) \in Nat
        BY <2>1, <3>2, CopyLemma DEF TokenOf
      <3>4. QED BY <2>1, <3>1, <3>3 DEF Rest, Types
    <2>6. QED BY <2>2, <2>3, <2>4, <2>5 DEF Rest
  <1>3. StateInv /\ Rest => TypeOK
    <2> SUFFICES ASSUME StateInv, Rest PROVE TypeOK
      OBVIOUS
    <2>1. Types /\ Steady /\ Fresh
      BY DEF StateInv
    <2>2. \A n \in Node : seq[n] \in 0..MaxOps
      <3>1. nops \in 0..MaxOps /\ \A n \in Node : seq[n] \in Nat /\ (seq[n] <= nops \/ seq[n] + 1 <= nops)
        BY <2>1 DEF Types, Steady
      <3>2. QED BY <3>1, ReplicaAssumption
    <2>3. \A n \in Node : Version(copy[n]) < Stamped(row.max_token + 1, 0)
      BY <2>1, HeldLemma DEF Fresh
    <2>4. seq \in [Node -> 0..MaxOps]
      BY <2>1, <2>2 DEF Types
    <2>5. \A n \in Node : mut[n].at \in {"idle", "local", "stamp", "send"}
      BY <2>1, MutLemma
    <2>6. QED BY <2>1, <2>3, <2>4, <2>5 DEF TypeOK, Rest, Types
  <1>4. QED BY <1>1, <1>2, <1>3, StateInvariance, PTL DEF Spec
=============================================================================
