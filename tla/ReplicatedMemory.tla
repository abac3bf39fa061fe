-------------------------- MODULE ReplicatedMemory --------------------------
(***************************************************************************)
(* memory/replicated.py behind the hosted server of memory/hosted.py: one  *)
(* record on the nodes of a cluster.  A mutation runs under its server's   *)
(* lock and holds it through the calls to the peers; so does the handler   *)
(* of /replicate on the peer.  A call that timed out at the leader may     *)
(* still be served later.  The anti-entropy thread of a node copies the    *)
(* leader's record without that lock, between any two steps.  Records of   *)
(* other ids are independent, peers are tried in any order, decay is local *)
(* maintenance and left out.                                               *)
(***************************************************************************)
EXTENDS Integers, FiniteSets, LeaseStore

CONSTANTS Node, Text, NoRec, None,
          Ttl,
          MaxOps,           \* bound: mutations in all
          Stride,           \* _VERSION_STRIDE
          Configs           \* [nodes, quorum, sync]: the cluster, its write_quorum
                            \*   and whether AntiEntropy runs; with two bounds,
                            \*   [restarts, time]

Idle == [at |-> "idle"]
Record == [text : Text, rejected : BOOLEAN, ledger : SUBSET Text,
           v : Nat, ops : SUBSET (1..MaxOps)]
Call == [from : Node, to : Node, token : Nat, rec : Record]   \* of /replicate

ASSUME ReplicaAssumption ==
  /\ Ttl \in Nat \ {0} /\ MaxOps \in Nat
  /\ Stride \in Nat /\ Stride > MaxOps
  /\ Configs \subseteq [nodes : SUBSET Node, quorum : 1..Cardinality(Node),
                       sync : BOOLEAN, restarts : Nat, time : Nat]
  /\ IsFiniteSet(Node) /\ NoOwner \notin Node
  /\ NoRec \notin Record /\ None \notin Node \cup Call

VARIABLES
  conf,       \* the cluster's configuration
  clock, row, \* the lease of the cluster key
  copy,       \* node -> its record: text, rejected, ledger, version; and the
              \*   history "ops", the mutations its state descends from
  seq,        \* node -> _seq, in memory only
  mut,        \* node -> the mutation its server is executing
  net,        \* /replicate calls under way
  serving,    \* node -> the /replicate call its handler has let through
  pulled,     \* node -> the record its anti-entropy thread has read
  nops, crashes,
  acked,      \* history: mutations answered as done
  reused      \* history: tokens whose leader restarted, and of records that
              \*   a leader changed and, restarting, did not stamp
vars == <<conf, clock, row, copy, seq, mut, net, serving, pulled, nops,
          crashes, acked, reused>>

Version(r) == IF r = NoRec THEN 0 ELSE r.v
TokenOf(r) == Version(r) \div Stride
Ledger(r) == IF r = NoRec THEN {} ELSE r.ledger
Ops(r) == IF r = NoRec THEN {} ELSE r.ops
Locked(n) == mut[n] # Idle \/ serving[n] # None

-----------------------------------------------------------------------------
(* The local store: write (memory/local.py), contradict to the end, and    *)
(* apply_replica with its guard.                                           *)

SupersedeLedger(old) == old.ledger \cup (IF old.rejected THEN {old.text} ELSE {})

LocalWrite(old, text, op) ==
  IF old = NoRec
    THEN [text |-> text, rejected |-> FALSE, ledger |-> {}, v |-> 0, ops |-> {op}]
  ELSE IF old.text = text THEN [old EXCEPT !.ops = @ \cup {op}]
  ELSE [text |-> text, rejected |-> FALSE, ledger |-> SupersedeLedger(old),
        v |-> 0, ops |-> old.ops \cup {op}]

LocalContradict(old, op) ==
  [old EXCEPT !.rejected = TRUE, !.ledger = @ \cup {old.text}, !.ops = @ \cup {op}]

\* The ledgers are merged, and a value in the result is rejected.
guard_replica(old, new) ==
  LET merged == Ledger(old) \cup new.ledger IN
  [new EXCEPT !.ledger = merged, !.rejected = @ \/ new.text \in merged]

-----------------------------------------------------------------------------
(* _mutate                                                                 *)

Stamped(token, n) == token * Stride + n

\* _lead: the lease is acquired, or renewed under its token.
Lead(n) ==
  /\ ~Locked(n) /\ nops < MaxOps /\ ~SqlBlocked(row, n, clock)
  /\ row' = SqlAcquire(row, n, clock, Ttl)
  /\ nops' = nops + 1
  /\ mut' = [mut EXCEPT ![n] =
       [at |-> "local", token |-> row'.token, op |-> nops + 1]]
  /\ UNCHANGED <<conf, clock, copy, seq, net, serving, pulled, crashes, acked, reused>>

\* is_leader(): anybody may ask, and asking acquires.
is_leader(n) ==
  /\ ~SqlBlocked(row, n, clock)
  /\ row' = SqlAcquire(row, n, clock, Ttl)
  /\ UNCHANGED <<conf, clock, copy, seq, mut, net, serving, pulled, nops,
                 crashes, acked, reused>>

\* local_call(); a mutation of a record that does not exist returns None.
ApplyLocally(n) ==
  /\ mut[n].at = "local"
  /\ \/ \E t \in Text : copy' = [copy EXCEPT ![n] = LocalWrite(@, t, mut[n].op)]
     \/ /\ copy[n] # NoRec
        /\ copy' = [copy EXCEPT ![n] = LocalContradict(@, mut[n].op)]
  /\ mut' = [mut EXCEPT ![n].at = "stamp"]
  /\ UNCHANGED <<conf, clock, row, seq, net, serving, pulled, nops, crashes, acked, reused>>

\* annotate(_v=...) reads the record again: what it stamps and sends is what
\* is there by now.
Stamp(n) ==
  /\ mut[n].at = "stamp"
  /\ LET r == [copy[n] EXCEPT !.v = Stamped(mut[n].token, seq[n] + 1)] IN
     /\ copy' = [copy EXCEPT ![n] = r]
     /\ mut' = [mut EXCEPT ![n] =
          [at |-> "send", token |-> mut[n].token, op |-> mut[n].op, rec |-> r,
           todo |-> conf.nodes \ {n}, wait |-> None, acks |-> 1]]
  /\ seq' = [seq EXCEPT ![n] = @ + 1]
  /\ UNCHANGED <<conf, clock, row, net, serving, pulled, nops, crashes, acked, reused>>

Send(n, p) ==
  /\ mut[n].at = "send" /\ mut[n].wait = None /\ p \in mut[n].todo
  /\ mut' = [mut EXCEPT ![n].wait = p, ![n].todo = @ \ {p}]
  /\ net' = net \cup {[from |-> n, to |-> p, token |-> mut[n].token, rec |-> mut[n].rec]}
  /\ UNCHANGED <<conf, clock, row, copy, seq, serving, pulled, nops, crashes, acked, reused>>

\* Is the leader still waiting for the answer to this call?
Awaited(m) == /\ mut[m.from].at = "send" /\ mut[m.from].wait = m.to
              /\ mut[m.from].rec = m.rec

\* "unreachable follower: best-effort": the call failed or timed out.
GiveUp(n) ==
  /\ mut[n].at = "send" /\ mut[n].wait # None
  /\ mut' = [mut EXCEPT ![n].wait = None]
  /\ UNCHANGED <<conf, clock, row, copy, seq, net, serving, pulled, nops,
                 crashes, acked, reused>>

\* Below the quorum ReplicationError is raised and the write stays.
Answer(n) ==
  /\ mut[n].at = "send" /\ mut[n].wait = None /\ mut[n].todo = {}
  /\ acked' = IF mut[n].acks < conf.quorum THEN acked ELSE acked \cup {mut[n].op}
  /\ mut' = [mut EXCEPT ![n] = Idle]
  /\ UNCHANGED <<conf, clock, row, copy, seq, net, serving, pulled, nops, crashes, reused>>

-----------------------------------------------------------------------------
(* apply_replica_fenced on the follower, under its server's lock.  The     *)
(* token is compared first; a successor may take the lease before the      *)
(* record is applied.                                                      *)

Fence(m) ==
  /\ m \in net /\ ~Locked(m.to)
  /\ net' = net \ {m}
  /\ IF m.token < row.max_token
       THEN /\ mut' = IF Awaited(m) THEN [mut EXCEPT ![m.from] = Idle] ELSE mut
            /\ UNCHANGED serving
       ELSE serving' = [serving EXCEPT ![m.to] = m] /\ UNCHANGED mut
  /\ UNCHANGED <<conf, clock, row, copy, seq, pulled, nops, crashes, acked, reused>>

\* Bug: redelivered or reordered copies are applied too.
KeepsMineNever(old, new) == FALSE

\* "incoming copy is older than what we hold".
KeepsMine(old, new) == old # NoRec /\ Version(old) > Version(new)

ApplyReplica(p) ==
  /\ serving[p] # None
  /\ LET m == serving[p] IN
     /\ copy' = IF KeepsMine(copy[p], m.rec) THEN copy
                ELSE [copy EXCEPT ![p] = guard_replica(@, m.rec)]
     /\ mut' = IF Awaited(m)
                 THEN [mut EXCEPT ![m.from].wait = None, ![m.from].acks = @ + 1]
                 ELSE mut
  /\ serving' = [serving EXCEPT ![p] = None]
  /\ UNCHANGED <<conf, clock, row, seq, net, pulled, nops, crashes, acked, reused>>

-----------------------------------------------------------------------------
(* AntiEntropy.tick: resolve the leader, read its records (under its       *)
(* server's lock), apply each without looking at the versions.             *)

LeaderSource(n) ==
  LET o == SqlHolder(row, clock) IN IF o = NoOwner \/ o = n THEN None ELSE o

Pull(n) ==
  /\ conf.sync /\ n \in conf.nodes /\ pulled[n] = None /\ LeaderSource(n) # None
  /\ ~Locked(LeaderSource(n)) /\ copy[LeaderSource(n)] # NoRec
  /\ pulled' = [pulled EXCEPT ![n] = copy[LeaderSource(n)]]
  /\ UNCHANGED <<conf, clock, row, copy, seq, mut, net, serving, nops, crashes, acked, reused>>

\* Bug: a newer copy is kept, as in apply_replica_fenced.
SyncNewest(n) ==
  /\ pulled[n] # None
  /\ copy' = IF KeepsMine(copy[n], pulled[n]) THEN copy
             ELSE [copy EXCEPT ![n] = guard_replica(@, pulled[n])]
  /\ pulled' = [pulled EXCEPT ![n] = None]
  /\ UNCHANGED <<conf, clock, row, seq, mut, net, serving, nops, crashes, acked, reused>>

sync_from(n) ==
  /\ pulled[n] # None
  /\ copy' = [copy EXCEPT ![n] = guard_replica(@, pulled[n])]
  /\ pulled' = [pulled EXCEPT ![n] = None]
  /\ UNCHANGED <<conf, clock, row, seq, mut, net, serving, nops, crashes, acked, reused>>

\* The process restarts: the record is on disk, _seq is not.
Restart(n) ==
  /\ crashes < conf.restarts
  /\ crashes' = crashes + 1
  /\ seq' = [seq EXCEPT ![n] = 0]
  /\ mut' = [mut EXCEPT ![n] = Idle]
  /\ serving' = [serving EXCEPT ![n] = None]
  /\ pulled' = [pulled EXCEPT ![n] = None]
  /\ reused' = reused \cup (IF row.owner = n THEN {row.token} ELSE {})
                      \cup (IF mut[n].at = "stamp" THEN {TokenOf(copy[n])} ELSE {})
  /\ UNCHANGED <<conf, clock, row, copy, net, nops, acked>>

Tick ==
  /\ clock < conf.time /\ clock' = clock + 1
  /\ UNCHANGED <<conf, row, copy, seq, mut, net, serving, pulled, nops, crashes,
                 acked, reused>>

Init ==
  /\ conf \in Configs /\ clock = 0 /\ row = NoRow
  /\ copy = [n \in Node |-> NoRec] /\ seq = [n \in Node |-> 0]
  /\ mut = [n \in Node |-> Idle] /\ net = {}
  /\ serving = [n \in Node |-> None] /\ pulled = [n \in Node |-> None]
  /\ nops = 0 /\ crashes = 0 /\ acked = {} /\ reused = {}

Step(n) == \/ ApplyLocally(n) \/ Stamp(n) \/ GiveUp(n) \/ Answer(n)
           \/ ApplyReplica(n) \/ \E p \in conf.nodes : Send(n, p)
Next ==
  \/ \E n \in conf.nodes : Lead(n) \/ is_leader(n) \/ Step(n) \/ Pull(n) \/ sync_from(n)
                     \/ Restart(n)
  \/ \E m \in net : Fence(m)
  \/ Tick

Spec == Init /\ [][Next]_vars

\* A started call answers or times out, the reconciler's loop goes on, and
\* some client goes on asking for the leader: without that the lease runs
\* out and no follower knows whom to copy.
FairSpec ==
  /\ Spec
  /\ \A n \in Node : WF_vars(Step(n)) /\ WF_vars(sync_from(n)) /\ SF_vars(Pull(n))
  /\ WF_vars(Tick)
  /\ WF_vars(\E n \in conf.nodes : SqlHolder(row, clock) = NoOwner /\ is_leader(n))

-----------------------------------------------------------------------------
(* Reads: eventual and strong get, and the first read_quorum replicas that *)
(* answer, in any order (sources is a dict the operator fills).            *)

LeaderView(n) ==
  LET o == SqlHolder(row, clock) IN IF o = NoOwner \/ o = n THEN n ELSE o
QuorumGet(S) ==
  CHOOSE r \in {copy[m] : m \in S} : \A m \in S : Version(r) >= Version(copy[m])
Reads(n) == {copy[n], copy[LeaderView(n)]}
            \cup {QuorumGet(S) : S \in {T \in SUBSET conf.nodes : n \in T}}

-----------------------------------------------------------------------------
\* Every node holds at most one record, under a version of an issued token.
TypeOK ==
  /\ conf \in Configs /\ clock \in 0..conf.time /\ row.max_token \in Nat
  /\ copy \in [Node -> Record \cup {NoRec}]
  /\ seq \in [Node -> 0..MaxOps]
  /\ \A n \in Node : /\ Version(copy[n]) < Stamped(row.max_token + 1, 0)
                     /\ mut[n].at \in {"idle", "local", "stamp", "send"}
  /\ acked \cup reused \subseteq Nat

\* replicated.py:40-42: the version tells which copy is freshest, so copies of
\* one version are the same state, wherever they are.  Tokens under which a
\* leader restarted are left out: _seq starts again.
SameState(r, s) == r.text = s.text /\ r.ops = s.ops
Clean(r) == r # NoRec /\ r.v # 0 /\ TokenOf(r) \notin reused
VersionTellsContent ==
  \A n, m \in Node :
    Clean(copy[n]) /\ Clean(copy[m]) /\ copy[n].v = copy[m].v
    /\ mut[n].at # "stamp" /\ mut[m].at # "stamp"
    => SameState(copy[n], copy[m])

\* With a quorum of all nodes and no anti-entropy, a write that was answered
\* as done is in the history of what any node answers afterwards, to a local,
\* a strong or a quorum read: through failovers, timeouts and calls served
\* late.  (With less than all, or with sync_from, it is not:
\* the contract of replicated.py:9-10 does not hold.)
AckedSurvives ==
  conf.quorum = Cardinality(conf.nodes) /\ ~conf.sync /\ reused = {} =>
    \A n \in conf.nodes, op \in acked : \A r \in Reads(n) : op \in Ops(r)

\* What was rejected at a node stays rejected there, whichever leader,
\* stale or new, replicates or is copied.
LedgerGrows == [][\A n \in Node : Ledger(copy[n]) \subseteq Ledger(copy'[n])]_vars

\* Once the mutations have stopped and somebody leads, the reconcilers bring
\* every node to the state of the leader.
Converges ==
  <>[](conf.sync /\ SqlHolder(row, clock) # NoOwner =>
       \A n \in conf.nodes : copy[LeaderView(n)] # NoRec =>
         copy[n] # NoRec /\ SameState(copy[n], copy[LeaderView(n)]))

\* replicated.py:9-10: "a write is durable once a write_quorum of nodes hold it".
AckedIsDurable == \A op \in acked : \E n \in Node : op \in Ops(copy[n])
-----------------------------------------------------------------------------
(* Values for the model checker: two nodes with reconcilers and the default *)
(* quorum; three nodes that must all hold a write; two with a restart.      *)
Few(k) == CHOOSE S \in SUBSET Node : Cardinality(S) = k
Cluster(k, quorum, sync, restarts, time) ==
  [nodes |-> Few(k), quorum |-> quorum, sync |-> sync, restarts |-> restarts, time |-> time]
AllConfigs == {Cluster(2, 1, TRUE, 0, 2), Cluster(3, 3, FALSE, 0, 1), Cluster(2, 2, FALSE, 1, 2)}
=============================================================================
