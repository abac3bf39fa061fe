------------------------------ MODULE MCStores ------------------------------
(* The two durable stores of the service in one run, one of them in each    *)
(* behaviour: "queue", the job queue; "log", the hash-chained log.          *)
EXTENDS JobQueue, ChainLog

\* Of the log's; the queue tells its workers and keys apart.
Symmetry == Permutations(RecordId) \cup Permutations(Name)

VARIABLE store
allVars == <<store, vars, logVars>>

MCInit == store \in {"queue", "log"} /\ Init /\ LogInit
MCNext ==
  \/ store = "queue" /\ Next /\ UNCHANGED <<store, logVars>>
  \/ store = "log" /\ LogNext /\ UNCHANGED <<store, vars>>
MCSpec == MCInit /\ [][MCNext]_allVars
=============================================================================
