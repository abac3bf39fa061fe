---------------------------- MODULE ReceiptStore ----------------------------
(***************************************************************************)
(* verdict/store.py: gate receipts in files of their own, each naming the  *)
(* hash of the one before, with a HEAD file for the newest and a write-    *)
(* ahead marker per process.  A receipt's hash is the number of its file.  *)
(* Processes commit without a lock and may die between any two steps.      *)
(***************************************************************************)
EXTENDS Integers, FiniteSets, FiniteSetsExt, SequencesExt

CONSTANTS Procs, MaxReceipts      \* bound: receipts ever written

VARIABLES
  receipts,    \* committed: a set of [id, prev, ts]
  head,        \* HEAD
  wal,         \* Procs -> "none" or "pending", the marker under the process's pid
  proc,        \* Procs -> the process's step and the envelope it is making
  made,        \* how many receipts were started
  disturbed,   \* history: two commits overlapped, or a crash fell between file and HEAD
  tampered     \* history: a receipt others build on was removed

storeVars == <<receipts, head, wal, proc, made, disturbed, tampered>>

_GENESIS == 0
NoWork == [at |-> "idle", env |-> [id |-> 0, prev |-> 0, ts |-> 0]]

StoreInit ==
  /\ receipts = {} /\ head = _GENESIS /\ made = 0
  /\ wal = [p \in Procs |-> "none"]
  /\ proc = [p \in Procs |-> NoWork]
  /\ disturbed = FALSE /\ tampered = FALSE

\* Sorted by time, every receipt must name the one before.
verify_chain ==
  LET inOrder == SetToSortSeq(receipts, LAMBDA a, b : a.ts < b.ts)
  IN  \A i \in 1..Len(inOrder) : inOrder[i].prev = IF i = 1 THEN _GENESIS ELSE inOrder[i-1].id

check_pending(p) == wal[p] = "pending"
Committing(p) == proc[p].at \in {"write", "head"}

begin(p) ==
  /\ proc[p].at = "idle"
  /\ wal' = [wal EXCEPT ![p] = "pending"]
  /\ proc' = [proc EXCEPT ![p].at = "grading"]
  /\ UNCHANGED <<receipts, head, made, disturbed, tampered>>

\* commit reads HEAD and stamps the envelope ...
ReadHead(p) ==
  /\ proc[p].at = "grading" /\ made < MaxReceipts
  /\ made' = made + 1
  /\ proc' = [proc EXCEPT ![p] = [at |-> "write", env |-> [id |-> made', prev |-> head, ts |-> made']]]
  /\ disturbed' = (disturbed \/ \E q \in Procs : Committing(q))
  /\ UNCHANGED <<receipts, head, wal, tampered>>

\* Bug: HEAD is moved before the receipt is there.
HeadFirst(at) == IF at = "write" THEN "head" ELSE "receipt"

\* ... renames the file into place, then moves HEAD ...
Writes(at) == IF at = "write" THEN "receipt" ELSE "head"
Persist(p) ==
  LET at == proc[p].at IN
  /\ at \in {"write", "head"}
  /\ IF Writes(at) = "receipt"
     THEN receipts' = receipts \cup {proc[p].env} /\ UNCHANGED head
     ELSE head' = proc[p].env.id /\ UNCHANGED receipts
  /\ proc' = [proc EXCEPT ![p].at = IF at = "write" THEN "head" ELSE "clear"]
  /\ UNCHANGED <<wal, made, disturbed, tampered>>

\* ... and clears the marker.
ClearWal(p) ==
  /\ proc[p].at = "clear"
  /\ wal' = [wal EXCEPT ![p] = "none"]
  /\ proc' = [proc EXCEPT ![p] = NoWork]
  /\ UNCHANGED <<receipts, head, made, disturbed, tampered>>

\* The next process may have another pid: its predecessor's marker is not its own.
CrashWriter(p) ==
  /\ proc[p].at # "idle"
  /\ proc' = [proc EXCEPT ![p] = NoWork]
  /\ \E w \in {"none", wal[p]} : wal' = [wal EXCEPT ![p] = w]
  /\ disturbed' = (disturbed \/ proc[p].at = "head")
  /\ UNCHANGED <<receipts, head, made, tampered>>

\* Somebody removes a receipt that another one names.
Tamper ==
  /\ ~tampered
  /\ \E r \in receipts :
       /\ \E s \in receipts : s.prev = r.id
       /\ receipts' = receipts \ {r}
  /\ tampered' = TRUE
  /\ UNCHANGED <<head, wal, proc, made, disturbed>>

StoreNext ==
  \/ \E p \in Procs :
       begin(p) \/ ReadHead(p) \/ Persist(p) \/ ClearWal(p) \/ CrashWriter(p)
  \/ Tamper

-----------------------------------------------------------------------------
\* Until somebody tampers, HEAD and every receipt name a receipt that exists
\* and is older, whoever commits at once and dies where (commit's order: the
\* file first, HEAD after it).
ChainIsRooted ==
  ~tampered =>
    LET ids == {r.id : r \in receipts} IN
    /\ head \in ids \cup {_GENESIS}
    /\ \A r \in receipts : r.prev < r.id /\ r.prev \in ids \cup {_GENESIS}

\* verify_chain accepts what processes wrote one after the other without dying
\* between the file and HEAD, and rejects a store a receipt was taken out of.
VerifyTells ==
  /\ ~tampered /\ ~disturbed => verify_chain
  /\ tampered => ~verify_chain
=============================================================================
