------------------------------ MODULE AtomicLog ------------------------------
(***************************************************************************)
(* What a hash-chained log promises: it grows by whole batches, only the   *)
(* batch being written may be withdrawn, and a settled record stays for    *)
(* ever at its place, whatever archiving, crashes and repair do to the     *)
(* files that hold it.                                                     *)
(***************************************************************************)
EXTENDS Integers, Sequences

VARIABLES log,              \* the records, archived ones first; [at, of]: place in a batch, its size
          sure              \* how many of them are settled

vars == <<log, sure>>

Init == log = <<>> /\ sure = 0

IsBatch(b) == \A i \in DOMAIN b : b[i].at = i /\ b[i].of = Len(b)

Extend ==
  /\ sure = Len(log)
  /\ Len(log') > sure /\ SubSeq(log', 1, sure) = log
  /\ IsBatch(SubSeq(log', sure + 1, Len(log')))
  /\ sure' \in {sure, Len(log')}

Settle == sure' = Len(log) /\ UNCHANGED log

Withdraw == log' = SubSeq(log, 1, sure) /\ UNCHANGED sure

Next == Extend \/ Settle \/ Withdraw

Spec == Init /\ [][Next]_vars
=============================================================================
