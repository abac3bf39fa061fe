------------------------------ MODULE ChainLog ------------------------------
(***************************************************************************)
(* _chainlog.py: the hash-chained evidence log on disk, one file operation *)
(* at a time.  An operation holds the exclusive lock from its first action *)
(* to its last, so one record, op, tells how far the only holder is; a     *)
(* crash frees the lock.  Readers copy the files under the shared lock:    *)
(* they see the states in which op is idle.                                *)
(*                                                                         *)
(* Hashes and MACs do not collide and nobody edits the files: a record's   *)
(* hash is its number n, a chain of MACs is the sequence it covers.  A     *)
(* file replaced by rename changes at once; an append interrupted by a     *)
(* crash or an error leaves any prefix of its bytes.                       *)
(***************************************************************************)
EXTENDS Integers, FiniteSets, SequencesExt

CONSTANTS RecordId,            \* values of the id field
          Name,                \* segment file names
          MAX_RECORDS, MAX_SEGMENT_ENTRIES,
          MaxBatch,            \* bound: records per append_batch
          MaxMade,             \* bound: records ever built
          MaxFaults            \* bound: crashes and failing system calls

ASSUME ChainLogAssumption ==
  /\ {MAX_RECORDS, MaxBatch, MaxMade, MaxFaults} \subseteq Nat
  /\ MAX_SEGMENT_ENTRIES \in Nat \ {0, 1} /\ "" \notin Name

VARIABLES live,                \* the log file: anchor, records, how its last line ends
          ledger,              \* the .head file; absent is the same as empty
          index,               \* the .ids file
          file,                \* the segment files next to the log
          op,                  \* the holder of the exclusive lock
          made, faults,        \* records built, faults had
          acked, undone        \* numbers of records whose write returned, or raised and was truncated

logVars == <<live, ledger, index, file, op, made, faults, acked, undone>>

GENESIS == 0
NoPending == [head |-> GENESIS, total |-> 0, hashes |-> <<>>]
NoFile == [head |-> GENESIS, count |-> -1, recs |-> <<>>]
Idle == [pc |-> "idle"]

\* tail: "clean"; "part", the file ends inside a line; "whole", only the last
\* newline is missing.  blank: the file is one empty line.
EmptyLog == [head |-> GENESIS, count |-> 0, recs |-> <<>>, tail |-> "clean", blank |-> FALSE]
EmptyLedger == [head |-> GENESIS, total |-> 0, segs |-> <<>>, pending |-> NoPending]

LogInit ==
  /\ live = EmptyLog /\ ledger = EmptyLedger /\ index = <<>>
  /\ file = [s \in Name |-> NoFile]
  /\ op = Idle /\ made = 0 /\ faults = 0 /\ acked = {} /\ undone = {}

Take(s, k) == SubSeq(s, 1, IF k < Len(s) THEN k ELSE Len(s))
Drop(s, k) == SubSeq(s, k + 1, Len(s))
Hashes(recs) == [i \in DOMAIN recs |-> recs[i].n]
IdsOf(recs) == [i \in DOMAIN recs |-> recs[i].id]
Archived(segs) ==
  LET sum[i \in 0..Len(segs)] == IF i = 0 THEN 0 ELSE sum[i - 1] + segs[i].count
  IN  sum[Len(segs)]
Tip(head, recs) == IF recs = <<>> THEN head ELSE Last(recs).n

-----------------------------------------------------------------------------
(* Reading *)

\* A final line without its newline is not a record.
_parse(l) == IF l.tail = "whole" THEN Front(l.recs) ELSE l.recs

Chained(head, recs) ==
  \A i \in DOMAIN recs : recs[i].prev = Tip(head, Take(recs, i - 1))

AnchorIsCurrent(l, led) ==
  /\ l.count = Archived(led.segs)
  /\ l.count > 0 => l.head = Last(led.segs).head

_verify_files(l, led) ==
  LET recs == _parse(l)
      at == <<Tip(l.head, recs), l.count + Len(recs)>>
  IN /\ Chained(l.head, recs)
     /\ AnchorIsCurrent(l, led)
     /\ at = <<led.head, led.total>> \/ (led.pending # NoPending /\ at = <<led.pending.head, led.pending.total>>)

\* The O(1) check of an append, after the torn tail was repaired.
_tail(l, led) ==
  LET tip == Tip(l.head, l.recs)
  IN /\ ~l.blank
     /\ l.count = Archived(led.segs)
     /\ \/ tip = led.head /\ (l.recs = <<>> => led.total = l.count)
        \/ led.pending # NoPending /\ l.recs # <<>> /\ tip = led.pending.head

\* What _tail makes the committed state: the announced one if that is there.
TailTotal(l, led) ==
  IF Tip(l.head, l.recs) = led.head THEN led.total ELSE led.pending.total

_repair_torn_tail(l) == [l EXCEPT !.tail = "clean"]

-----------------------------------------------------------------------------
(* Which ids an append takes: append_if_absent for one, append_batch with  *)
(* the label service's make for several.                                   *)

\* The index lines the anchor commits to; later ones are an unfinished archive's.
archived_has(id) == id \in ToSet(Take(index, live.count))

IndexBound(l, led) ==
  l.count > 0 => /\ Len(index) >= l.count
                 /\ Take(index, l.count) = Last(led.segs).ids

InLive(l, id) == id \in ToSet(IdsOf(l.recs))

\* Ids already in the live log are left out; one in the archive refuses the rest.
Unseen(ids) == {id \in ids : ~InLive(live, id)}

Undecided(ids) == IndexBound(live, ledger) /\ \A id \in ids : ~archived_has(id)

Fault == faults < MaxFaults /\ faults' = faults + 1

-----------------------------------------------------------------------------
(* Appending *)

Batch(ids, prev) ==
  [i \in DOMAIN ids |-> [n |-> made + i, id |-> ids[i], at |-> i, of |-> Len(ids),
                         prev |-> IF i = 1 THEN prev ELSE made + i - 1]]

BeginAppend(ids) ==
  /\ op = Idle
  /\ live' = _repair_torn_tail(live)
  /\ op' = [pc |-> "begin", ids |-> ids]
  /\ UNCHANGED <<ledger, index, file, made, faults, acked, undone>>

Full(total, k) == total + k > MAX_RECORDS

Announce ==
  /\ op.pc = "begin"
  /\ _verify_files(live, ledger) /\ Undecided(Unseen(op.ids)) /\ _tail(live, ledger)
  /\ \E ids \in SetToSeqs(Unseen(op.ids)) :
     LET prev == Tip(live.head, live.recs)
         total == TailTotal(live, ledger)
         new == Batch(ids, prev)
     IN /\ ids # <<>> /\ ~Full(total, Len(ids))
        /\ made + Len(ids) <= MaxMade /\ made' = made + Len(ids)
        /\ ledger' = [ledger EXCEPT !.head = prev, !.total = total,
                        !.pending = [head |-> Last(new).n, total |-> total + Len(new), hashes |-> Hashes(new)]]
        /\ op' = [pc |-> "announced", new |-> new, start |-> Len(live.recs)]
  /\ UNCHANGED <<live, index, file, faults, acked, undone>>

\* A check refuses, make() raises, the announcement or the open fails, or the
\* process dies with nothing written.
GiveUp ==
  /\ op.pc \in {"begin", "announced"}
  /\ op' = Idle
  /\ UNCHANGED <<live, ledger, index, file, made, faults, acked, undone>>

Write ==
  /\ op.pc = "announced"
  /\ live' = [live EXCEPT !.recs = @ \o op.new]
  /\ op' = [op EXCEPT !.pc = "written"]
  /\ UNCHANGED <<ledger, index, file, made, faults, acked, undone>>

\* The bytes of the batch that reached the file: k whole lines, then nothing,
\* a piece of the next line, or all of the last one but its newline.
WriteStops(next) ==
  /\ op.pc = "announced" /\ Fault
  /\ \E k \in 0..Len(op.new), tail \in {"clean", "part", "whole"} :
       /\ tail = "part" => k < Len(op.new)
       /\ tail = "whole" => k > 0
       /\ live' = [live EXCEPT !.recs = @ \o Take(op.new, k), !.tail = tail]
  /\ op' = next
  /\ UNCHANGED <<ledger, index, file, made, acked, undone>>

WriteFails == WriteStops([op EXCEPT !.pc = "undo"])

CommitLedger ==
  /\ op.pc = "written"
  /\ ledger' = [ledger EXCEPT !.head = ledger.pending.head, !.total = ledger.pending.total,
                              !.pending = NoPending]
  /\ acked' = acked \union ToSet(Hashes(op.new))
  /\ op' = Idle
  /\ UNCHANGED <<live, index, file, made, faults, undone>>

\* The final write of the ledger fails.
LedgerFails ==
  /\ op.pc = "written" /\ Fault
  /\ op' = [op EXCEPT !.pc = "undo"]
  /\ UNCHANGED <<live, ledger, index, file, made, acked, undone>>

\* os.ftruncate(wfd, start).
TruncateTo(k) ==
  /\ op.pc = "undo"
  /\ live' = [live EXCEPT !.recs = Take(@, k), !.tail = "clean"]
  /\ undone' = undone \union ToSet(Hashes(op.new))
  /\ op' = [op EXCEPT !.pc = "retract"]
  /\ UNCHANGED <<ledger, index, file, made, faults, acked>>

TruncateLine == TruncateTo(Len(live.recs) - 1)

Truncate == TruncateTo(op.start)

Retract ==
  /\ op.pc = "retract"
  /\ ledger' = [ledger EXCEPT !.pending = NoPending]
  /\ op' = Idle
  /\ UNCHANGED <<live, index, file, made, faults, acked, undone>>

-----------------------------------------------------------------------------
(* Archiving: segment, ids, ledger, live log; each failure rolls back.     *)

Moving(n) == Take(_parse(live), n)

\* The segment repeats the live anchor it starts from.
ArchiveSegment(n, s) ==
  /\ op = Idle
  /\ _verify_files(live, ledger)
  /\ n \in 1..Len(_parse(live)) /\ file[s] = NoFile
  /\ file' = [file EXCEPT ![s] = [head |-> live.head, count |-> live.count, recs |-> Moving(n)]]
  /\ op' = [pc |-> "ids", n |-> n, name |-> s]
  /\ UNCHANGED <<live, ledger, index, made, faults, acked, undone>>

\* It cannot be written: it is unlinked, or a piece of it stays behind.
SegmentFails(s) ==
  /\ op = Idle /\ Fault
  /\ _verify_files(live, ledger) /\ _parse(live) # <<>> /\ file[s] = NoFile
  /\ file' = [file EXCEPT ![s] = [head |-> live.head, count |-> live.count, recs |-> <<>>]]
  /\ UNCHANGED <<live, ledger, index, op, made, acked, undone>>

NewIndex(n) == Take(index, live.count) \o IdsOf(Moving(n))

ArchiveIds ==
  /\ op.pc = "ids" /\ IndexBound(live, ledger)
  /\ index' = NewIndex(op.n)
  /\ op' = [op EXCEPT !.pc = "ledger"]
  /\ UNCHANGED <<live, ledger, file, made, faults, acked, undone>>

\* The index write stops early; the old ledger was not read yet.
ArchiveIdsStops(next) ==
  /\ op.pc = "ids" /\ IndexBound(live, ledger) /\ Fault
  /\ \E k \in live.count..Len(NewIndex(op.n)) : index' = Take(NewIndex(op.n), k)
  /\ op' = next
  /\ UNCHANGED <<live, ledger, file, made, acked, undone>>

ArchiveIdsFails == ArchiveIdsStops([op EXCEPT !.pc = "trim"])

Entry(n) ==
  [name |-> op.name, head |-> Last(Moving(n)).n, count |-> n, ids |-> Take(index, live.count + n)]

\* The oldest entries become one without a name.
Folded(segs) ==
  LET keep == MAX_SEGMENT_ENTRIES \div 2
      old == Take(segs, Len(segs) - keep)
  IN IF Len(segs) <= MAX_SEGMENT_ENTRIES THEN segs
     ELSE <<[Last(old) EXCEPT !.name = "", !.count = Archived(old)]>> \o Drop(segs, Len(segs) - keep)

\* The ledger names the segment, for the same head and total.
ArchiveLedger ==
  /\ op.pc = "ledger"
  /\ ledger' = [head |-> Tip(live.head, _parse(live)), total |-> live.count + Len(_parse(live)),
                segs |-> Folded(Append(ledger.segs, Entry(op.n))), pending |-> NoPending]
  /\ op' = [pc |-> "swap", n |-> op.n, name |-> op.name, old |-> ledger]
  /\ UNCHANGED <<live, index, file, made, faults, acked, undone>>

\* The live log without its first n records, anchored at their head.
Reanchored(l, n) ==
  [EmptyLog EXCEPT !.head = _parse(l)[n].n, !.count = l.count + n, !.recs = Drop(_parse(l), n)]

ArchiveSwap ==
  /\ op.pc = "swap"
  /\ live' = Reanchored(live, op.n)
  /\ op' = Idle
  /\ UNCHANGED <<ledger, index, file, made, faults, acked, undone>>

\* Replacing the live log fails: back to the old ledger, or, when that cannot
\* be written either, everything is left for repair.
SwapFails ==
  /\ op.pc = "swap" /\ Fault
  /\ op' = [op EXCEPT !.pc = "restore"]
  /\ UNCHANGED <<live, ledger, index, file, made, acked, undone>>

RestoreSkipped ==
  /\ op.pc = "restore"
  /\ op' = [pc |-> "trim", n |-> op.n, name |-> op.name]
  /\ UNCHANGED <<live, ledger, index, file, made, faults, acked, undone>>

Restore ==
  /\ op.pc = "restore"
  /\ ledger' = op.old
  /\ op' = [pc |-> "trim", n |-> op.n, name |-> op.name]
  /\ UNCHANGED <<live, index, file, made, faults, acked, undone>>

\* Writing the ledger fails: the old one is still there.
ArchiveLedgerFails ==
  /\ op.pc = "ledger" /\ Fault
  /\ op' = [op EXCEPT !.pc = "trim"]
  /\ UNCHANGED <<live, ledger, index, file, made, acked, undone>>

\* os.truncate(ids) and unlink(segment), each of which may fail quietly.
Trim ==
  /\ op.pc = "trim"
  /\ index' \in {index, Take(index, live.count)}
  /\ file' \in {file, [file EXCEPT ![op.name] = NoFile]}
  /\ op' = Idle
  /\ UNCHANGED <<live, ledger, made, faults, acked, undone>>

-----------------------------------------------------------------------------
(* Repair *)

Newest == Last(ledger.segs)

Unswapped(l, led) ==
  led.segs # <<>> /\ Last(led.segs).name # "" /\ Archived(led.segs) = l.count + Last(led.segs).count

\* _finish_archive rolls an archive forward when its segment is exactly the
\* start of the live log.
CanFinish(l, led) ==
  LET e == Last(led.segs) IN
  /\ Unswapped(l, led)
  /\ file[e.name] = [head |-> l.head, count |-> l.count, recs |-> Take(l.recs, e.count)]
  /\ Len(l.recs) >= e.count /\ l.recs[e.count].n = e.head

\* The records from the one that follows the committed head on, if there is one.
After(l, led) ==
  LET next == {i \in DOMAIN l.recs : l.recs[i].prev = led.head}
  IN  IF next = {} THEN <<>> ELSE Drop(l.recs, Min(next) - 1)

\* They must be the first of the announced ones, and not all of them.
IsTornBatch(l, led) ==
  LET after == After(l, led) IN
  /\ after # <<>>
  /\ led.pending # NoPending /\ Tip(l.head, l.recs) # led.pending.head
  /\ Len(after) < Len(led.pending.hashes)
  /\ Hashes(after) = Take(led.pending.hashes, Len(after))

BatchDroppedOneMore(l, led) ==
  [l EXCEPT !.recs = Take(l.recs, Len(l.recs) - Len(After(l, led)) - 1)]

\* What is left of an empty log is one empty line.
BatchDropped(l, led) ==
  LET recs == Take(l.recs, Len(l.recs) - Len(After(l, led)))
  IN [l EXCEPT !.recs = recs, !.blank = (recs = <<>> /\ l.count = 0)]

BeginRepair ==
  /\ op = Idle
  /\ live' = _repair_torn_tail(live)
  /\ op' = [pc |-> "repair"]
  /\ UNCHANGED <<ledger, index, file, made, faults, acked, undone>>

_finish_archive ==
  /\ op.pc = "repair" /\ CanFinish(live, ledger)
  /\ live' = Reanchored(live, Newest.count)
  /\ UNCHANGED <<ledger, index, file, op, made, faults, acked, undone>>

RepairSettle ==
  /\ op.pc = "repair" /\ ~Unswapped(live, ledger)
  /\ ledger.pending # NoPending /\ Tip(live.head, live.recs) = ledger.pending.head
  /\ ledger' = [ledger EXCEPT !.head = ledger.pending.head, !.total = ledger.pending.total, !.pending = NoPending]
  /\ op' = Idle
  /\ UNCHANGED <<live, index, file, made, faults, acked, undone>>

RepairDrop ==
  /\ op.pc = "repair" /\ ~Unswapped(live, ledger) /\ IsTornBatch(live, ledger)
  /\ live' = BatchDropped(live, ledger)
  /\ op' = [pc |-> "clear"]
  /\ UNCHANGED <<ledger, index, file, made, faults, acked, undone>>

RepairClear ==
  /\ op.pc = "clear"
  /\ ledger' = [ledger EXCEPT !.pending = NoPending]
  /\ op' = Idle
  /\ UNCHANGED <<live, index, file, made, faults, acked, undone>>

\* Done, nothing to repair, refusing, or failing to write.
RepairEnds ==
  /\ op.pc \in {"repair", "clear"}
  /\ op' = Idle
  /\ UNCHANGED <<live, ledger, index, file, made, faults, acked, undone>>

-----------------------------------------------------------------------------
\* The process dies, or a step of an undo fails and is passed over; an append
\* and an index write may stop anywhere inside.
Crash ==
  \/ WriteStops(Idle)
  \/ ArchiveIdsStops(Idle)
  \/ /\ op.pc \notin {"idle", "announced"} /\ Fault
     /\ op' = Idle
     /\ UNCHANGED <<live, ledger, index, file, made, acked, undone>>

\* A batch names different ids; their order is chosen when they are written.
Orders == {ids \in SUBSET RecordId : IsFiniteSet(ids) /\ Cardinality(ids) \in 1..MaxBatch}

Append_ == Announce \/ GiveUp \/ Write \/ WriteFails \/ CommitLedger \/ LedgerFails \/ Truncate \/ Retract

Archive_ ==
  \/ \E s \in Name : SegmentFails(s) \/ \E n \in 1..MaxMade : ArchiveSegment(n, s)
  \/ ArchiveIds \/ ArchiveIdsFails \/ ArchiveLedger \/ ArchiveLedgerFails
  \/ ArchiveSwap \/ SwapFails \/ Restore \/ Trim

Repair_ == BeginRepair \/ _finish_archive \/ RepairSettle \/ RepairDrop \/ RepairClear \/ RepairEnds

LogNext == (\E ids \in Orders : BeginAppend(ids)) \/ Append_ \/ Archive_ \/ Repair_ \/ Crash

LogSpec == LogInit /\ [][LogNext]_logVars

-----------------------------------------------------------------------------
(* Properties *)

Record == [n : 1..MaxMade, id : RecordId, at : 1..MaxBatch, of : 1..MaxBatch, prev : 0..MaxMade]
IsRecords(s) == s \in Seq(Record) /\ Len(s) <= MaxMade

\* Types, for the files of ChainLog.
LogTypeOK ==
  /\ live.head \in 0..MaxMade /\ live.count \in 0..MaxMade /\ IsRecords(live.recs)
  /\ live.tail \in {"clean", "part", "whole"} /\ (live.tail = "whole" => live.recs # <<>>)
  /\ live.blank => live = [EmptyLog EXCEPT !.blank = TRUE]
  /\ ledger.head \in 0..MaxMade /\ ledger.total \in 0..MaxMade
  /\ ledger.pending.total = 0 \/ ledger.pending.total = ledger.total + Len(ledger.pending.hashes)
  /\ Len(ledger.segs) <= MAX_SEGMENT_ENTRIES
  /\ index \in Seq(RecordId) /\ Len(index) >= live.count
  /\ \A s \in Name : file[s] = NoFile \/ (file[s].count \in Nat /\ IsRecords(file[s].recs))
  /\ {made, faults} \subseteq Nat /\ acked \cap undone = {}

\* The archived records, found by walking the chain back from the live anchor
\* through the segment files; a missing record cuts the walk short.
PastRecords ==
  LET recs == UNION {ToSet(file[s].recs) : s \in Name}
      P[h \in 0..MaxMade] ==
        IF \E r \in recs : r.n = h
        THEN LET r == CHOOSE r \in recs : r.n = h IN Append(P[r.prev], r)
        ELSE <<>>
  IN P[live.head]

\* The log a reader is entitled to: the committed records, and the announced
\* batch when all of it is there.
Log ==
  LET all == PastRecords \o _parse(live) IN
  IF /\ ledger.pending # NoPending /\ Len(all) = ledger.pending.total
     /\ Tip(live.head, _parse(live)) = ledger.pending.head
  THEN all ELSE Take(all, ledger.total)

\* Only the batch being written may still be withdrawn.
Sure == IF op.pc \in {"written", "undo"} THEN ledger.total ELSE Len(Log)

\* ChainLog.append and its variants: a record whose write returned is in the
\* log for good; one whose write raised and was truncated never shows up.
AnswersHold ==
  /\ acked \subseteq ToSet(Hashes(Log))
  /\ undone \cap ToSet(Hashes(PastRecords \o live.recs)) = {}

\* append_if_absent, archived_has: no id is decided twice, in the live log or
\* across its archive, whatever was interrupted in between.
DecidedOnce == IsInjective(IdsOf(Log))

Usable(l, led) == _verify_files(l, led) /\ _tail(l, led)

\* A record nobody announces any more behind the committed ones: the torn line
\* that an archive, which does not repair the tail, left in the live log.
Ghost(l, led) == led.pending = NoPending /\ l.count + Len(l.recs) > led.total

Cleared(led) == [led EXCEPT !.pending = NoPending]

\* repair: whenever nobody is at work the log can be read and takes appends,
\* or one repair makes it so.  The exceptions, a blank log and a ghost, are in the README.
Recoverable ==
  LET l == _repair_torn_tail(live) IN
  op = Idle =>
    \/ l.blank /\ _verify_files(l, ledger)
    \/ Ghost(l, ledger)
    \/ Usable(l, ledger)
    \/ CanFinish(l, ledger) /\ Usable(Reanchored(l, Newest.count), ledger)
    \/ IsTornBatch(l, ledger) /\ Usable([BatchDropped(l, ledger) EXCEPT !.blank = FALSE], Cleared(ledger))

Abstract == INSTANCE AtomicLog WITH log <- Log, sure <- Sure

\* The files together are the log AtomicLog describes.
Atomic == Abstract!Spec

\* repair, "Resolve an interrupted multi-record write": a log that has been
\* cleared of one takes the next append.
RepairedTakesAppends ==
  LET l == _repair_torn_tail(live)
  IN op.pc = "clear" => _tail(l, Cleared(ledger))

\* "an interrupted archive? run `verel pilot repair`": when repair rolls an
\* archive forward the log can be read again.
FinishedArchiveIsReadable ==
  LET l == _repair_torn_tail(live)
  IN op = Idle /\ CanFinish(l, ledger) => _verify_files(Reanchored(l, Newest.count), ledger)
=============================================================================
