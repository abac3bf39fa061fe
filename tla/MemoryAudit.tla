------------------------------ MODULE MemoryAudit ------------------------------
(***************************************************************************)
(* The audit of memory mutations (memory/audit.py): AuditedMemory reads a  *)
(* record, lets the store change it and appends one entry to a hash-       *)
(* chained file that several processes write, crash over and tear.  An     *)
(* entry's hash is its number; `intact` says the body still has that hash. *)
(***************************************************************************)
EXTENDS Naturals, Sequences, SequencesExt, FiniteSets

CONSTANTS Auditor,        \* processes with an AuditedMemory
          MaxEntries,     \* bound: entries begun
          MaxMishaps      \* bound: crashes, edits and deletions

VARIABLES file, audit, held, mishaps
auditVars == <<file, audit, held, mishaps>>

_GENESIS == 0
NoHead == MaxEntries + 1
NoCall == [op |-> "idle"]

\* A line is an entry, or `torn`: text that is not one entry's JSON.
Torn == [torn |-> TRUE, hash |-> NoHead, prev |-> NoHead, intact |-> FALSE]
Entry(h, prev, seen, out) == [torn |-> FALSE, hash |-> h, prev |-> prev, intact |-> TRUE,
                              before |-> seen, after |-> out]

\* file: the lines, and whether the last one lacks its newline.
\* held: the store's only record, a value or 0 for none.
\* audit: each process's cached head and call; the calls answered so far.
AuditInit ==
  /\ file = [lines |-> <<>>, open |-> FALSE]
  /\ held = 0
  /\ audit = [head |-> [p \in Auditor |-> NoHead], call |-> [p \in Auditor |-> NoCall],
              answered |-> {}, next |-> 1]
  /\ mishaps = 0

Entries(ls) == SelectSeq(ls, LAMBDA l : ~l.torn)

\* The hash of the last line that parses; torn lines are passed over.
LastHash == IF Entries(file.lines) = <<>> THEN _GENESIS ELSE Last(Entries(file.lines)).hash

\* A process reads the head once and then trusts what it wrote itself.
_load_head(p) == IF audit.head[p] # NoHead THEN audit.head[p] ELSE LastHash

\* Text appended to a line that has no newline runs into it.
Appended(line) ==
  IF file.open THEN Append(Front(file.lines), Torn) ELSE Append(file.lines, line)

-----------------------------------------------------------------------------
(* verify(): every line parses, follows the one before and has its hash.   *)

\* Bug: lines that do not parse are passed over, as entries() does.
VerifySkipping ==
  LET es == Entries(file.lines) IN
  \A i \in DOMAIN es : es[i].intact /\ es[i].prev = (IF i = 1 THEN _GENESIS ELSE es[i - 1].hash)

verify ==
  \A i \in DOMAIN file.lines : LET l == file.lines[i] IN
    /\ ~l.torn
    /\ l.prev = (IF i = 1 THEN _GENESIS ELSE file.lines[i - 1].hash)
    /\ l.intact

-----------------------------------------------------------------------------
(* AuditedMemory: before, the call itself, the entry; three steps.         *)

get_before(p, op) ==
  /\ audit.call[p] = NoCall /\ audit.next <= MaxEntries
  /\ audit' = [audit EXCEPT !.call[p] = [op |-> op, at |-> "call", before |-> held, out |-> 0, id |-> audit.next],
                            !.next = @ + 1]
  /\ UNCHANGED <<file, held, mishaps>>

\* What the store makes of it: a write stores a value of its own, the other
\* mutations need the record, decay may prune it.
Outcomes(c) == CASE c.op = "write" -> {c.id}
                 [] c.op = "mutate" -> {IF held = 0 THEN 0 ELSE c.id}
                 [] c.op = "decay" -> {0, held}

\* write() always logs, decay() if it pruned, the others unless there was
\* no record before and none came of it.
Logs(op, before, changed, out) ==
  CASE op = "write" -> TRUE
    [] op = "decay" -> changed
    [] OTHER -> out # 0 \/ before # 0

call_inner(p) ==
  LET c == audit.call[p] IN
  /\ c # NoCall /\ c.at = "call"
  /\ \E out \in Outcomes(c) :
       /\ held' = out
       /\ audit' = [audit EXCEPT !.call[p] =
                      IF Logs(c.op, c.before, out # held, out)
                        THEN [c EXCEPT !.at = "log", !.out = out]
                        ELSE NoCall,
                    !.answered = IF ~Logs(c.op, c.before, out # held, out) /\ out # held
                                   THEN @ \cup {c.id} ELSE @]
  /\ UNCHANGED <<file, mishaps>>

Line(p) == LET c == audit.call[p] IN
  Entry(c.id, _load_head(p), IF c.op = "decay" THEN 0 ELSE c.before, c.out)

\* append(): the head, then one write to the end of the file.
append(p) ==
  LET c == audit.call[p] IN
  /\ c # NoCall /\ c.at = "log"
  /\ file' = [lines |-> Appended(Line(p)), open |-> FALSE]
  /\ audit' = [audit EXCEPT !.head[p] = c.id, !.call[p] = NoCall, !.answered = @ \cup {c.id}]
  /\ UNCHANGED <<held, mishaps>>

\* A process dies: before its entry, or with all or a part of it on disk.
Crash(p) ==
  LET c == audit.call[p] IN
  /\ mishaps < MaxMishaps /\ mishaps' = mishaps + 1
  /\ audit' = [audit EXCEPT !.head[p] = NoHead, !.call[p] = NoCall]
  /\ \/ UNCHANGED file
     \/ /\ c # NoCall /\ c.at = "log"
        /\ file' \in {[lines |-> Appended(l), open |-> o] : l \in {Line(p), Torn}, o \in BOOLEAN}
        /\ file'.lines[Len(file'.lines)].torn => file'.open \/ file.open
  /\ UNCHANGED held

-----------------------------------------------------------------------------
(* Somebody edits a line of an intact log, or takes one from its middle.   *)

EditLine ==
  /\ mishaps < MaxMishaps /\ mishaps' = mishaps + 1 /\ verify
  /\ \E i \in DOMAIN file.lines : file' = [file EXCEPT !.lines[i].intact = FALSE]
  /\ UNCHANGED <<audit, held>>

DeleteLine ==
  /\ mishaps < MaxMishaps /\ mishaps' = mishaps + 1 /\ verify
  /\ \E i \in 1..(Len(file.lines) - 1) : file' = [file EXCEPT !.lines = RemoveAt(@, i)]
  /\ UNCHANGED <<audit, held>>

AuditNext ==
  \/ \E p \in Auditor : \/ \E op \in {"write", "mutate", "decay"} : get_before(p, op)
                        \/ call_inner(p) \/ append(p) \/ Crash(p)
  \/ EditLine \/ DeleteLine
AuditSpec == AuditInit /\ [][AuditNext]_auditVars

-----------------------------------------------------------------------------
\* What verify() is worth (audit.py:16-19): of a log it accepts, every mutation
\* whose call returned is an entry, unaltered and once, and what a call changed
\* without an entry was nothing.  Torn writes, two processes on one file, edits
\* and deletions in the middle all make it fail, whatever is appended later.
VerifiedMeansComplete ==
  verify => \A id \in audit.answered :
    Cardinality({i \in DOMAIN file.lines : file.lines[i].hash = id /\ file.lines[i].intact}) = 1
=============================================================================
