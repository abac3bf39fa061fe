----------------------------- MODULE HotFolder -----------------------------
(***************************************************************************)
(* connectors/hotfolder.py: the watcher of one hot folder.  A scan lists   *)
(* incoming/ from a rotating start and takes each file through: look,      *)
(* grade, record the decision, write the signed verdict sidecar, stat      *)
(* again, and rename the asset, its facts and its sidecar one by one.  The *)
(* sender drops, rewrites, touches and measures files at any moment; the   *)
(* watcher may die between any two steps and come back in another mode or  *)
(* under the kill switch; the tenant's policy changes under it; its        *)
(* decisions may be archived.                                              *)
(*                                                                         *)
(* A file is [content, version, ctime, young, late]: version stands for    *)
(* size and mtime, ctime changes with every write and every touch, young   *)
(* until settle_s has passed.  Its late flag is of the model: written      *)
(* after the watcher's last stat of it.                                    *)
(***************************************************************************)
EXTENDS PilotPolicy, SequencesExt

CONSTANTS
    Names,            \* file names, numbers so that they sort
    Contents, Good,   \* what files hold, and what deserves a pass
    RequireBinding, MaxPerScan,
    FolderScenarios   \* bound of the model: what may happen, how often, in a behaviour

ASSUME NamesAreNumbers == Names \subseteq Nat /\ IsFiniteSet(Names) /\ MaxPerScan \in Nat \ {0}
Bounds == [names : SUBSET Names, modes : SUBSET (Levels \cup {"policy"}), kills : SUBSET BOOLEAN, levels : SUBSET Levels, archive : BOOLEAN,
           writes : Nat, touches : Nat, crashes : Nat, measures : Nat]
ASSUME FolderScenariosAreSane == FolderScenarios \subseteq Bounds

VARIABLES
    hf,               \* the scenario of this behaviour, with what is left of its bounds
    mode, switch,     \* the watcher's mode, and whether it was started with the kill switch on
    level,            \* the policy's mode for the media grader
    inc, facts, side, \* incoming/: assets, <name>.facts.json, <name>.verel.json
    dest,             \* what was renamed into passed/, review/ and quarantine/
    log, archived,    \* artifact ids with a decision, and those archived
    seen, cursor,     \* the saved first-seen times (only that there is one) and start
    w                 \* the watcher: what it is doing, and what a death takes with it

env == <<inc, facts>>
disk == <<side, dest, log, archived, seen, cursor>>
folderVars == <<hf, mode, switch, level, inc, facts, side, dest, log, archived, seen, cursor, w>>

Nothing == [none |-> TRUE]
Idle == [pc |-> "idle", todo |-> <<>>]
DEST == [pass |-> "passed", warn |-> "review", fail |-> "quarantine"]

_sig(f) == <<f.version, f.ctime>>
_aid(n, f, digest) == <<n, f.version, digest>>
Policy(l) == <<[grader |-> "media", mode |-> l]>>

FolderInit ==
    /\ hf \in FolderScenarios
    /\ mode \in hf.modes /\ switch \in hf.kills /\ level \in hf.levels
    /\ inc = [n \in Names |-> Nothing] /\ facts = [n \in Names |-> Nothing] /\ side = [n \in Names |-> Nothing]
    /\ dest = {} /\ log = {} /\ archived = {} /\ seen = {} /\ cursor = 0
    /\ w = Idle

-----------------------------------------------------------------------------
\* The sender.  A write that lands between the watcher's last stat of a file and
\* its rename is marked late.
Verified(n) == w.pc \in {"base", "rename"} /\ w.name = n
Spend(k) == hf[k] > 0 /\ hf' = [hf EXCEPT ![k] = @ - 1]

Drop(n, c) ==
    /\ Spend("writes")
    /\ inc' = [inc EXCEPT ![n] = [content |-> c, version |-> hf.writes, ctime |-> hf.writes + hf.touches,
                                 young |-> TRUE, late |-> Verified(n)]]
    /\ UNCHANGED <<mode, switch, level, facts, w>> /\ UNCHANGED disk
Touch(n) ==
    /\ inc[n] # Nothing
    /\ Spend("touches")
    /\ inc' = [inc EXCEPT ![n].ctime = hf.writes + hf.touches - 1]
    /\ UNCHANGED <<mode, switch, level, facts, w>> /\ UNCHANGED disk
\* settle_s have passed since it was written.
Settle(n) ==
    /\ inc[n] # Nothing /\ inc[n].young
    /\ inc' = [inc EXCEPT ![n].young = FALSE]
    /\ UNCHANGED <<hf, mode, switch, level, facts, w>> /\ UNCHANGED disk
\* The senses write what they measured: of which content, and whether it meets the spec.
Measure(n, c, named) ==
    /\ Spend("measures")
    /\ facts' = [facts EXCEPT ![n] = [of |-> IF named THEN c ELSE "", ok |-> c \in Good]]
    /\ UNCHANGED <<mode, switch, level, inc, w>> /\ UNCHANGED disk
SetLevel(l) ==
    /\ l \in hf.levels \ {level} /\ level' = l
    /\ UNCHANGED <<hf, mode, switch, inc, facts, w>> /\ UNCHANGED disk
ArchiveDecisions ==
    /\ hf.archive /\ archived' = log /\ archived # log
    /\ UNCHANGED <<hf, mode, switch, level, inc, facts, side, dest, log, seen, cursor, w>>
\* A new watcher, in mode m and with the kill switch (an environment variable) as k says.
Crash(m, k) ==
    /\ m \in hf.modes /\ k \in hf.kills /\ Spend("crashes")
    /\ mode' = m /\ switch' = k /\ w' = Idle
    /\ UNCHANGED <<level, inc, facts>> /\ UNCHANGED disk

-----------------------------------------------------------------------------
\* scan_once: the names in order from the rotating start, at most MaxPerScan of
\* them, each with its turn; and the next start saved.  The first-seen times are
\* a copy of the saved ones until the scan is over.
Listed == {n \in Names : inc[n] # Nothing}
Start == IF Listed = {} THEN 0 ELSE cursor % Cardinality(Listed)
Place(n) == Cardinality({m \in Listed : m < n})
Turn(n) == (Place(n) + Cardinality(Listed) - Start) % Cardinality(Listed)
Chosen == {n \in Listed : Turn(n) < MaxPerScan}
BeginScan ==
    /\ w.pc = "idle"
    /\ cursor' = Start + Cardinality(Chosen)
    /\ w' = [pc |-> IF Chosen = {} THEN "save" ELSE "next", todo |-> [n \in Chosen |-> Turn(n)],
             level |-> level, seen |-> seen, listed |-> Listed]
    /\ UNCHANGED <<hf, mode, switch, level, side, dest, log, archived, seen>> /\ UNCHANGED env

\* The file at hand, and the scan going on without it.
FirstOf(todo) == CHOOSE n \in DOMAIN todo : \A m \in DOMAIN todo : todo[n] <= todo[m]
Others == DOMAIN w.todo \ {FirstOf(w.todo)}
ScanAt(todo, times) ==
    w' = [pc |-> IF DOMAIN todo = {} THEN "save" ELSE "next", todo |-> todo,
          level |-> w.level, seen |-> times, listed |-> w.listed]
NextFile == ScanAt(Restrict(w.todo, Others), w.seen)
\* The watcher goes on at pc, knowing more.
At(pc, more) ==
    w' = [k \in DOMAIN w \cup DOMAIN more |->
            IF k = "pc" THEN pc ELSE IF k \in DOMAIN more THEN more[k] ELSE w[k]]
SideOf(n, f) == IF side[n] # Nothing /\ side[n].sig = _sig(f) THEN side[n] ELSE Nothing

\* Our own signed sidecar for exactly this file: nothing to do, or a move to finish
\* if it was decided in this mode.  A file that still changes is left alone.
MayFinish(d) == mode # "shadow" /\ d.mode = mode
Look ==
    LET n == FirstOf(w.todo)
        f == inc[n]
    IN  /\ w.pc = "next"
        /\ IF f = Nothing THEN NextFile
           ELSE IF SideOf(n, f) = Nothing
           THEN IF f.young THEN NextFile ELSE At("grade", [name |-> n, st |-> f, sig |-> _sig(f)])
           ELSE IF MayFinish(SideOf(n, f))
           THEN At("base", [name |-> n, st |-> f, sig |-> _sig(f),
                           enforced |-> SideOf(n, f).enforced, killed |-> SideOf(n, f).killed])
           ELSE NextFile
        /\ UNCHANGED <<hf, mode, switch, level>> /\ UNCHANGED env /\ UNCHANGED disk

WaitsAfresh(n, version) == FALSE               \* mutant: every scan notes the time again
WaitedLong(n, version) == <<n, version>> \in w.seen

\* The measurements have not arrived, or not in time.
Waiting ==
    /\ w.pc = "grade" /\ facts[w.name] = Nothing
    /\ ~WaitedLong(w.name, w.st.version)
    /\ ScanAt(Restrict(w.todo, Others), w.seen \cup {<<w.name, w.st.version>>})
    /\ UNCHANGED <<hf, mode, switch, level>> /\ UNCHANGED env /\ UNCHANGED disk
_missing_facts_report == Report("media", FALSE, {Issue("error", "medium", "_no_facts")})
TimedOut ==
    /\ w.pc = "grade" /\ facts[w.name] = Nothing
    /\ WaitedLong(w.name, w.st.version)
    /\ At("record", [report |-> _missing_facts_report, digest |-> ""])
    /\ UNCHANGED <<hf, mode, switch, level>> /\ UNCHANGED env /\ UNCHANGED disk

\* grade_media: the facts against the spec, and against the bytes they must name.
MisnamedNever(fa, content) == FALSE             \* mutant: facts are taken at their word
Misnamed(fa, content) == IF fa.of = "" THEN RequireBinding ELSE fa.of # content
grade_media(fa, content) ==
    Report("media", FALSE,
           (IF fa.ok THEN {} ELSE {Issue("error", "high", "spec")})
           \cup (IF Misnamed(fa, content) THEN {Issue("critical", "high", "binding")} ELSE {}))
Grade ==
    /\ w.pc = "grade" /\ facts[w.name] # Nothing
    /\ IF inc[w.name] = Nothing THEN NextFile
       ELSE At("record", [report |-> grade_media(facts[w.name], inc[w.name].content), digest |-> inc[w.name].content])
    /\ UNCHANGED <<hf, mode, switch, level>> /\ UNCHANGED env /\ UNCHANGED disk

\* run_pilot with unique=True.  A version of ours already decided is decided again
\* in the present mode, without a record; one that was archived is skipped.  The
\* killed flag is of the model: the verdict was given under the kill switch.
Enforced == run_pilot({w.report}, mode, Policy(w.level), switch, FALSE)
Decide ==
    LET aid == _aid(w.name, w.st, w.digest)
    IN  /\ w.pc = "record"
        /\ log' = log \cup {aid}
        /\ IF aid \in archived THEN NextFile ELSE At("sidecar", [enforced |-> Enforced, killed |-> switch])
        /\ UNCHANGED <<hf, mode, switch, level, side, dest, archived, seen, cursor>> /\ UNCHANGED env

WriteSidecar ==
    /\ w.pc = "sidecar"
    /\ side' = [side EXCEPT ![w.name] = [sig |-> w.sig, enforced |-> w.enforced, mode |-> mode, killed |-> w.killed]]
    /\ IF mode = "shadow" THEN NextFile ELSE At("restat", <<>>)
    /\ UNCHANGED <<hf, mode, switch, level, dest, log, archived, seen, cursor>> /\ UNCHANGED env

Unchanged(n) == inc[n] # Nothing /\ _sig(inc[n]) = w.sig
Restat ==
    /\ w.pc = "restat"
    /\ IF Unchanged(w.name) THEN At("base", <<>>) ELSE NextFile
    /\ UNCHANGED <<hf, mode, switch, level>> /\ UNCHANGED env /\ UNCHANGED disk

-----------------------------------------------------------------------------
\* _move: a base name nobody uses in the destination, then three renames.
Holds(d, b, k) == \E x \in dest : x.dir = d /\ x.base = b /\ x.kind = k
_unique(d, n) == <<n, Min({i \in 0..Cardinality(dest) : ~Holds(d, <<n, i>>, "asset")})>>
ChooseBase ==
    /\ w.pc = "base"
    /\ At("rename", [base |-> _unique(DEST[w.enforced], w.name)])
    /\ UNCHANGED <<hf, mode, switch, level>> /\ UNCHANGED env /\ UNCHANGED disk

\* rename(2) replaces what the destination holds under that name.
Put(k, what) ==
    {x \in dest : ~(x.dir = DEST[w.enforced] /\ x.base = w.base /\ x.kind = k)}
        \cup {[dir |-> DEST[w.enforced], base |-> w.base, kind |-> k, what |-> what]}
RenameAsset ==
    /\ w.pc = "rename"
    /\ IF inc[w.name] = Nothing THEN NextFile /\ UNCHANGED <<dest, inc>>
       ELSE /\ dest' = Put("asset", [file |-> inc[w.name], mode |-> mode, level |-> w.level, killed |-> w.killed])
            /\ inc' = [inc EXCEPT ![w.name] = Nothing]
            /\ At("facts", <<>>)
    /\ UNCHANGED <<hf, mode, switch, level, facts, side, log, archived, seen, cursor>>
RenameFacts ==
    /\ w.pc = "facts"
    /\ IF facts[w.name] = Nothing THEN At("side", <<>>) /\ UNCHANGED <<dest, facts>>
       ELSE IF Holds(DEST[w.enforced], w.base, "facts") THEN NextFile /\ UNCHANGED <<dest, facts>>
       ELSE /\ dest' = Put("facts", facts[w.name])
            /\ facts' = [facts EXCEPT ![w.name] = Nothing]
            /\ At("side", <<>>)
    /\ UNCHANGED <<hf, mode, switch, level, inc, side, log, archived, seen, cursor>>
RenameSide ==
    /\ w.pc = "side"
    /\ IF side[w.name] = Nothing \/ Holds(DEST[w.enforced], w.base, "side") THEN UNCHANGED <<dest, side>>
       ELSE dest' = Put("side", side[w.name]) /\ side' = [side EXCEPT ![w.name] = Nothing]
    /\ NextFile
    /\ UNCHANGED <<hf, mode, switch, level, inc, facts, log, archived, seen, cursor>>

\* The end of a scan: the times of the files that were listed are saved.
SaveSeen ==
    /\ w.pc = "save"
    /\ seen' = {x \in w.seen : x[1] \in w.listed}
    /\ w' = Idle
    /\ UNCHANGED <<hf, mode, switch, level, side, dest, log, archived, cursor>> /\ UNCHANGED env

Examine == Look \/ Waiting \/ TimedOut \/ Grade
Finish == Decide \/ WriteSidecar \/ Restat \/ ChooseBase \/ RenameAsset \/ RenameFacts \/ RenameSide
scan_once == BeginScan \/ Examine \/ Finish \/ SaveSeen
Sender ==
    \/ \E n \in hf.names, c \in Contents : Drop(n, c) \/ \E named \in BOOLEAN : Measure(n, c, named)
    \/ \E n \in hf.names : Touch(n) \/ Settle(n)
FolderNext ==
    \/ scan_once
    \/ Sender
    \/ \E l \in Levels : SetLevel(l)
    \/ ArchiveDecisions
    \/ \E m \in Levels \cup {"policy"}, k \in BOOLEAN : Crash(m, k)
FolderSpec == FolderInit /\ [][FolderNext]_folderVars

-----------------------------------------------------------------------------
\* The types, and that a watcher at work has a file to work on.
FolderTypeOK ==
    /\ mode \in Levels \cup {"policy"} /\ level \in Levels
    /\ \A n \in Names : inc[n] # Nothing => inc[n].content \in Contents
    /\ \A n \in Names : side[n] # Nothing => side[n].enforced \in Verdict
    /\ archived \subseteq log /\ cursor \in Nat
    /\ \A x \in dest : x.dir \in {"passed", "review", "quarantine"} /\ x.base[1] \in Names
    /\ w.pc \notin {"idle", "save"} => DOMAIN w.todo # {}

Assets == {x \in dest : x.kind = "asset"}
Steady == \A l, m \in hf.levels : l = m       \* the tenant's policy does not change

\* What reaches passed/ in enforce mode, or under a policy that enforces the grader,
\* deserves it: its bytes were measured and meet the spec, whatever stale facts lie
\* in the folder, however it was rewritten and wherever the watcher died, with the
\* kill switch or without.  What was decided under the switch escapes it, also
\* where the move is finished after the switch was taken away, and so does a write
\* after the watcher's last look at the file.
OnlyGoodPasses ==
    \A x \in Assets :
        (x.dir = "passed" /\ ~x.what.file.late /\ ~x.what.killed
           /\ (x.what.mode = "enforce" \/ (x.what.mode = "policy" /\ x.what.level = "enforce" /\ Steady)))
        => x.what.file.content \in Good

\* The watcher loses nothing and replaces nothing: what it has moved stays where it
\* is as it is, and an asset leaves incoming/ only to appear in a destination.
NothingLost ==
    [][/\ dest \subseteq dest'
       /\ \A n \in Names : (inc[n] # Nothing /\ inc'[n] = Nothing) =>
             \E x \in dest' \ dest : x.kind = "asset" /\ x.what.file = inc[n]]_folderVars

\* An asset is moved only after its version was recorded as a decision.
MovedIsRecorded ==
    \A x \in Assets : ~x.what.file.late =>
        \E a \in log : a[1] = x.base[1] /\ a[2] = x.what.file.version

\* Shadow mode touches no business file, also after a restart from another mode.
ShadowMovesNothing == [][mode = "shadow" => inc' = inc \/ Sender]_folderVars

\* A file that the watcher is done with: our verdict on exactly this version lies
\* next to it, and was given in another mode than the present one, or in shadow mode.
Rests(n) == inc[n] # Nothing /\ SideOf(n, inc[n]) # Nothing /\ ~MayFinish(SideOf(n, inc[n]))

\* Every file leaves incoming/ in the end or rests there with its verdict, facts or
\* no facts, for any number of files a scan leaves over, through restarts in other
\* modes; and a watcher that keeps to one mode other than shadow leaves none to
\* rest.  A file whose decision was archived before the move was made the code
\* skips for ever.
EveryFileLeaves ==
    \A n \in Names : (~hf.archive /\ inc[n] # Nothing) ~> (inc[n] = Nothing \/ Rests(n))

\* "A version that was recorded but not finished ... is decided again under the
\* CURRENT mode and policy ... and then moved" (docs/connectors.md:42).
DecidedAgain ==
    <>[](mode # "shadow") => \A n \in Names : (~hf.archive /\ inc[n] # Nothing) ~> (inc[n] = Nothing)

\* "a shadow PASS must never release a file under enforce" (hotfolder.py:296).
NoShadowRelease ==
    \A x \in Assets :
        (x.dir = "passed" /\ x.what.mode = "policy" /\ x.what.level = "enforce" /\ ~x.what.file.late /\ ~x.what.killed)
        => x.what.file.content \in Good
=============================================================================
