------------------------------- MODULE MCPilot -------------------------------
(* The pilot in one run, one part of it in each behaviour: "service", the   *)
(* rollout over the tenant's logs, or "folder", a hot folder's watcher.     *)
EXTENDS PilotRollout, HotFolder

CONSTANTS s1, s2

\* Two flagged files earn enforcement: of n flags all must be right for n = 2
\* (the Wilson bound of 2 in 2 is above 1/3, of 1 in 2 and of 2 in 3 below).
Third == <<1, 3>>
Half == <<1, 2>>

Said(r, v) == [verdict |-> v] @@ r
Fails(g) == Said(Report(g, FALSE, {Issue("error", "high", "f")}), "fail")
Guesses(g) == Said(Report(g, FALSE, {Issue("error", "low", "f")}), "fail")    \* a warning to the gate
Breaks(g) == Said(Report(g, TRUE, {}), "pass")
Sub(a, c, by, verel, bound, rs) ==
    [artifact |-> a, content |-> c, by |-> by, verel |-> verel, bound |-> bound, reports |-> rs]

\* Two different files flagged by the media grader, the first one again under
\* another name, one flagged over HTTP that a second grader only guesses about, and
\* one that is flagged while the second grader is broken.
A1 == Sub("a1", "c1", "hotfolder", TRUE, TRUE, {Fails("media")})
A2 == Sub("a2", "c2", "rita", TRUE, TRUE, {Fails("media"), Guesses("prov")})
A3 == Sub("a3", "c1", "ada", TRUE, TRUE, {Fails("media")})
A4 == Sub("a4", "", "ada", FALSE, TRUE, {Fails("media"), Breaks("prov")})

True(a) == a :> TRUE
Both == True("a1") @@ True("a2")

\* Evidence is collected while a promotion is decided; two requests at a time with
\* demotions; the modes, the default and the kill switch; labels and retention.
Earn == [slots |-> {s1}, subs |-> {A1, A2, A3}, modes |-> {"shadow"}, labels |-> 3, policy |-> 2, ops |-> {"labels"},
         batches |-> {True("a1"), True("a3"), Both}]
Race == [slots |-> {s1, s2}, subs |-> {A1, A2}, modes |-> {"shadow"}, labels |-> 2, policy |-> 3,
         ops |-> {"demote"}, batches |-> {Both}]
Watch == [slots |-> {s1}, subs |-> {A1, A2}, modes |-> {"policy"}, labels |-> 2, policy |-> 3,
          ops |-> {"health", "demote", "override"}, batches |-> {"a1" :> FALSE, True("a2")}]
Block == [slots |-> {s1, s2}, subs |-> {A4}, modes |-> {"enforce", "policy"}, labels |-> 0, policy |-> 2,
          ops |-> {"override", "default", "restart"}, batches |-> {}]
Retain == [slots |-> {s1}, subs |-> {A1, A3}, modes |-> {"shadow"}, labels |-> 3, policy |-> 1,
           ops |-> {"pilot", "labels", "amend"}, batches |-> {True("a1"), "a1" :> FALSE, True("a3")}]
ScenarioSet == {Earn, Race, Watch, Block, Retain}

\* Decisions are archived while a promotion is decided.
Forget == [Earn EXCEPT !.ops = {"pilot"}, !.policy = 2, !.batches = {True("a1"), True("a2"), True("a3")}]
ForgetSet == {Forget}

\* One name that is rewritten, touched, measured and dropped again; two names
\* where a scan takes one; restarts in other modes; an archive; a policy that
\* changes; restarts with the kill switch and without.
Base == [names |-> {1}, modes |-> {"enforce"}, levels |-> {"enforce"}, writes |-> 2, touches |-> 1,
         crashes |-> 1, archive |-> FALSE, measures |-> 1, kills |-> {FALSE}]
Two == [Base EXCEPT !.names = {1, 2}, !.modes = {"policy"}, !.writes = 2, !.touches = 0, !.crashes = 0]
Moods == [Base EXCEPT !.modes = Levels \cup {"policy"}, !.writes = 1, !.crashes = 2]
Archives == [Base EXCEPT !.archive = TRUE, !.touches = 0]
Swings == [Base EXCEPT !.modes = {"policy"}, !.levels = {"shadow", "enforce"}, !.writes = 1, !.touches = 0]
Killed == [Base EXCEPT !.kills = BOOLEAN, !.writes = 1, !.touches = 0]
FolderScenarioSet == {Base, Two, Moods, Archives, Swings, Killed}

VARIABLE part
allVars == <<part, vars, folderVars>>
MCInit == part \in {"service", "folder"} /\ Init /\ FolderInit
         /\ IF part = "service" THEN hf = Base ELSE sc = Retain
MCNext ==
  \/ part = "service" /\ Next /\ UNCHANGED <<part, folderVars>>
  \/ part = "folder" /\ FolderNext /\ UNCHANGED <<part, vars>>
MCSpec ==
  /\ MCInit /\ [][MCNext]_allVars
  /\ WF_allVars(part = "folder" /\ scan_once /\ UNCHANGED <<part, vars>>)
  /\ WF_allVars(part = "folder" /\ (\E n \in Names : Settle(n)) /\ UNCHANGED <<part, vars>>)
=============================================================================
