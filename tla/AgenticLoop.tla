------------------------------ MODULE AgenticLoop ------------------------------
(***************************************************************************)
(* The validation loop, agentic_loop.py: a mode's plan is a list of checks   *)
(* that feed and gate one another, then two advisory agents, a human and an  *)
(* exit code.  The audit of a Multi-Agent run is RunAudit's.                 *)
(***************************************************************************)
EXTENDS Naturals, Sequences, FiniteSets

CONSTANTS Registry,     \* services.json, in order
          ValidatedOnes \* SERVICES: those that were selected and started

VARIABLE loop

\* Services are numbered; 0 stands for what is of no service.
ASSUME LoopAssumption == Registry \in Seq(Nat \ {0})

\* One row the plan asks for.  An item whose gate did not hold is dropped, or
\* reported as skipped; an item that needs a value waits for another's answer.
Item(kind, name, gate, whenShut, needs, saves, of) ==
  [kind |-> kind, name |-> name, gate |-> gate, whenShut |-> whenShut,
   needs |-> needs, saves |-> saves, of |-> of]
Ungated == <<0, "nothing">>
Place(name) == <<0, name>>
Lone(kind, name) == Item(kind, name, Ungated, "drop", {}, {}, 0)
Gated(kind, name, gate) == Item(kind, name, gate, "drop", {}, {}, 0)

StepName == <<"first", "second">>

\* Mutant: a flow goes on after a step that failed.
FlowStep_GoesOn(s, n, needs, saves) ==
  Item("step", <<s, StepName[n]>>, <<s, "ready">>, "drop", needs, saves, s)

\* A step runs only after the step before it, which may have fed it.
FlowStep(s, n, needs, saves) ==
  Item("step", <<s, StepName[n]>>, <<s, IF n = 1 THEN "ready" ELSE StepName[n - 1]>>,
       IF n = 1 THEN "drop" ELSE "skip", needs, saves, s)

\* run_services, observe, observe_nfr, observe_flows for one service: its gate
\* (a row of the report only when it stays shut), a timed check and a flow of two
\* steps whose values a rule relates.
ServicePlan(s) ==
  IF s \notin ValidatedOnes THEN <<Item("loop", <<s, "loop">>, Ungated, "drop", {}, {}, s)>>
  ELSE <<Lone("ready", <<s, "ready">>),
         Gated("check", <<s, "check">>, <<s, "ready">>),
         Gated("nfr", <<s, "nfr">>, <<s, "check">>),
         FlowStep(s, 1, {}, {<<s, "a">>}),
         FlowStep(s, 2, {<<s, "a">>}, {<<s, "b">>}),
         Item("rule", <<s, "rule">>, <<s, "second">>, "skip", {<<s, "a">>, <<s, "b">>}, {}, s)>>

\* mcp_read: a good envelope is timed, read again and compared with the backend.
ReadRows(s) == [i \in 1..3 |->
  LET kind == <<"latency", "repeat", "compare">>[i] IN Gated(kind, <<s, kind>>, <<s, "read">>)]

\* observe_mcp: the tools, a call that must be refused, and per source a read
\* that saves an id and an error the id must provoke.
ToolPlan(s) ==
  <<Gated("probe", <<s, "probe">>, Place("list")),
    Item("read", <<s, "read">>, Place("list"), "drop", {}, {<<s, "id">>}, s)>>
  \o ReadRows(s)
  \o <<Item("error", <<s, "error">>, Place("list"), "drop", {<<s, "id">>}, {}, 0)>>

\* observe_rag: each case asks twice.
CasePlan(c) ==
  <<Gated("case", <<c, "case">>, Place("ready")), Gated("latency", <<c, "latency">>, <<c, "case">>),
    Gated("repeat", <<c, "repeat">>, <<c, "case">>)>>

\* observe_ci and post_commit_checks: the newest run of a service's workflow; for
\* testing it must also have left reports of tests that all passed.
RunPlan(s) == <<Gated("run", <<s, "run">>, Place("gh"))>>
TestingPlan(s) ==
  <<Lone("file", <<s, "pre">>), Lone("file", <<s, "post">>)>> \o RunPlan(s)

\* observe_multi_agent, up to the exported run that RunAudit judges.
MultiAgentPlan ==
  <<Lone("file", Place("files")), Lone("list", Place("health")),
    Gated("list", Place("ready"), Place("health")),
    Gated("case", Place("selected"), Place("ready")),
    Gated("file", Place("export"), Place("selected"))>>

\* Mutant: a deployment report that cannot be had is no failure.
ReportSource_Optional == Lone("run", Place("report"))

\* cloud_report_text, run_cloud
ReportSource == Lone("file", Place("report"))
CloudPlan ==
  <<ReportSource>>
  \o [i \in 1..4 |-> Gated("file", Place(<<"status", "smoke", "security", "off">>[i]),
                           Place("report"))]
  \o <<Lone("file", Place("identity")), Lone("file", Place("profile")), Lone("run", Place("workflow"))>>

EachOf(plans) ==
  LET upTo[n \in 0..Len(plans)] == IF n = 0 THEN <<>> ELSE upTo[n - 1] \o plans[n]
  IN  upTo[Len(plans)]

PlanOf(mode) ==
  CASE mode = "services" -> EachOf([i \in DOMAIN Registry |-> ServicePlan(Registry[i])])
    [] mode = "mcp" -> <<Lone("list", Place("list"))>> \o EachOf([i \in DOMAIN Registry |-> ToolPlan(Registry[i])])
    [] mode = "rag" -> <<Lone("file", Place("ready"))>> \o EachOf([i \in DOMAIN Registry |-> CasePlan(Registry[i])])
    [] mode = "ci" -> <<Lone("gh", Place("gh"))>> \o EachOf([i \in DOMAIN Registry |-> RunPlan(Registry[i])])
    [] mode = "testing" -> <<Lone("file", Place("hook")), Lone("gh", Place("gh"))>> \o EachOf([i \in DOMAIN Registry |-> TestingPlan(Registry[i])])
    [] mode = "multi-agent" -> MultiAgentPlan
    [] mode = "cloud" -> CloudPlan
Modes == {"multi-agent", "services", "mcp", "rag", "ci", "testing", "cloud"}

LoopInit == \E mode \in Modes, interactive \in BOOLEAN :
  loop = [mode |-> mode, interactive |-> interactive, left |-> PlanOf(mode), rows |-> <<>>,
          saved |-> {}, failures |-> 0, at |-> "act", decision |-> "none",
          release |-> "none", exit |-> 0]

-----------------------------------------------------------------------------
\* What the world answers when an item is asked, and the row it gives.
WorldAnswers(item) ==
  CASE item.kind = "loop" -> {"absent"}
    [] item.kind = "gh" -> {"right", "absent"}
    [] item.kind = "run" -> {"right", "wrong", "absent"}
    [] item.kind = "list" -> {"right", "wrong", "gone"}
    [] item.kind = "nfr" -> {"right", "wrong", "raises"}
    [] item.kind = "selection" -> {"right", "wrong", "absent"}
    [] OTHER -> {"right", "wrong"} \cup (IF item.saves = {} THEN {} ELSE {"unsaved"})

\* Mutant: a second answer that differs from the first is only noted.
Outcome_NotesChange(item, answer) ==
  IF answer = "right" THEN "OK"
  ELSE IF answer = "absent" THEN "SKIP"
  ELSE IF item.kind \in {"selection", "repeat"} THEN "NOTE" ELSE "FAIL"

\* run_check, check_invariant, mcp_step, grounding, score_tool_selection
Outcome(item, answer) ==
  IF answer = "right" THEN "OK"
  ELSE IF answer = "absent" THEN "SKIP"
  ELSE IF item.kind = "selection" THEN "NOTE" ELSE "FAIL"

RowsOf(name) == {i \in DOMAIN loop.rows : loop.rows[i].item.name = name}
\* The gate let through: a step only after a row that is OK, the rows about an
\* answer after any answer of the right shape.  A list of tools may differ from
\* what is expected and yet be gone on with.
GateHolds(item) ==
  item.gate = Ungated \/ \E i \in RowsOf(item.gate) :
    IF item.whenShut = "skip" THEN loop.rows[i].out = "OK"
    ELSE LET answer == loop.rows[i].answer IN
         \/ answer \in {"right", "unsaved"}
         \/ loop.rows[i].item.kind = "list" /\ answer = "wrong"

\* Mutant: what a read saved is lost before the next step is resolved.
LacksInput_Forgotten(item) == loop.mode = "mcp" /\ item.needs /= {}

\* mcp_step: "an earlier step did not save its input"
LacksInput(item) == loop.mode = "mcp" /\ ~(item.needs \subseteq loop.saved)
NotStarted(item) == loop.mode = "mcp" /\ item.kind = "read" /\ item.of \notin ValidatedOnes

Report(item, out, answer) ==
  loop' = [loop EXCEPT !.left = Tail(@),
                       !.rows = Append(@, [item |-> item, out |-> out, answer |-> answer])]

Drop == /\ loop.at = "act" /\ loop.left /= <<>>
        /\ ~GateHolds(Head(loop.left)) /\ Head(loop.left).whenShut = "drop"
        /\ loop' = [loop EXCEPT !.left = Tail(@)]

Skip == /\ loop.at = "act" /\ loop.left /= <<>>
        /\ LET item == Head(loop.left) IN
           /\ IF GateHolds(item) THEN LacksInput(item) \/ NotStarted(item)
                                 ELSE item.whenShut = "skip"
           /\ Report(item, "SKIP", "unasked")

\* observe_nfr's samples are the one request made outside a try.
Ask(answer) ==
  /\ loop.at = "act" /\ loop.left /= <<>>
  /\ LET item == Head(loop.left) IN
     /\ GateHolds(item) /\ ~LacksInput(item) /\ ~NotStarted(item)
     /\ answer \in WorldAnswers(item)
     /\ IF answer = "raises" THEN loop' = [loop EXCEPT !.at = "crashed", !.exit = 1]
        ELSE loop' = [loop EXCEPT
               !.left = Tail(@),
               !.rows = Append(@, [item |-> item, out |-> Outcome(item, answer), answer |-> answer]),
               !.saved = IF answer = "right" THEN @ \cup item.saves ELSE @]

\* main: the failures are counted, then the implementation agent comments; in
\* mcp mode its picks are scored as rows of their own, then the reviewer.
Advise(answer) ==
  /\ loop.at = "act" /\ loop.left = <<>>
  /\ answer \in WorldAnswers(Lone("selection", Place("selection")))
  /\ loop' = [loop EXCEPT
       !.at = "decide",
       !.failures = Cardinality({i \in DOMAIN loop.rows : loop.rows[i].out = "FAIL"}),
       !.rows = IF loop.mode /= "mcp" THEN @
                ELSE Append(@, LET item == Lone("selection", Place("selection")) IN
                       [item |-> item, out |-> Outcome(item, answer), answer |-> answer])]

ReleaseDecision(decision, failures) ==
  IF decision = "Deferred" THEN "PENDING"
  ELSE IF decision = "Accept" /\ failures = 0 THEN "READY" ELSE "NOT READY"

Conclude(decision) ==
  /\ loop.at = "decide"
  /\ IF loop.interactive THEN decision \in {"Accept", "Partially Accept", "Reject"}
                         ELSE decision = "Deferred"
  /\ loop' = [loop EXCEPT
       !.at = "done", !.decision = decision,
       !.release = IF loop.mode = "cloud" THEN ReleaseDecision(decision, loop.failures) ELSE @,
       !.exit = IF loop.failures > 0 THEN 1 ELSE 0]

LoopNext == \/ Drop \/ Skip
            \/ \E a \in {"right", "wrong", "unsaved", "absent", "raises", "gone"} : Ask(a) \/ Advise(a)
            \/ \E d \in {"Accept", "Partially Accept", "Reject", "Deferred"} : Conclude(d)

-----------------------------------------------------------------------------
Asked == {i \in DOMAIN loop.rows : loop.rows[i].answer /= "unasked"}
SavedBefore(i) == UNION {loop.rows[j].item.saves :
                           j \in {k \in 1..(i - 1) : loop.rows[k].answer = "right"}}

\* No request and no rule is evaluated with a placeholder nobody filled: a flow
\* that stops, a read that failed and a source that was not started all keep
\* what depends on them from being asked.
NothingUnfilled == \A i \in Asked : loop.rows[i].item.needs \subseteq SavedBefore(i)

\* The exit code is the checks': zero means no answer the loop got was wrong or
\* lacked what a later step was to use, whatever agents and human made of it.
ZeroExitMeansSound ==
  loop.at = "done" /\ loop.exit = 0 =>
    \A i \in Asked : loop.rows[i].item.kind /= "selection" =>
      loop.rows[i].answer \in {"right", "absent"}

\* A check is passed over only for a failure reported above it, for a service
\* that was not started, or for want of the gh tool or of a finished run; never
\* so that a failure goes unreported.
SkipsHaveCause ==
  \A i \in DOMAIN loop.rows : loop.rows[i].answer = "unasked" =>
    \E j \in 1..i : \/ loop.rows[j].out = "FAIL"
                    \/ loop.rows[j].item.of \in {Registry[k] : k \in DOMAIN Registry} \ ValidatedOnes

\* "READY only on Accept with every deterministic check passing": a release
\* called ready was accepted by a human over a report that was there and passed.
ReadyWasEarned ==
  loop.release = "READY" =>
    /\ loop.decision = "Accept"
    /\ \A name \in {"report", "status", "smoke", "security", "off", "profile"} :
         \E i \in RowsOf(Place(name)) : loop.rows[i].answer = "right"

\* A failure is told as one, wherever in the plan it falls: it is neither passed over
\* nor hidden by the exit code or by a decision.
FailuresAreTold == NothingUnfilled /\ ZeroExitMeansSound /\ SkipsHaveCause /\ ReadyWasEarned
=============================================================================
