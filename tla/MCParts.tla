-------------------------------- MODULE MCParts --------------------------------
(***************************************************************************)
(* Parts of the backends, the tools and AI-Mode that share no state with one *)
(* another, side by side: a behaviour is about one of them, and the others   *)
(* stand still.                                                              *)
(***************************************************************************)
EXTENDS ToolLoop, AgenticLoop, CatalogueSearch, TripCosts, GroundedAnswers, TLC

\* The route tables of the five sites fit, which the proof about the pages rests on.
TripSite == INSTANCE TripPages
TransportSite == INSTANCE TransportPages
StaySite == INSTANCE StayPages
BudgetSite == INSTANCE BudgetPages
ActivitySite == INSTANCE ActivityPages
ASSUME PageTablesFit ==
  /\ TripSite!RoutesFit(TripSite!Routes, TripSite!Things, {})
  /\ TransportSite!RoutesFit(TransportSite!Routes, TransportSite!Things, {})
  /\ StaySite!RoutesFit(StaySite!Routes, StaySite!Things, {})
  /\ BudgetSite!RoutesFit(BudgetSite!Routes, BudgetSite!Things, {})
  /\ ActivitySite!RoutesFit(ActivitySite!Routes, ActivitySite!Things, {"put_itinerary"})

VARIABLE part  \* what this behaviour is about

MCRegistry == <<1, 2>>
MCBody(n, p, lasts, least, active, slots, cats) ==
  [name |-> n, price |-> p, lasts |-> lasts, least |-> least, most |-> 2,
   active |-> active, slots |-> slots, cats |-> cats]
MCShort == MCBody("m1", 950, 1, 1, TRUE, {"short"}, {"c"})
MCSamples == [m1 |-> MCShort, m2 |-> MCBody("m2", 10000, 2, 1, TRUE, {"long"}, {"c"})]
MCPayloads == {MCShort, MCBody("x", 1000, 2, 2, TRUE, {"long"}, {"d"}),
               [MCBody("x", 99, 1, 1, FALSE, {}, {"c", "d"}) EXCEPT !.most = 1]}
MCAlphabet == <<"f1", "l1", "l2", "m1", "m2", "x">>
MCKindOf == [taxi |-> "transport", hotel |-> "accommodation", tour |-> "activities"]

MCOwnerOf == [j |-> "student-3", v |-> "student-4"]
MCAtFirst == {[j |-> "open", v |-> "open"], [j |-> "open", v |-> "gone"]}

\* A part that stands still is in one state.
LoopSleeps == loop = [mode |-> "none", rows |-> <<>>, at |-> "rest", release |-> "none"]
CatalogueSleeps ==
  /\ acts = [id \in ActivityIds |-> Missing] /\ aliases = [id \in ActivityIds |-> id]
  /\ edits = [e \in Editors |-> Quiet] /\ written = 0 /\ gone = {} /\ mixed = {}
  /\ base = "rest"
CostsSleep == /\ prices = [l \in Listings |-> 1] /\ trip = TRUE /\ pins = [l \in {} |-> 1]
              /\ cancelled = {} /\ spent = {} /\ turns = 0 /\ during = Looking
              /\ summary = Fresh
AnswersSleep == /\ listed = [id \in Ids |-> "gone"] /\ call = NoCall /\ meanwhile = 0
                /\ made = {} /\ assist = NoAssist /\ past = {} /\ there = {} /\ since = Never
ToolsSleep == /\ at = "answered" /\ turn = 1 /\ reply = <<>> /\ executed = {} /\ corrections = 0
              /\ rechecked = FALSE /\ trace = <<>> /\ asking = [by |-> "others", runs |-> MaxAttempts]
              /\ received = [c \in Calls |-> [sent |-> 0, errors |-> 0]]

PartInit == /\ part \in {"loop", "catalogue", "costs", "answers", "tools"}
            /\ IF part = "loop" THEN LoopInit ELSE LoopSleeps
            /\ IF part = "catalogue" THEN CatalogueInit ELSE CatalogueSleeps
            /\ IF part = "costs" THEN CostInit ELSE CostsSleep
            /\ IF part = "answers" THEN AnswerInit ELSE AnswersSleep
            /\ IF part = "tools" THEN ToolInit ELSE ToolsSleep
PartNext == UNCHANGED part /\
    \/ part = "loop" /\ LoopNext
         /\ UNCHANGED <<CatalogueVars, CostVars, AnswerVars, ToolVars>>
    \/ part = "catalogue" /\ CatalogueNext
         /\ UNCHANGED <<loop, CostVars, AnswerVars, ToolVars>>
    \/ part = "costs" /\ CostNext
         /\ UNCHANGED <<loop, CatalogueVars, AnswerVars, ToolVars>>
    \/ part = "answers" /\ AnswerNext
         /\ UNCHANGED <<loop, CatalogueVars, CostVars, ToolVars>>
    \/ part = "tools" /\ ToolNext
         /\ UNCHANGED <<loop, CatalogueVars, CostVars, AnswerVars>>
partVars == <<part, loop, CatalogueVars, CostVars, AnswerVars, ToolVars>>
\* Every wait of an AI-Mode run is bounded by agent_timeout_seconds.
PartSpec == PartInit /\ [][PartNext]_partVars /\ WF_ToolVars(ToolNext)
================================================================================
