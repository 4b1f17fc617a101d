------------------------------ MODULE AgentPages -------------------------------
(***************************************************************************)
(* The pages on which a user follows one agent run and decides on it, in   *)
(* the four frontends that have them.  The run is elsewhere: the page      *)
(* holds what it read last, asks again every two seconds while that says   *)
(* the agents are at work, and offers the decision when it says that the   *)
(* run awaits one.  Every call can fail: for a moment (no connection, no   *)
(* answer in time) or with an error of the backend's own.                  *)
(***************************************************************************)
EXTENDS FiniteSets

VARIABLES run,    \* its status, and whether somebody else decided on it since the
                  \* page was last read
          panel   \* what the user has in front of them

AgentVars == <<run, panel>>

RunStatuses == {"none", "working", "waiting", "decided", "failed"}
Failures == {"transient", "refused"}
AtRest(status) == status \in {"waiting", "decided", "failed"}

--------------------------------------------------------------------------------
(* How the four sites differ *)

\* The failures of a poll after which the panel goes on asking.
stays_panel == Failures              \* "must not stop the page asking again"
transport_panel_None == {}           \* a mutated panel that forgets to go on
transport_panel == {"transient"}     \* AGENT_TRANSIENT_ERRORS
budgets_panel == {}                  \* the panel becomes the form and the error
planner_panel == {}                  \* the error without the run

KeepsAsking == [stays |-> stays_panel, transport |-> transport_panel,
                budgets |-> budgets_panel, planner |-> planner_panel]

\* What a review does around its call: whether the run is read before it, whether
\* the frontend may refuse a decision itself, and that the run is read again when
\* the decision was not acknowledged.
stays_review == [first |-> FALSE, checks |-> TRUE, again |-> TRUE]
transport_review == [first |-> FALSE, checks |-> TRUE, again |-> TRUE]
budgets_review == [first |-> FALSE, checks |-> FALSE, again |-> TRUE]

\* A mutated review that shows the run as it was read before the decision.
planner_review_Stale == [first |-> TRUE, checks |-> TRUE, again |-> FALSE]

\* "Read the authoritative run after an uncertain acknowledgement; never replay."
planner_review == [first |-> TRUE, checks |-> TRUE, again |-> TRUE]

Reviews == [stays |-> stays_review, transport |-> transport_review,
            budgets |-> budgets_review, planner |-> planner_review]

--------------------------------------------------------------------------------
(* The page *)

Form(site) == [site |-> site, at |-> "form", shows |-> "none", polls |-> FALSE,
               why |-> "new"]  \* what the last call of this page came to

\* A page drawn around the run: it polls while the run is active.
Drawn(status) == [panel EXCEPT !.at = "page", !.shows = status,
                               !.polls = (status = "working"), !.why = "read"]

\* A page without one: the error alone.
Errored(failure) == [panel EXCEPT !.at = "page", !.shows = "none", !.polls = FALSE,
                                  !.why = failure]

ReadRun == run' = [run EXCEPT !.byOthers = FALSE]

\* agents_start, start: the run is created and its page is opened, or the form is
\* drawn again.  A run whose answer is lost goes on without a page.
StartsRun ==
    /\ panel.at = "form" /\ run.status = "none"
    /\ \/ /\ run' = [run EXCEPT !.status = "working"]
          /\ panel' \in {[panel EXCEPT !.at = "opening"], [panel EXCEPT !.why = "transient"]}
       \/ /\ \E failure \in Failures : panel' = [panel EXCEPT !.why = failure]
          /\ UNCHANGED run

\* The run's own page, which a refresh only reads.
OpensPage ==
    /\ run.status # "none"
    /\ panel.at = "opening" \/ (panel.at = "page" /\ ~panel.polls)
    /\ \/ panel' = Drawn(run.status) /\ ReadRun
       \/ \E failure \in Failures : panel' = Errored(failure) /\ UNCHANGED run

\* Every two seconds, the panel alone.
PollsPanel ==
    /\ panel.at = "page" /\ panel.polls
    /\ \/ panel' = Drawn(run.status) /\ ReadRun
       \/ \E failure \in Failures :
            /\ panel' = [Errored(failure) EXCEPT !.polls = failure \in KeepsAsking[panel.site]]
            /\ UNCHANGED run

--------------------------------------------------------------------------------
(* The decision *)

Review == Reviews[panel.site]

\* The form of the decision is sent from a page that showed the run waiting.
Decides ==
    /\ panel.at = "page" /\ panel.shows = "waiting"
    /\ panel' = [panel EXCEPT !.at = IF Review.first THEN "first" ELSE "send"]
    /\ UNCHANGED run

NotAcknowledged(p, failure) ==
    IF Review.again THEN [p EXCEPT !.at = "again", !.why = failure]
                    ELSE [p EXCEPT !.at = "page", !.why = failure]

\* The planner reads the run to know which suggestions may be decided on.
ReadsFirst ==
    /\ panel.at = "first"
    /\ \/ panel' = [panel EXCEPT !.at = "send", !.shows = run.status] /\ ReadRun
       \/ \E failure \in Failures : panel' = NotAcknowledged(panel, failure) /\ UNCHANGED run

\* A decision that the frontend does not send on: nothing ticked, or unknown.
RefusesItself ==
    /\ panel.at = "send" /\ Review.checks
    /\ panel' = NotAcknowledged(panel, "refused")
    /\ UNCHANGED run

\* The run takes one decision, while it waits for one.  The answer may not arrive;
\* a decision that arrives late is like one of somebody else's.
SendsDecision ==
    /\ panel.at = "send"
    /\ \/ /\ run.status = "waiting"
          /\ run' = [status |-> "decided", byOthers |-> FALSE]
          /\ panel' \in {Drawn("decided"), NotAcknowledged(panel, "transient")}
       \/ \E failure \in Failures : panel' = NotAcknowledged(panel, failure) /\ UNCHANGED run

\* _review_error and its likes: the run again, with what went wrong beside it.
ReadsAgain ==
    /\ panel.at = "again"
    /\ \/ panel' = Drawn(run.status) /\ ReadRun
       \/ \E failure \in Failures : panel' = Errored(failure) /\ UNCHANGED run

--------------------------------------------------------------------------------
(* The run itself, and other users *)

AgentsProgress ==
    /\ run.status = "working"
    /\ \E status \in {"waiting", "failed"} : run' = [run EXCEPT !.status = status]
    /\ UNCHANGED panel

SomebodyDecides ==
    /\ run.status = "waiting"
    /\ run' = [status |-> "decided", byOthers |-> TRUE]
    /\ UNCHANGED panel

AgentInit == /\ run = [status |-> "none", byOthers |-> FALSE]
             /\ \E site \in DOMAIN Reviews : panel = Form(site)

AgentNext == \/ StartsRun \/ OpensPage \/ PollsPanel
             \/ Decides \/ ReadsFirst \/ RefusesItself \/ SendsDecision \/ ReadsAgain
             \/ AgentsProgress \/ SomebodyDecides

--------------------------------------------------------------------------------
(* Properties *)

\* A page stops following a run only for a reason it shows: the run came to rest,
\* or a call failed -- and in the two sites that ride out a hiccup, a page that
\* was following a run when the connection failed for a moment still is.
QuietPagesHaveReason ==
    [][/\ panel'.at = "page" /\ ~panel'.polls =>
            AtRest(panel'.shows) \/ panel'.why \in Failures
       /\ panel.at = "page" /\ panel.polls /\ panel'.why = "transient"
            /\ panel.site \in {"stays", "transport"} => panel'.polls]_panel

\* Once this user's decision was made, whatever became of the answer, no page
\* offers it to them again: one that offers it on a decided run was read before
\* somebody else (or a call given up on) decided.
NotOfferedTwice ==
    panel.at = "page" /\ panel.shows = "waiting" /\ run.status = "decided" =>
      run.byOthers
================================================================================
