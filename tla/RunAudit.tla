------------------------------- MODULE RunAudit -------------------------------
(***************************************************************************)
(* The audit of one exported run, agentic_loop.py's multi-agent mode, beside *)
(* the server that wrote it: /runs/{id}/export reads the run row and its     *)
(* events in one stretch of the event loop, and audit_checks judges them.    *)
(***************************************************************************)
EXTENDS MultiAgentRuns

AuditRows == {"stage completed", "deterministic checks", "reviewer verdict",
              "human decision", "final status matches decision",
              "audit trail starts with run_created",
              "human decision follows awaiting_human",
              "audit trail ends with the final event"}

TerminalEvent == [completed |-> "run_completed", rejected |-> "run_rejected",
                  failed |-> "run_failed"]

Position(events, e) == CHOOSE i \in DOMAIN events : events[i] = e
Reported(events, e) == \E i \in DOMAIN events : events[i] = e

\* Mutant: only a plain approval is expected to complete a run.
StatusFits_OnlyApprove(row) ==
  row.decision /= "none" =>
    row.status = IF row.decision = "approve" THEN "completed" ELSE "rejected"

StatusFits(row) ==
  row.decision /= "none" =>
    row.status = IF row.decision = "reject" THEN "rejected" ELSE "completed"

\* Mutant: the final event may be followed, or still be missing.
TrailEnds_Open(row, events) == row.status \in FinalStatuses => events /= <<>>

TrailEnds(row, events) ==
  row.status \in FinalStatuses =>
    events /= <<>> /\ events[Len(events)] = TerminalEvent[row.status]

\* One row of audit_checks.  The stages' own records reach the table with the
\* result and the review they produced.
AuditOK(row, events, check) ==
  CASE check = "stage completed" -> row.result.of > 0 /\ row.review.of > 0
    [] check = "deterministic checks" -> row.checks.of > 0 /\ row.checks.passed
    [] check = "reviewer verdict" -> row.review.of > 0
    [] check = "human decision" -> row.decision /= "none"
    [] check = "final status matches decision" ->
         StatusFits(row)
    [] check = "audit trail starts with run_created" ->
         events /= <<>> /\ events[1] = "run_created"
    [] check = "human decision follows awaiting_human" ->
         Reported(events, "human_decision") =>
           /\ Reported(events, "awaiting_human")
           /\ Position(events, "awaiting_human") < Position(events, "human_decision")
    [] check = "audit trail ends with the final event" -> TrailEnds(row, events)

\* What the auditor sees of r once the loop is free to serve the export.
AuditFailures(r) == {c \in AuditRows : ~AuditOK(disk[r], log[r], c)}
Exportable(r) == process = "up" /\ LoopFree /\ disk[r].status /= "none"

-----------------------------------------------------------------------------
Times(r, e) == Cardinality({i \in DOMAIN log[r] : log[r][i] = e})

\* A run the audit finds nothing wrong with has a whole trail: whatever was
\* interrupted, every event the engine writes on the way to the decision is
\* there, once per attempt, and the decision once.
PassedAuditMeansWholeTrail ==
  \A r \in Runs : Exportable(r) /\ AuditFailures(r) = {} =>
    /\ disk[r].status \in {"completed", "rejected"}
    /\ \A e \in {"planner_started", "planner_completed", "worker_started",
                 "checks_completed", "reviewer_started", "review_completed"} :
         Times(r, e) = disk[r].attempts
    /\ Times(r, "worker_completed") + Times(r, "worker_failed") = disk[r].attempts
    /\ Times(r, "revision_requested") = disk[r].attempts - 1
    /\ \A e \in {"run_created", "awaiting_human", "human_decision"} : Times(r, e) = 1

\* The audit raises no false alarm: a decided run it fails was signed off with
\* failing checks, or its trail lost the proposal or its end to a stop or a
\* store fault that fell between a saved row and the event about it.
AuditFailsForCause ==
  \A r \in Runs :
    Exportable(r) /\ disk[r].status \in {"completed", "rejected"}
      /\ AuditFailures(r) /= {} =>
        \/ ~disk[r].checks.passed
        \/ ~Reported(log[r], "awaiting_human")
        \/ ~Reported(log[r], TerminalEvent[disk[r].status])

\* The audit of an exported run neither overlooks a lost event nor invents a failure.
AuditTellsTruth == PassedAuditMeansWholeTrail /\ AuditFailsForCause
=============================================================================
