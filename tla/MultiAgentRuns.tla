--------------------------- MODULE MultiAgentRuns ---------------------------
(***************************************************************************)
(* The Multi-Agent Server: the Planner -> Worker -> Reviewer -> human      *)
(* workflow engine (workflow.py), its SQLite run store (store.py) and the  *)
(* process lifespan that restarts it (app.py).                             *)
(*                                                                         *)
(* The engine is one asyncio event loop.  A task gives the loop up only    *)
(* while AI-Mode works for it, so between two awaits its statements are    *)
(* not interleaved with another request's; but every store write commits   *)
(* on its own, so a crash may fall between any two of them.  Each action   *)
(* below therefore performs one store write: Commit saves the run row and  *)
(* leaves in queue[r] the audit events the same stretch of code writes     *)
(* next, and LogEvent writes them one by one while the loop stays busy.    *)
(***************************************************************************)
EXTENDS Naturals, Sequences, FiniteSets

CONSTANTS Runs,           \* run ids; each is used for one run
          Actions,        \* the changes a Worker's result may list
          MaxActiveRuns,  \* settings.max_active_runs
          MaxRevisions,   \* settings.max_revisions
          StoreFaults     \* may a store write raise (disk full, database locked)?

ASSUME LimitsAssumption == /\ MaxActiveRuns \in Nat \ {0}
                           /\ MaxRevisions \in Nat
                           /\ StoreFaults \in BOOLEAN

VARIABLES process,       \* "down" | "booting" (fail_interrupted) | "up"
          tasks,         \* engine._tasks: the runs that occupy a slot
          pc,            \* where the code working on the run is
          queue,         \* audit events the current stretch of code still writes
          mem,           \* the StoredRun object the code works on
          attempt,       \* _pipeline's local: the attempt under way
          workerFailed,  \* _pipeline's local: the attempt's Worker call failed
          disk,          \* table runs
          log,           \* table events, per run
          wrote,         \* attempts in which a write tool ran (in AI-Mode), and
                         \* those the server was not told of
          faulted        \* runs that met a store fault since the last restart

vars == <<process, tasks, pc, queue, mem, attempt, workerFailed, disk, log, wrote, faulted>>
loopVars == <<process, tasks>>
localVars == <<attempt, workerFailed>>

-----------------------------------------------------------------------------
Attempts == 1..(MaxRevisions + 1)
ActiveStatuses == {"planning", "working", "reviewing"}
FinalStatuses == {"completed", "rejected", "failed"}
Statuses == {"none", "awaiting_human"} \cup ActiveStatuses \cup FinalStatuses
Verdicts == {"approve", "revise", "reject"}
Decisions == {"approve", "correct", "partial", "reject"}
Events == {"run_created", "planner_started", "planner_completed", "worker_started",
           "worker_completed", "worker_failed", "checks_completed", "reviewer_started",
           "review_completed", "revision_requested", "revision_skipped",
           "awaiting_human", "run_failed", "human_decision", "run_completed",
           "run_rejected"}

\* A run record.  result, checks and review carry the attempt they were made in
\* (the code's Step.attempt), so that a stale one can be told from a fresh one.
\* result.actions is what _actions finds in the Worker's output.
Row == [status   : Statuses,
        attempts : Attempts \cup {0},
        result   : [of : Attempts \cup {0}, parsed : BOOLEAN, actions : SUBSET Actions],
        checks   : [of : Attempts \cup {0}, passed : BOOLEAN],
        review   : [of : Attempts \cup {0}, verdict : Verdicts \cup {"none"}],
        proposed : SUBSET Actions,
        decision : Decisions \cup {"none"},
        approved : SUBSET Actions]

NewRow == [status   |-> "planning",
           attempts |-> 0,
           result   |-> [of |-> 0, parsed |-> FALSE, actions |-> {}],
           checks   |-> [of |-> 0, passed |-> FALSE],
           review   |-> [of |-> 0, verdict |-> "none"],
           proposed |-> {},
           decision |-> "none",
           approved |-> {}]

NoRow == [NewRow EXCEPT !.status = "none"]

\* The event loop is held from the moment a stretch of code has written the
\* store until it reaches its next await or returns.
BusyLabels == {"create", "dispatch", "settle", "replan", "propose", "fail"}
AwaitLabels == {"plan", "work", "review"}
PipelineLabels == AwaitLabels \cup (BusyLabels \ {"create", "fail"})
Labels == {"idle", "scheduled"} \cup AwaitLabels \cup BusyLabels

Busy(r) == pc[r] \in BusyLabels \/ queue[r] /= <<>>
LoopFree == \A r \in Runs : ~Busy(r)

\* The code working on r runs on: nothing of its stretch is left to write.
Continues(r, label) == process = "up" /\ pc[r] = label /\ queue[r] = <<>>
\* The code working on r is resumed by the loop.
Resumes(r, label) == Continues(r, label) /\ LoopFree

Init == /\ process = "up"
        /\ tasks = {}
        /\ pc = [r \in Runs |-> "idle"]
        /\ queue = [r \in Runs |-> <<>>]
        /\ mem = [r \in Runs |-> NoRow]
        /\ attempt = [r \in Runs |-> 0]
        /\ workerFailed = [r \in Runs |-> FALSE]
        /\ disk = [r \in Runs |-> NoRow]
        /\ log = [r \in Runs |-> <<>>]
        /\ wrote = [r \in Runs |-> [ran |-> {}, untold |-> {}]]
        /\ faulted = {}

-----------------------------------------------------------------------------
\* Save row for r, then write events and go to next; when the save raises, the
\* object keeps the new values, the table the old ones, and the code goes to
\* onFault.
Commit(r, row, events, next, onFault) ==
  /\ mem' = [mem EXCEPT ![r] = row]
  /\ \/ /\ disk' = [disk EXCEPT ![r] = row]
        /\ queue' = [queue EXCEPT ![r] = events]
        /\ pc' = [pc EXCEPT ![r] = next]
        /\ UNCHANGED faulted
     \/ /\ StoreFaults
        /\ pc' = [pc EXCEPT ![r] = onFault]
        /\ faulted' = faulted \cup {r}
        /\ UNCHANGED <<disk, queue>>
  /\ UNCHANGED log

\* Go to next without a save, writing events on the way.
Proceed(r, events, next) ==
  /\ queue' = [queue EXCEPT ![r] = events]
  /\ pc' = [pc EXCEPT ![r] = next]
  /\ UNCHANGED <<disk, log, faulted>>

LogEvent(r) ==
  /\ process /= "down"
  /\ queue[r] /= <<>>
  /\ log' = [log EXCEPT ![r] = Append(@, Head(queue[r]))]
  /\ queue' = [queue EXCEPT ![r] = Tail(@)]
  /\ UNCHANGED <<loopVars, localVars, pc, mem, disk, wrote, faulted>>

\* add_event raises.  Inside the pipeline _execute catches it and fails the
\* run; in start, in review and in _fail it ends the code that called it.
EventFault(r) ==
  /\ StoreFaults
  /\ process = "up"
  /\ queue[r] /= <<>>
  /\ queue' = [queue EXCEPT ![r] = <<>>]
  /\ pc' = [pc EXCEPT ![r] =
              IF @ \in PipelineLabels \/ Head(queue[r]) = "awaiting_human"
              THEN "fail" ELSE "idle"]
  /\ faulted' = faulted \cup {r}
  /\ UNCHANGED <<loopVars, localVars, mem, disk, log, wrote>>

-----------------------------------------------------------------------------
\* Mutant: the limit is compared with <=.
Start_OverLimit(r) ==
  /\ Resumes(r, "idle")
  /\ disk[r].status = "none"
  /\ Cardinality(tasks) <= MaxActiveRuns
  /\ Commit(r, NewRow, <<"run_created">>, "create", "idle")
  /\ UNCHANGED <<loopVars, localVars, wrote>>

\* POST /runs.  The capacity check, the insert and create_task are one stretch
\* of code without an await.
Start(r) ==
  /\ Resumes(r, "idle")
  /\ disk[r].status = "none"
  /\ Cardinality(tasks) < MaxActiveRuns
  /\ Commit(r, NewRow, <<"run_created">>, "create", "idle")
  /\ UNCHANGED <<loopVars, localVars, wrote>>

CreateTask(r) ==
  /\ Continues(r, "create")
  /\ tasks' = tasks \cup {r}
  /\ pc' = [pc EXCEPT ![r] = "scheduled"]
  /\ UNCHANGED <<process, localVars, queue, mem, disk, log, wrote, faulted>>

BeginPipeline(r) ==
  /\ Resumes(r, "scheduled")
  /\ Proceed(r, <<"planner_started">>, "plan")
  /\ attempt' = [attempt EXCEPT ![r] = 1]
  /\ UNCHANGED <<loopVars, workerFailed, mem, wrote>>

PlanReturns(r) ==
  /\ Resumes(r, "plan")
  /\ Commit(r, [mem[r] EXCEPT !.status = "working"],
            <<"planner_completed", "worker_started">>, "dispatch", "fail")
  /\ UNCHANGED <<loopVars, localVars, wrote>>

\* run.attempts is set in memory; the next save stores it.
Dispatch(r) ==
  /\ Continues(r, "dispatch")
  /\ mem' = [mem EXCEPT ![r].attempts = attempt[r]]
  /\ Proceed(r, <<>>, "work")
  /\ UNCHANGED <<loopVars, localVars, wrote>>

\* AI-Mode's tool loop runs a write tool on behalf of the Worker.
ToolWrites(r) ==
  /\ Continues(r, "work")
  /\ wrote' = [wrote EXCEPT ![r].ran = @ \cup {attempt[r]}]
  /\ UNCHANGED <<loopVars, localVars, pc, queue, mem, disk, log, faulted>>

\* _wrote_data: what the trace of the attempt tells.
WroteData(r) == attempt[r] \in wrote[r].ran \ wrote[r].untold

WorkEnds(r, parsed, acts, passed, event) ==
  Commit(r, [mem[r] EXCEPT !.status = "reviewing",
                           !.result = [of |-> attempt[r], parsed |-> parsed, actions |-> acts],
                           !.checks = [of |-> attempt[r], passed |-> passed]],
         <<event, "checks_completed", "reviewer_started">>, "review", "fail")

\* An answer that is not a JSON object fails output_schema, a call of a write
\* tool fails no_writes, and any answer may fail another blocking check.
WorkReturns(r, parsed, acts, passed) ==
  /\ Resumes(r, "work")
  /\ parsed \/ acts = {}
  /\ passed => parsed /\ ~WroteData(r)
  /\ WorkEnds(r, parsed, acts, passed, "worker_completed")
  /\ workerFailed' = [workerFailed EXCEPT ![r] = FALSE]
  /\ UNCHANGED <<loopVars, attempt, wrote>>

\* A BAD_GATEWAY that _worker_can_retry lets through to the review: its trace names
\* no write, because none ran or because the answer carries no trace (a malformed
\* answer, an error page).  One whose trace names a write is StageAborts.
WorkFails(r) ==
  /\ Resumes(r, "work")
  /\ attempt[r] <= MaxRevisions
  /\ WorkEnds(r, FALSE, {}, FALSE, "worker_failed")
  /\ workerFailed' = [workerFailed EXCEPT ![r] = TRUE]
  /\ wrote' = [wrote EXCEPT ![r].untold = @ \cup (wrote[r].ran \cap {attempt[r]})]
  /\ UNCHANGED <<loopVars, attempt>>

\* Mutant: no floor; the Reviewer's verdict stands whatever the checks found.
CheckFloor_Absent(verdict, passed) == verdict

\* _apply_check_floor
CheckFloor(verdict, passed) ==
  IF verdict = "approve" /\ ~passed THEN "revise" ELSE verdict

ReviewReturns(r, verdict) ==
  /\ Resumes(r, "review")
  /\ Commit(r, [mem[r] EXCEPT !.review =
                  [of |-> attempt[r], verdict |-> CheckFloor(verdict, mem[r].checks.passed)]],
            <<"review_completed">>, "settle", "fail")
  /\ UNCHANGED <<loopVars, localVars, wrote>>

WantsRevision(r) == /\ \/ mem[r].review.verdict = "revise"
                       \/ ~mem[r].checks.passed
                       \/ workerFailed[r]
                    /\ attempt[r] <= MaxRevisions

\* Mutant: revises without asking whether the attempt wrote.
Revise_AfterWrite(r) ==
  /\ Continues(r, "settle")
  /\ WantsRevision(r)
  /\ attempt' = [attempt EXCEPT ![r] = @ + 1]
  /\ Proceed(r, <<"revision_requested">>, "replan")
  /\ UNCHANGED <<loopVars, workerFailed, mem, wrote>>

Revise(r) ==
  /\ Continues(r, "settle")
  /\ WantsRevision(r)
  /\ ~WroteData(r)
  /\ attempt' = [attempt EXCEPT ![r] = @ + 1]
  /\ Proceed(r, <<"revision_requested">>, "replan")
  /\ UNCHANGED <<loopVars, workerFailed, mem, wrote>>

Replan(r) ==
  /\ Continues(r, "replan")
  /\ Commit(r, [mem[r] EXCEPT !.status = "planning"], <<"planner_started">>, "plan", "fail")
  /\ UNCHANGED <<loopVars, localVars, wrote>>

SkipRevision(r) ==
  /\ Continues(r, "settle")
  /\ WantsRevision(r)
  /\ WroteData(r)
  /\ Proceed(r, <<"revision_skipped">>, "propose")
  /\ UNCHANGED <<loopVars, localVars, mem, wrote>>

Propose(r) ==
  /\ \/ Continues(r, "propose")
     \/ Continues(r, "settle") /\ ~WantsRevision(r)
  /\ Commit(r, [mem[r] EXCEPT !.status = "awaiting_human",
                              !.proposed = mem[r].result.actions],
            <<"awaiting_human">>, "idle", "fail")
  /\ UNCHANGED <<loopVars, localVars, wrote>>

\* A stage raises (an outage, a timeout, an unusable reply, a prompt over its
\* budget) or wait_for's run timeout cancels it.
StageAborts(r) ==
  /\ \E label \in AwaitLabels : Resumes(r, label)
  /\ pc' = [pc EXCEPT ![r] = "fail"]
  /\ UNCHANGED <<loopVars, localVars, queue, mem, disk, log, wrote, faulted>>

\* Mutant: changes the object and logs the failure, but saves nothing.
Fail_Unsaved(r) ==
  /\ Continues(r, "fail")
  /\ mem' = [mem EXCEPT ![r].status = "failed"]
  /\ Proceed(r, <<"run_failed">>, "idle")
  /\ UNCHANGED <<loopVars, localVars, wrote>>

\* _fail
Fail(r) ==
  /\ Continues(r, "fail")
  /\ Commit(r, [mem[r] EXCEPT !.status = "failed"], <<"run_failed">>, "idle", "idle")
  /\ UNCHANGED <<loopVars, localVars, wrote>>

\* Mutant: the slot is freed at the end of the pipeline, not when the task ends.
FreeSlot_OnSuccess(r) ==
  /\ Resumes(r, "idle")
  /\ r \in tasks
  /\ disk[r].status /= "failed"
  /\ tasks' = tasks \ {r}
  /\ UNCHANGED <<process, localVars, pc, queue, mem, disk, log, wrote, faulted>>

\* The task's done callback frees its slot.
FreeSlot(r) ==
  /\ Resumes(r, "idle")
  /\ r \in tasks
  /\ tasks' = tasks \ {r}
  /\ UNCHANGED <<process, localVars, pc, queue, mem, disk, log, wrote, faulted>>

-----------------------------------------------------------------------------
\* Mutant: partial approval takes any changes the client sends.
MayApprove_AnyPart(row, d, acts) ==
  \/ d = "approve" /\ acts = row.proposed
  \/ d = "partial" /\ acts /= {}
  \/ d = "correct"
  \/ d = "reject" /\ acts = {}

\* POST /runs/{run_id}/review: what each decision may sign off.
MayApprove(row, d, acts) ==
  \/ d = "approve" /\ acts = row.proposed
  \/ d = "partial" /\ acts \subseteq row.proposed /\ acts /= {}
  \/ d = "correct"
  \/ d = "reject" /\ acts = {}

\* Mutant: a run that was rejected may be decided again.
Decide_Again(r, d, acts) ==
  /\ Resumes(r, "idle")
  /\ disk[r].status \in {"awaiting_human", "rejected"}
  /\ MayApprove(disk[r], d, acts)
  /\ LET status == IF d = "reject" THEN "rejected" ELSE "completed"
         final == IF d = "reject" THEN "run_rejected" ELSE "run_completed"
     IN  Commit(r, [disk[r] EXCEPT !.status = status, !.decision = d, !.approved = acts],
                <<"human_decision", final>>, "idle", "idle")
  /\ UNCHANGED <<loopVars, localVars, wrote>>

Decide(r, d, acts) ==
  /\ Resumes(r, "idle")
  /\ disk[r].status = "awaiting_human"
  /\ MayApprove(disk[r], d, acts)
  /\ LET status == IF d = "reject" THEN "rejected" ELSE "completed"
         final == IF d = "reject" THEN "run_rejected" ELSE "run_completed"
     IN  Commit(r, [disk[r] EXCEPT !.status = status, !.decision = d, !.approved = acts],
                <<"human_decision", final>>, "idle", "idle")
  /\ UNCHANGED <<loopVars, localVars, wrote>>

-----------------------------------------------------------------------------
\* The process stops at any point: tasks are cancelled or lost.  What was
\* committed stays.
Crash ==
  /\ process /= "down"
  /\ process' = "down"
  /\ tasks' = {}
  /\ pc' = [r \in Runs |-> "idle"]
  /\ queue' = [r \in Runs |-> <<>>]
  /\ mem' = disk
  /\ faulted' = {}
  /\ UNCHANGED <<localVars, disk, log, wrote>>

Boot ==
  /\ process = "down"
  /\ process' = "booting"
  /\ UNCHANGED <<tasks, localVars, pc, queue, mem, disk, log, wrote, faulted>>

\* fail_interrupted; a write that raises here aborts the start-up (Crash).
FailInterrupted(r) ==
  /\ process = "booting"
  /\ LoopFree
  /\ disk[r].status \in ActiveStatuses
  /\ disk' = [disk EXCEPT ![r].status = "failed"]
  /\ mem' = disk'
  /\ queue' = [queue EXCEPT ![r] = <<"run_failed">>]
  /\ UNCHANGED <<loopVars, localVars, pc, log, wrote, faulted>>

\* Mutant: the server starts without repairing interrupted runs.
Serve_Unrepaired ==
  /\ process = "booting"
  /\ process' = "up"
  /\ UNCHANGED <<tasks, localVars, pc, queue, mem, disk, log, wrote, faulted>>

Serve ==
  /\ process = "booting"
  /\ LoopFree
  /\ \A r \in Runs : disk[r].status \notin ActiveStatuses
  /\ process' = "up"
  /\ UNCHANGED <<tasks, localVars, pc, queue, mem, disk, log, wrote, faulted>>

-----------------------------------------------------------------------------
TaskStep(r) ==
  \/ LogEvent(r) \/ EventFault(r)
  \/ CreateTask(r) \/ BeginPipeline(r) \/ PlanReturns(r) \/ Dispatch(r)
  \/ \E parsed, passed \in BOOLEAN, acts \in SUBSET Actions :
        WorkReturns(r, parsed, acts, passed)
  \/ WorkFails(r)
  \/ \E verdict \in Verdicts : ReviewReturns(r, verdict)
  \/ Revise(r) \/ Replan(r) \/ SkipRevision(r) \/ Propose(r)
  \/ StageAborts(r) \/ Fail(r) \/ FreeSlot(r)

ClientStep(r) ==
  \/ Start(r)
  \/ \E d \in Decisions, acts \in SUBSET Actions : Decide(r, d, acts)

ProcessStep == Crash \/ Boot \/ Serve \/ \E r \in Runs : FailInterrupted(r)

Next == \/ \E r \in Runs : TaskStep(r) \/ ClientStep(r) \/ ToolWrites(r)
        \/ ProcessStep

Spec == Init /\ [][Next]_vars

\* The loop runs what is ready, and the run timeout ends a stage that does not.
FairSpec == Spec /\ \A r \in Runs : WF_vars(TaskStep(r))

-----------------------------------------------------------------------------
\* The values every variable takes.
TypeOK == /\ process \in {"down", "booting", "up"}
          /\ tasks \subseteq Runs
          /\ pc \in [Runs -> Labels]
          /\ queue \in [Runs -> Seq(Events)]
          /\ mem \in [Runs -> Row]
          /\ attempt \in [Runs -> Attempts \cup {0}]
          /\ workerFailed \in [Runs -> BOOLEAN]
          /\ disk \in [Runs -> Row]
          /\ log \in [Runs -> Seq(Events)]
          /\ wrote \in [Runs -> [ran : SUBSET Attempts, untold : SUBSET Attempts]]
          /\ faulted \subseteq Runs

\* At most max_active_runs workflows execute at once, although start checks
\* the limit before it inserts the run and creates its task.
CapacityRespected == Cardinality(tasks) <= MaxActiveRuns

\* While the server is up, a run the store shows as under way is executing (or
\* about to): only a failed store write can leave one behind, and only until
\* the restart that fail_interrupted repairs it in.
ActiveRunsAreOwned ==
  process = "up" =>
    \A r \in Runs : disk[r].status \in ActiveStatuses =>
      r \in tasks \/ pc[r] = "create" \/ r \in faulted

\* "Never repeat an attempt that may have changed data" (workflow.py:297): the
\* attempt in which a write tool ran is the run's last one, unless its call failed
\* with an answer without a trace.
WritesEndTheRun == \A r \in Runs : \A a \in wrote[r].ran \ wrote[r].untold : attempt[r] <= a

\* What a human is asked to sign off is one attempt's: result, checks and review
\* all come from the last attempt, and an approving review means that attempt's
\* blocking checks passed (_apply_check_floor).
ReviewCoversLastAttempt ==
  \A r \in Runs : disk[r].status \in {"awaiting_human", "completed", "rejected"} =>
    /\ disk[r].attempts > 0
    /\ disk[r].result.of = disk[r].attempts
    /\ disk[r].checks.of = disk[r].attempts
    /\ disk[r].review.of = disk[r].attempts
    /\ disk[r].review.verdict = "approve" => disk[r].checks.passed

\* The audit log never reports an outcome the run table does not hold.
LogNeverAheadOfRow ==
  \A r \in Runs : \A i \in DOMAIN log[r] :
    /\ log[r][i] = "run_failed" => disk[r].status = "failed"
    /\ log[r][i] = "awaiting_human" =>
         disk[r].status \in {"awaiting_human", "completed", "rejected"}
    /\ log[r][i] = "run_completed" => disk[r].status = "completed"
    /\ log[r][i] = "run_rejected" => disk[r].status = "rejected"

\* A closed run stays as it was closed: no late stage, timeout, second decision
\* or restart rewrites it.
FinalRowsStay ==
  [][\A r \in Runs : disk[r].status \in FinalStatuses => disk'[r] = disk[r]]_vars

\* "so a stuck model cannot hold a run open forever" (config.py:101): with a
\* store that works, a run under way fails or reaches the human, unless the
\* process stops; and whatever ended the run, its slot is given back.
RunsSettle ==
  \A r \in Runs :
    /\ (process = "up" /\ disk[r].status \in ActiveStatuses)
         ~> (disk[r].status \notin ActiveStatuses \/ process /= "up")
    /\ r \in tasks ~> r \notin tasks

-----------------------------------------------------------------------------
\* A run is visible to clients once the loop is free again, so between saving
\* awaiting_human and the end of that stretch of code it still counts as active.
Presenting(r) == pc[r] = "fail" \/ queue[r] = <<"awaiting_human">>

PhaseOf(r) ==
  CASE disk[r].status \in ActiveStatuses -> "active"
    [] disk[r].status = "awaiting_human" -> IF Presenting(r) THEN "active" ELSE "awaiting"
    [] OTHER -> disk[r].status

ShownOf(r) == IF PhaseOf(r) \in {"awaiting", "completed", "rejected"}
              THEN disk[r].proposed ELSE {}

Lifecycle == INSTANCE RunLifecycle WITH
               phase <- [r \in Runs |-> PhaseOf(r)],
               shown <- [r \in Runs |-> ShownOf(r)],
               decision <- [r \in Runs |-> disk[r].decision],
               approved <- [r \in Runs |-> disk[r].approved]

\* The engine, its store and its restarts give clients the run lifecycle.
ImplementsLifecycle == Lifecycle!Spec
=============================================================================
