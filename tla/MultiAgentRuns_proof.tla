------------------------ MODULE MultiAgentRuns_proof ------------------------
(***************************************************************************)
(* TLAPS proofs about MultiAgentRuns, for any set of runs and any limits,  *)
(* and about the audit of its exported runs (RunAudit).                    *)
(***************************************************************************)
EXTENDS RunAudit, FiniteSetTheorems, TLAPS

-----------------------------------------------------------------------------
(* Run records: every update the actions make yields a record.             *)

LEMMA NewRowType == NewRow \in Row
BY LimitsAssumption DEF NewRow, Row, Statuses, ActiveStatuses

LEMMA StatusType ==
  ASSUME NEW row \in Row, NEW s \in Statuses
  PROVE  [row EXCEPT !.status = s] \in Row
BY DEF Row

LEMMA NoRowType == NoRow \in Row
BY NewRowType, StatusType DEF NoRow, Statuses

LEMMA AttemptsType ==
  ASSUME NEW row \in Row, NEW a \in Attempts \cup {0}
  PROVE  [row EXCEPT !.attempts = a] \in Row
BY DEF Row

LEMMA WorkedType ==
  ASSUME NEW row \in Row, NEW s \in Statuses, NEW a \in Attempts,
         NEW parsed \in BOOLEAN, NEW acts \in SUBSET Actions, NEW passed \in BOOLEAN
  PROVE  [row EXCEPT !.status = s,
                     !.result = [of |-> a, parsed |-> parsed, actions |-> acts],
                     !.checks = [of |-> a, passed |-> passed]] \in Row
BY DEF Row

LEMMA ReviewedType ==
  ASSUME NEW row \in Row, NEW a \in Attempts, NEW v \in Verdicts
  PROVE  [row EXCEPT !.review = [of |-> a, verdict |-> v]] \in Row
BY DEF Row

LEMMA ProposedType ==
  ASSUME NEW row \in Row, NEW s \in Statuses
  PROVE  [row EXCEPT !.status = s, !.proposed = row.result.actions] \in Row
BY DEF Row

LEMMA DecidedType ==
  ASSUME NEW row \in Row, NEW s \in Statuses, NEW d \in Decisions,
     NEW acts \in SUBSET Actions
  PROVE  [row EXCEPT !.status = s, !.decision = d, !.approved = acts] \in Row
BY DEF Row

LEMMA StatusNames ==
  /\ {"none", "awaiting_human", "planning", "working", "reviewing",
      "completed", "rejected", "failed"} \subseteq Statuses
BY DEF Statuses, ActiveStatuses, FinalStatuses

-----------------------------------------------------------------------------
(* Type correctness.  A label inside the pipeline implies that an attempt  *)
(* has begun, which is what bounds the attempts stored and written.        *)

AttemptBegun == \A r \in Runs : pc[r] \in PipelineLabels => attempt[r] \in Attempts

TypeInv == TypeOK /\ AttemptBegun

LEMMA FirstAttempt == 1 \in Attempts
BY LimitsAssumption DEF Attempts

LEMMA TypeInit == Init => TypeInv
BY NoRowType
   DEF Init, TypeInv, TypeOK, AttemptBegun, Labels, BusyLabels, AwaitLabels,
      PipelineLabels

\* A step that saves a record keeps the types, whatever it saves.
LEMMA CommitTypes ==
  ASSUME TypeInv, NEW r \in Runs, NEW row \in Row, NEW events \in Seq(Events),
         NEW next \in Labels, NEW onFault \in Labels,
         Commit(r, row, events, next, onFault),
         next \in PipelineLabels => attempt[r] \in Attempts,
         onFault \notin PipelineLabels,
         workerFailed' \in [Runs -> BOOLEAN],
         wrote' \in [Runs -> [ran : SUBSET Attempts, untold : SUBSET Attempts]],
         UNCHANGED <<process, tasks, attempt>>
  PROVE  TypeInv'
<1>1. mem' \in [Runs -> Row] /\ disk' \in [Runs -> Row]
  BY DEF TypeInv, TypeOK, Commit
<1>4. queue' \in [Runs -> Seq(Events)]
  BY DEF TypeInv, TypeOK, Commit
<1>5. faulted' \subseteq Runs
  BY DEF TypeInv, TypeOK, Commit
<1>2. pc' \in [Runs -> Labels] /\ AttemptBegun'
  BY DEF TypeInv, TypeOK, AttemptBegun, Commit
<1>3. log' \in [Runs -> Seq(Events)] /\ process' \in {"down", "booting", "up"}
      /\ tasks' \subseteq Runs /\ attempt' \in [Runs -> Attempts \cup {0}]
  BY DEF TypeInv, TypeOK, Commit
<1> QED
  BY <1>1, <1>2, <1>3, <1>4, <1>5 DEF TypeInv, TypeOK

LEMMA LabelNames ==
  /\ {"dispatch", "settle", "replan", "propose", "plan", "work",
     "review"} = PipelineLabels
  /\ PipelineLabels \cup {"idle", "scheduled", "create", "fail"} = Labels
  /\ {"idle", "scheduled", "create", "fail"} \cap PipelineLabels = {}
BY DEF Labels, PipelineLabels, BusyLabels, AwaitLabels

LEMMA TypeNext == TypeInv /\ [Next]_vars => TypeInv'
<1> SUFFICES ASSUME TypeInv, [Next]_vars PROVE TypeInv'
  OBVIOUS
<1> USE LabelNames DEF loopVars, localVars
<1>1. CASE UNCHANGED vars
  BY <1>1 DEF vars, TypeInv, TypeOK, AttemptBegun
<1>2. ASSUME NEW r \in Runs, TaskStep(r) PROVE TypeInv'
  <2>1. CASE LogEvent(r)
    BY <2>1 DEF LogEvent, TypeInv, TypeOK, AttemptBegun
  <2>2. CASE EventFault(r)
    <3>1. /\ pc'[r] \in {"fail", "idle"}
          /\ pc' \in [Runs -> Labels]
          /\ \A q \in Runs \ {r} : pc'[q] = pc[q]
      BY <2>2 DEF EventFault, TypeInv, TypeOK
    <3>2. queue' \in [Runs -> Seq(Events)]
      BY <2>2 DEF EventFault, TypeInv, TypeOK
    <3> QED
      BY <2>2, <3>1, <3>2 DEF EventFault, TypeInv, TypeOK, AttemptBegun
  <2>3. CASE CreateTask(r)
    BY <2>3 DEF CreateTask, TypeInv, TypeOK, AttemptBegun
  <2>4. CASE BeginPipeline(r)
    <3>1. <<"planner_started">> \in Seq(Events)
      BY DEF Events
    <3> QED
      BY <2>4, <3>1, FirstAttempt
         DEF BeginPipeline, Proceed, TypeInv, TypeOK, AttemptBegun
  <2>5. CASE PlanReturns(r)
    <3>1. /\ [mem[r] EXCEPT !.status = "working"] \in Row
          /\ <<"planner_completed", "worker_started">> \in Seq(Events)
      BY StatusType, StatusNames DEF TypeInv, TypeOK, Events
    <3>2. attempt[r] \in Attempts
      BY <2>5 DEF PlanReturns, Resumes, Continues, TypeInv, AttemptBegun
    <3> QED
      BY <2>5, <3>1, <3>2, CommitTypes DEF PlanReturns, TypeInv, TypeOK
  <2>6. CASE Dispatch(r)
    <3>1. /\ [mem[r] EXCEPT !.attempts = attempt[r]] \in Row
          /\ attempt[r] \in Attempts
      BY <2>6, AttemptsType DEF Dispatch, Continues, TypeInv, TypeOK, AttemptBegun
    <3> QED
      BY <2>6, <3>1 DEF Dispatch, Proceed, TypeInv, TypeOK, AttemptBegun
  <2>7. ASSUME NEW parsed \in BOOLEAN, NEW passed \in BOOLEAN,
     NEW acts \in SUBSET Actions,
               NEW event \in {"worker_completed", "worker_failed"},
               pc[r] = "work", WorkEnds(r, parsed, acts, passed, event),
               workerFailed' \in [Runs -> BOOLEAN],
               wrote' \in [Runs -> [ran : SUBSET Attempts, untold : SUBSET Attempts]],
               UNCHANGED <<loopVars, attempt>>
        PROVE  TypeInv'
    <3>1. attempt[r] \in Attempts
      BY <2>7 DEF TypeInv, AttemptBegun
    <3>2. /\ [mem[r] EXCEPT !.status = "reviewing",
                            !.result = [of |-> attempt[r], parsed |-> parsed,
                               actions |-> acts],
                            !.checks = [of |-> attempt[r], passed |-> passed]] \in Row
      BY <3>1, WorkedType, StatusNames DEF TypeInv, TypeOK
    <3>3. <<event, "checks_completed", "reviewer_started">> \in Seq(Events)
      BY <2>7 DEF Events
    <3> QED
      BY <2>7, <3>1, <3>2, <3>3, CommitTypes DEF WorkEnds
  <2>8. ASSUME NEW parsed \in BOOLEAN, NEW passed \in BOOLEAN,
     NEW acts \in SUBSET Actions,
               WorkReturns(r, parsed, acts, passed)
        PROVE  TypeInv'
    BY <2>8, <2>7 DEF WorkReturns, Resumes, Continues, TypeInv, TypeOK
  <2>9. CASE WorkFails(r)
    <3>1. wrote[r] \in [ran : SUBSET Attempts, untold : SUBSET Attempts]
      BY DEF TypeInv, TypeOK
    <3>2. wrote' \in [Runs -> [ran : SUBSET Attempts, untold : SUBSET Attempts]]
      BY <2>9, <3>1 DEF WorkFails, TypeInv, TypeOK
    <3>3. pc[r] = "work" /\ WorkEnds(r, FALSE, {}, FALSE, "worker_failed")
      BY <2>9 DEF WorkFails, Resumes, Continues
    <3>4. workerFailed' \in [Runs -> BOOLEAN] /\ UNCHANGED <<loopVars, attempt>>
      BY <2>9 DEF WorkFails, TypeInv, TypeOK
    <3> QED
      BY <2>7, <3>2, <3>3, <3>4
  <2>10. ASSUME NEW verdict \in Verdicts, ReviewReturns(r, verdict) PROVE TypeInv'
    <3>1. CheckFloor(verdict, mem[r].checks.passed) \in Verdicts
      BY DEF CheckFloor, Verdicts
    <3>2. attempt[r] \in Attempts
      BY <2>10 DEF ReviewReturns, Resumes, Continues, TypeInv, AttemptBegun
    <3>3. /\ [mem[r] EXCEPT !.review =
                [of |-> attempt[r], verdict |-> CheckFloor(verdict,
                   mem[r].checks.passed)]] \in Row
          /\ <<"review_completed">> \in Seq(Events)
      BY <3>1, <3>2, ReviewedType DEF TypeInv, TypeOK, Events
    <3> QED
      BY <2>10, <3>2, <3>3, CommitTypes DEF ReviewReturns, TypeInv, TypeOK
  <2>11. CASE Revise(r)
    <3>1. attempt[r] + 1 \in Attempts
      BY <2>11, LimitsAssumption
         DEF Revise, Continues, WantsRevision, TypeInv, AttemptBegun, Attempts
    <3>2. <<"revision_requested">> \in Seq(Events)
      BY DEF Events
    <3> QED
      BY <2>11, <3>1, <3>2 DEF Revise, Proceed, TypeInv, TypeOK, AttemptBegun
  <2>12. CASE Replan(r)
    <3>1. /\ [mem[r] EXCEPT !.status = "planning"] \in Row
          /\ <<"planner_started">> \in Seq(Events)
      BY StatusType, StatusNames DEF TypeInv, TypeOK, Events
    <3>2. attempt[r] \in Attempts
      BY <2>12 DEF Replan, Continues, TypeInv, AttemptBegun
    <3> QED
      BY <2>12, <3>1, <3>2, CommitTypes DEF Replan, TypeInv, TypeOK
  <2>13. CASE SkipRevision(r)
    <3>1. <<"revision_skipped">> \in Seq(Events)
      BY DEF Events
    <3> QED
      BY <2>13, <3>1 DEF SkipRevision, Continues, Proceed, TypeInv, TypeOK, AttemptBegun
  <2>14. CASE Propose(r)
    <3>1. [mem[r] EXCEPT !.status = "awaiting_human",
                         !.proposed = mem[r].result.actions] \in Row
      BY ProposedType, StatusNames DEF TypeInv, TypeOK
    <3>2. <<"awaiting_human">> \in Seq(Events)
      BY DEF Events
    <3> QED
      BY <2>14, <3>1, <3>2, CommitTypes DEF Propose, TypeInv, TypeOK
  <2>15. CASE StageAborts(r)
    BY <2>15 DEF StageAborts, TypeInv, TypeOK, AttemptBegun
  <2>16. CASE Fail(r)
    <3>1. /\ [mem[r] EXCEPT !.status = "failed"] \in Row
          /\ <<"run_failed">> \in Seq(Events)
      BY StatusType, StatusNames DEF TypeInv, TypeOK, Events
    <3> QED
      BY <2>16, <3>1, CommitTypes DEF Fail, TypeInv, TypeOK
  <2>17. CASE FreeSlot(r)
    BY <2>17 DEF FreeSlot, TypeInv, TypeOK, AttemptBegun
  <2> QED
    BY <1>2, <2>1, <2>2, <2>3, <2>4, <2>5, <2>6, <2>8, <2>9, <2>10, <2>11, <2>12, <2>13,
       <2>14, <2>15, <2>16, <2>17 DEF TaskStep
<1>3. ASSUME NEW r \in Runs, Start(r) PROVE TypeInv'
  <2>1. <<"run_created">> \in Seq(Events)
    BY DEF Events
  <2> QED
    BY <1>3, <2>1, NewRowType, CommitTypes DEF Start, TypeInv, TypeOK
<1>4. ASSUME NEW r \in Runs, NEW d \in Decisions, NEW acts \in SUBSET Actions,
   Decide(r, d, acts)
      PROVE  TypeInv'
  <2> DEFINE status == IF d = "reject" THEN "rejected" ELSE "completed"
             final == IF d = "reject" THEN "run_rejected" ELSE "run_completed"
             row == [disk[r] EXCEPT !.status = status, !.decision = d, !.approved = acts]
  <2>1. row \in Row
    BY DecidedType, StatusNames DEF TypeInv, TypeOK
  <2>2. <<"human_decision", final>> \in Seq(Events)
    BY DEF Events
  <2>3. Commit(r, row, <<"human_decision", final>>, "idle", "idle")
    BY <1>4 DEF Decide
  <2> HIDE DEF row, final
  <2> QED
    BY <1>4, <2>1, <2>2, <2>3, CommitTypes DEF Decide, TypeInv, TypeOK
<1>5. ASSUME NEW r \in Runs, ToolWrites(r) PROVE TypeInv'
  BY <1>5 DEF ToolWrites, Continues, TypeInv, TypeOK, AttemptBegun
<1>6. CASE Crash
  <2>1. <<>> \in Seq(Events)
    OBVIOUS
  <2> QED
    BY <1>6, <2>1 DEF Crash, TypeInv, TypeOK, AttemptBegun
<1>7. CASE Boot \/ Serve
  BY <1>7 DEF Boot, Serve, TypeInv, TypeOK, AttemptBegun
<1>8. ASSUME NEW r \in Runs, FailInterrupted(r) PROVE TypeInv'
  <2>1. /\ [disk[r] EXCEPT !.status = "failed"] \in Row
        /\ <<"run_failed">> \in Seq(Events)
    BY StatusType, StatusNames DEF TypeInv, TypeOK, Events
  <2> QED
    BY <1>8, <2>1 DEF FailInterrupted, TypeInv, TypeOK, AttemptBegun
<1> QED
  BY <1>1, <1>2, <1>3, <1>4, <1>5, <1>6, <1>7, <1>8 DEF Next, ClientStep, ProcessStep

\* Every variable keeps its type: in particular the stored attempt number never
\* passes max_revisions + 1, whatever the Reviewer and the checks ask for.
THEOREM TypeCorrect == Spec => []TypeOK
<1>1. TypeInv => TypeOK
  BY DEF TypeInv
<1> QED
  BY <1>1, TypeInit, TypeNext, PTL DEF Spec

-----------------------------------------------------------------------------
(* What a step of one run can touch.  Everything but the process's own     *)
(* steps belongs to one run, and leaves the other runs' state alone.       *)

StepOf(r) == TaskStep(r) \/ ClientStep(r) \/ ToolWrites(r) \/ FailInterrupted(r)
LEMMA Locality ==
  ASSUME TypeInv, NEW r \in Runs, StepOf(r)
  PROVE  /\ \A q \in Runs \ {r} :
              /\ pc'[q] = pc[q] /\ queue'[q] = queue[q]
              /\ attempt'[q] = attempt[q] /\ disk'[q] = disk[q]
              /\ log'[q] = log[q] /\ wrote'[q] = wrote[q]
              /\ process = "up" => mem'[q] = mem[q]
         /\ \/ pc'[r] = pc[r] /\ queue'[r] = queue[r]
            \/ Busy(r)
            \/ LoopFree
<1> USE DEF loopVars, localVars, TypeInv, TypeOK
<1>1. CASE LogEvent(r) \/ EventFault(r) \/ CreateTask(r) \/ BeginPipeline(r)
  BY <1>1 DEF LogEvent, EventFault, CreateTask, BeginPipeline, Proceed, Resumes,
     Continues, Busy, BusyLabels
<1>2. CASE PlanReturns(r) \/ Dispatch(r) \/ WorkFails(r)
  BY <1>2 DEF PlanReturns, Dispatch, WorkFails, WorkEnds, Commit, Proceed, Resumes,
     Continues, Busy, BusyLabels
<1>3. CASE Revise(r) \/ Replan(r) \/ SkipRevision(r)
  BY <1>3 DEF Revise, Replan, SkipRevision, Commit, Proceed, Resumes, Continues, Busy,
     BusyLabels
<1>4. CASE Propose(r) \/ StageAborts(r) \/ Fail(r) \/ FreeSlot(r)
  BY <1>4 DEF Propose, StageAborts, Fail, FreeSlot, Commit, Proceed, Resumes,
     Continues, Busy, BusyLabels
<1>5. CASE \E parsed, passed \in BOOLEAN, acts \in SUBSET Actions :
        WorkReturns(r, parsed, acts, passed)
  BY <1>5 DEF WorkReturns, WorkEnds, Commit, Proceed, Resumes, Continues, Busy, BusyLabels
<1>6. CASE  \E verdict \in Verdicts : ReviewReturns(r, verdict)
  BY <1>6 DEF ReviewReturns, Commit, Proceed, Resumes, Continues, Busy, BusyLabels
<1>7. CASE Start(r) \/ ToolWrites(r)
  BY <1>7 DEF Start, ToolWrites, Commit, Proceed, Resumes, Continues, Busy, BusyLabels
<1>8. CASE \E d \in Decisions, acts \in SUBSET Actions : Decide(r, d, acts)
  BY <1>8 DEF Decide, Commit, Proceed, Resumes, Continues, Busy, BusyLabels
<1>9. CASE FailInterrupted(r)
  BY <1>9 DEF FailInterrupted
<1> QED
  BY <1>1, <1>2, <1>3, <1>4, <1>5, <1>6, <1>7, <1>8, <1>9 DEF StepOf, TaskStep, ClientStep

\* Before the server is up, only fail_interrupted and its events write.
LEMMA StepBeforeUp ==
  ASSUME NEW r \in Runs, StepOf(r), process /= "up"
  PROVE  LogEvent(r) \/ FailInterrupted(r)
BY DEF StepOf, TaskStep, ClientStep, EventFault, CreateTask, BeginPipeline,
   PlanReturns, Dispatch,
       WorkReturns, WorkFails, ReviewReturns, Revise, Replan, SkipRevision, Propose,
          StageAborts,
       Fail, FreeSlot, Start, Decide, ToolWrites, Resumes, Continues

\* Each part of the state that few actions touch, with those actions.
LEMMA Kept ==
  ASSUME TypeInv, NEW r \in Runs, StepOf(r)
  PROVE  /\ process' = process
         /\ CreateTask(r) \/ FreeSlot(r) \/ tasks' = tasks
         /\ BeginPipeline(r) \/ Revise(r) \/ attempt' = attempt
         /\ ToolWrites(r) \/ WorkFails(r) \/ wrote' = wrote
         /\ \/ Start(r) \/ CreateTask(r)
            \/ \A q \in Runs : pc'[q] \in {"create", "scheduled"} => pc[q] = pc'[q]
<1> USE DEF loopVars, localVars, TypeInv, TypeOK
<1>1. CASE LogEvent(r) \/ EventFault(r) \/ BeginPipeline(r) \/ StageAborts(r)
  BY <1>1 DEF LogEvent, EventFault, BeginPipeline, StageAborts, Proceed
<1>2. CASE PlanReturns(r) \/ Dispatch(r) \/ WorkFails(r)
  BY <1>2 DEF PlanReturns, Dispatch, WorkFails, WorkEnds, Commit, Proceed
<1>3. CASE Revise(r) \/ Replan(r) \/ SkipRevision(r) \/ Propose(r) \/ Fail(r)
  BY <1>3 DEF Revise, Replan, SkipRevision, Propose, Fail, Commit, Proceed
<1>4. CASE \E parsed, passed \in BOOLEAN, acts \in SUBSET Actions :
        WorkReturns(r, parsed, acts, passed)
  BY <1>4 DEF WorkReturns, WorkEnds, Commit
<1>5. CASE \E verdict \in Verdicts : ReviewReturns(r, verdict)
  BY <1>5 DEF ReviewReturns, Commit
<1>6. CASE \E d \in Decisions, acts \in SUBSET Actions : Decide(r, d, acts)
  BY <1>6 DEF Decide, Commit
<1>7. CASE ToolWrites(r) \/ FailInterrupted(r) \/ Start(r) \/ CreateTask(r) \/ FreeSlot(r)
  BY <1>7 DEF ToolWrites, FailInterrupted, Start, CreateTask, FreeSlot, Commit
<1> QED
  BY <1>1, <1>2, <1>3, <1>4, <1>5, <1>6, <1>7 DEF StepOf, TaskStep, ClientStep

LEMMA NextCases ==
  ASSUME [Next]_vars
  PROVE  \/ UNCHANGED vars
         \/ Crash \/ Boot \/ Serve
         \/ \E r \in Runs : StepOf(r)
BY DEF Next, ProcessStep, StepOf

-----------------------------------------------------------------------------
(* Capacity.  Start checks the limit and CreateTask takes the slot, two    *)
(* steps of one stretch of code: the loop stays busy between them, so no   *)
(* other run starts in between.                                            *)

LoopInv == \A q, r \in Runs : Busy(q) /\ Busy(r) => q = r

LEMMA LoopNext == TypeInv /\ LoopInv /\ [Next]_vars => LoopInv'
<1> SUFFICES ASSUME TypeInv, LoopInv, [Next]_vars PROVE LoopInv'
  OBVIOUS
<1>1. CASE UNCHANGED vars
  BY <1>1 DEF vars, LoopInv, Busy
<1>2. CASE Crash \/ Boot \/ Serve
  BY <1>2 DEF Crash, Boot, Serve, LoopInv, Busy, BusyLabels
<1>3. ASSUME NEW r \in Runs, StepOf(r) PROVE LoopInv'
  BY <1>3, Locality DEF LoopInv, LoopFree, Busy
<1> QED
  BY <1>1, <1>2, <1>3, NextCases

SlotInv == /\ IsFiniteSet(tasks)
           /\ CapacityRespected
           /\ \A r \in Runs : pc[r] = "create" => Cardinality(tasks) < MaxActiveRuns

\* Adding a run to the slots raises their number by one at most.
LEMMA SlotTaken ==
  ASSUME NEW S, IsFiniteSet(S), NEW e
  PROVE  /\ Cardinality(S) \in Nat
         /\ IsFiniteSet(S \cup {e})
         /\ Cardinality(S \cup {e}) \in Nat
         /\ Cardinality(S \cup {e}) <= Cardinality(S) + 1
<1>1. Cardinality(S) \in Nat
  BY FS_CardinalityType
<1>2. CASE e \in S
  <2>1. S \cup {e} = S
    BY <1>2
  <2>2. IsFiniteSet(S \cup {e}) /\ Cardinality(S \cup {e}) = Cardinality(S)
    BY <2>1, Zenon
  <2> QED
    BY <1>1, <2>2
<1>3. CASE e \notin S
  BY <1>1, <1>3, FS_AddElement
<1> QED
  BY <1>2, <1>3

\* Removing one lowers it.
LEMMA SlotFreed ==
  ASSUME NEW S, IsFiniteSet(S), NEW e \in S
  PROVE  /\ IsFiniteSet(S \ {e})
         /\ Cardinality(S \ {e}) \in Nat
         /\ Cardinality(S \ {e}) <= Cardinality(S)
<1>1. /\ IsFiniteSet(S \ {e})
      /\ Cardinality(S \ {e}) = Cardinality(S) - 1
  BY FS_RemoveElement
<1>2. Cardinality(S \ {e}) \in Nat /\ Cardinality(S) \in Nat
  BY <1>1, FS_CardinalityType
<1> QED
  BY <1>1, <1>2

LEMMA SlotNext == TypeInv /\ LoopInv /\ SlotInv /\ [Next]_vars => SlotInv'
<1> SUFFICES ASSUME TypeInv, LoopInv, SlotInv, [Next]_vars PROVE SlotInv'
  OBVIOUS
<1> USE LimitsAssumption DEF loopVars, SlotInv, CapacityRespected
<1>0. Cardinality(tasks) \in Nat
  BY FS_CardinalityType
<1>1. CASE UNCHANGED vars \/ Boot \/ Serve
  BY <1>1 DEF vars, Boot, Serve
<1>2. CASE Crash
  BY <1>2, FS_EmptySet DEF Crash
<1>3. ASSUME NEW r \in Runs, CreateTask(r) PROVE SlotInv'
  <2>1. tasks' = tasks \cup {r} /\ Cardinality(tasks) < MaxActiveRuns
    BY <1>3 DEF CreateTask, Continues
  <2>2. /\ IsFiniteSet(tasks')
        /\ Cardinality(tasks') \in Nat
        /\ Cardinality(tasks') <= Cardinality(tasks) + 1
    BY <2>1, SlotTaken
  <2>3. \A q \in Runs : pc'[q] /= "create"
    BY <1>3 DEF CreateTask, Continues, LoopInv, Busy, BusyLabels, TypeInv, TypeOK
  <2> QED
    BY <2>1, <2>2, <2>3, <1>0
<1>4. ASSUME NEW r \in Runs, FreeSlot(r) PROVE SlotInv'
  <2>1. tasks' = tasks \ {r} /\ r \in tasks /\ pc' = pc
    BY <1>4 DEF FreeSlot
  <2>2. /\ IsFiniteSet(tasks')
        /\ Cardinality(tasks') \in Nat
        /\ Cardinality(tasks') <= Cardinality(tasks)
    BY <2>1, SlotFreed
  <2> QED
    BY <2>1, <2>2, <1>0
<1>5. ASSUME NEW r \in Runs, Start(r) PROVE SlotInv'
  BY <1>5 DEF Start
<1>6. ASSUME NEW r \in Runs, StepOf(r), ~CreateTask(r), ~FreeSlot(r),
   ~Start(r) PROVE SlotInv'
  <2>1. tasks' = tasks /\ \A q \in Runs : pc'[q] = "create" => pc[q] = "create"
    BY <1>6, Kept
  <2> QED
    BY <2>1
<1> QED
  BY <1>1, <1>2, <1>3, <1>4, <1>5, <1>6, NextCases

\* At most max_active_runs workflows hold a slot, for any number of runs that
\* clients start concurrently, and across restarts and store faults.
THEOREM CapacityIsRespected == Spec => []CapacityRespected
<1>1. Init => LoopInv
  BY DEF Init, LoopInv, Busy, BusyLabels
<1>2. Init => SlotInv
  BY FS_EmptySet, LimitsAssumption DEF Init, SlotInv, CapacityRespected
<1>3. SlotInv => CapacityRespected
  BY DEF SlotInv
<1> QED
  BY <1>1, <1>2, <1>3, TypeInit, TypeNext, LoopNext, SlotNext, PTL DEF Spec

-----------------------------------------------------------------------------
(* No attempt follows one that wrote.  A run with code or events of its own *)
(* has a row, so a run id that is free has written nothing; and an attempt  *)
(* is counted up only past WroteData's guard.                               *)

Begun(r) == pc[r] /= "idle" \/ queue[r] /= <<>> =>
              disk[r].status /= "none" /\ mem[r].status /= "none"

\* The two outcomes of a save, seen from the run it is for.
LEMMA CommitOwn ==
  ASSUME TypeInv, NEW r \in Runs, NEW row, NEW events, NEW next, NEW onFault,
         Commit(r, row, events, next, onFault)
  PROVE  /\ mem'[r] = row
         /\ \/ disk'[r] = row /\ queue'[r] = events /\ pc'[r] = next
            \/ disk'[r] = disk[r] /\ queue'[r] = queue[r] /\ pc'[r] = onFault /\ r \in faulted'
         /\ log'[r] = log[r]
BY DEF Commit, TypeInv, TypeOK

LEMMA CommitBegun ==
  ASSUME TypeInv, NEW r \in Runs, NEW row, NEW events, NEW next, NEW onFault,
         Commit(r, row, events, next, onFault), row.status /= "none",
         \/ disk[r].status /= "none"
         \/ onFault = "idle" /\ queue[r] = <<>>
  PROVE  Begun(r)' /\ (disk'[r].status = "none" => disk[r].status = "none")
<1>1. CASE disk'[r] = row
  BY <1>1, CommitOwn DEF Begun
<1>2. CASE disk'[r] = disk[r] /\ queue'[r] = queue[r] /\ pc'[r] = onFault
  BY <1>2, CommitOwn DEF Begun
<1> QED
  BY <1>1, <1>2, CommitOwn

LEMMA BegunStep ==
  ASSUME TypeInv, NEW r \in Runs, StepOf(r), Begun(r)
  PROVE  /\ Begun(r)'
         /\ disk'[r].status = "none" => disk[r].status = "none"
<1> USE DEF loopVars, localVars, Begun
<1>0. disk[r] \in Row /\ mem[r] \in Row /\ queue[r] \in Seq(Events)
  BY DEF TypeInv, TypeOK
<1>1. CASE LogEvent(r) \/ EventFault(r)
  BY <1>1 DEF LogEvent, EventFault, TypeInv, TypeOK
<1>2. CASE \/ CreateTask(r) \/ BeginPipeline(r) \/ Revise(r) \/ SkipRevision(r)
           \/ StageAborts(r) \/ FreeSlot(r) \/ ToolWrites(r)
  BY <1>2 DEF CreateTask, BeginPipeline, Revise, SkipRevision, StageAborts, FreeSlot,
     ToolWrites, Proceed, Resumes, Continues, AwaitLabels, TypeInv, TypeOK
<1>3. CASE Dispatch(r)
  BY <1>3, <1>0 DEF Dispatch, Proceed, Continues, TypeInv, TypeOK, Row
<1>4. CASE PlanReturns(r)
  BY <1>4, <1>0, CommitBegun DEF PlanReturns, Resumes, Continues, Row
<1>5. CASE Replan(r)
  BY <1>5, <1>0, CommitBegun DEF Replan, Continues, Row
<1>6. CASE Propose(r)
  <2> DEFINE row == [mem[r] EXCEPT !.status = "awaiting_human",
                                   !.proposed = mem[r].result.actions]
  <2>1. row.status = "awaiting_human"
    BY <1>0 DEF Row
  <2>2. /\ Commit(r, row, <<"awaiting_human">>, "idle", "fail")
        /\ pc[r] /= "idle"
    BY <1>6 DEF Propose, Continues
  <2> HIDE DEF row
  <2> QED
    BY <2>1, <2>2, CommitBegun
<1>7. CASE Fail(r)
  BY <1>7, <1>0, CommitBegun DEF Fail, Continues, Row
<1>8. CASE Start(r)
  BY <1>8, <1>0, CommitBegun DEF Start, Resumes, Continues, NewRow
<1>9. ASSUME NEW verdict \in Verdicts, ReviewReturns(r, verdict) 
      PROVE Begun(r)' /\ (disk'[r].status = "none" => disk[r].status = "none")
  BY <1>9, <1>0, CommitBegun DEF ReviewReturns, Resumes, Continues, Row
<1>10. ASSUME NEW parsed, NEW passed, NEW acts, NEW event, pc[r] = "work",
              WorkEnds(r, parsed, acts, passed, event)
      PROVE Begun(r)' /\ (disk'[r].status = "none" => disk[r].status = "none")
  <2> DEFINE row == [mem[r] EXCEPT
                       !.status = "reviewing",
                       !.result = [of |-> attempt[r], parsed |-> parsed,
                          actions |-> acts],
                       !.checks = [of |-> attempt[r], passed |-> passed]]
  <2>1. row.status = "reviewing"
    BY <1>0 DEF Row
  <2>2. Commit(r, row, <<event, "checks_completed", "reviewer_started">>, "review",
     "fail")
    BY <1>10 DEF WorkEnds
  <2> HIDE DEF row
  <2> QED
    BY <1>10, <2>1, <2>2, CommitBegun
<1>11. CASE \E parsed, passed \in BOOLEAN, acts \in SUBSET Actions :
        WorkReturns(r, parsed, acts, passed)
  BY <1>10, <1>11 DEF WorkReturns, Resumes, Continues
<1>12. CASE WorkFails(r)
  BY <1>10, <1>12 DEF WorkFails, Resumes, Continues
<1>13. ASSUME NEW d \in Decisions, NEW acts \in SUBSET Actions, Decide(r, d, acts)
       PROVE  Begun(r)' /\ (disk'[r].status = "none" => disk[r].status = "none")
  <2> DEFINE status == IF d = "reject" THEN "rejected" ELSE "completed"
             final == IF d = "reject" THEN "run_rejected" ELSE "run_completed"
             row == [disk[r] EXCEPT !.status = status, !.decision = d, !.approved = acts]
  <2>1. row.status = status /\ status /= "none"
    BY <1>0 DEF Row
  <2>2. /\ Commit(r, row, <<"human_decision", final>>, "idle", "idle")
        /\ disk[r].status = "awaiting_human"
    BY <1>13 DEF Decide
  <2> HIDE DEF row, final, status
  <2> QED
    BY <2>1, <2>2, CommitBegun
<1>14. CASE FailInterrupted(r)
  BY <1>14, <1>0 DEF FailInterrupted, TypeInv, TypeOK, Row
<1> QED
  BY <1>1, <1>2, <1>3, <1>4, <1>5, <1>6, <1>7, <1>8, <1>9, <1>11, <1>12, <1>13,
     <1>14 DEF StepOf, TaskStep, ClientStep

BegunInv == \A r \in Runs : Begun(r)

LEMMA BegunNext == TypeInv /\ BegunInv /\ [Next]_vars => BegunInv'
<1> SUFFICES ASSUME TypeInv, BegunInv, [Next]_vars PROVE BegunInv'
  OBVIOUS
<1> USE DEF BegunInv
<1>1. CASE UNCHANGED vars \/ Boot \/ Serve
  BY <1>1 DEF vars, Boot, Serve, Begun
<1>2. CASE Crash
  BY <1>2 DEF Crash, Begun
<1>3. ASSUME NEW r \in Runs, StepOf(r), NEW q \in Runs \ {r} PROVE Begun(q)'
  <2>1. mem'[q] \in {mem[q], disk[q]}
    <3>1. CASE process = "up"
      BY <1>3, <3>1, Locality
    <3>2. CASE LogEvent(r) \/ FailInterrupted(r)
      BY <1>3, <3>2 DEF LogEvent, FailInterrupted, TypeInv, TypeOK
    <3> QED
      BY <1>3, <3>1, <3>2, StepBeforeUp
  <2> QED
    BY <1>3, <2>1, Locality DEF Begun
<1> QED
  BY <1>1, <1>2, <1>3, BegunStep, NextCases

WriteOf(r) == /\ wrote[r].ran \ wrote[r].untold \subseteq {attempt[r]}
              /\ pc[r] \in {"create", "scheduled"} \/ disk[r].status = "none"
                   => wrote[r].ran = {}

LEMMA WriteStep ==
  ASSUME TypeInv, NEW r \in Runs, StepOf(r), Begun(r), WriteOf(r)
  PROVE  WriteOf(r)'
<1> USE DEF loopVars, localVars, WriteOf
<1>1. CASE ToolWrites(r)
  BY <1>1 DEF ToolWrites, Continues, Begun, TypeInv, TypeOK
<1>2. CASE BeginPipeline(r)
  BY <1>2 DEF BeginPipeline, Proceed, Resumes, Continues, TypeInv, TypeOK
<1>3. CASE Revise(r)
  BY <1>3, BegunStep DEF Revise, WroteData, Proceed, Continues, TypeInv, TypeOK
<1>4. CASE Start(r)
  BY <1>4, BegunStep DEF Start, Resumes, Continues
<1>5. CASE CreateTask(r)
  BY <1>5, BegunStep DEF CreateTask, Continues
<1>6. CASE WorkFails(r)
  <2>1. attempt' = attempt /\ wrote'[r].ran = wrote[r].ran /\ wrote[r].untold \subseteq wrote'[r].untold
    BY <1>6 DEF WorkFails, TypeInv, TypeOK
  <2>2. disk[r].status /= "none" /\ disk'[r].status /= "none"
    BY <1>6, BegunStep DEF WorkFails, Resumes, Continues, Begun
  <2>3. pc'[r] \in {"review", "fail"}
    BY <1>6, CommitOwn DEF WorkFails, WorkEnds, Commit, TypeInv, TypeOK
  <2> QED
    BY <2>1, <2>2, <2>3
<1>7. CASE /\ ~ToolWrites(r) /\ ~BeginPipeline(r) /\ ~Revise(r) /\ ~Start(r)
           /\ ~CreateTask(r) /\ ~WorkFails(r)
  BY <1>7, BegunStep, Kept
<1> QED
  BY <1>1, <1>2, <1>3, <1>4, <1>5, <1>6, <1>7

WriteInv == \A r \in Runs : WriteOf(r)

LEMMA WriteNext == TypeInv /\ BegunInv /\ WriteInv /\ [Next]_vars => WriteInv'
<1> SUFFICES ASSUME TypeInv, BegunInv, WriteInv, [Next]_vars PROVE WriteInv'
  OBVIOUS
<1> USE DEF BegunInv, WriteInv
<1>1. CASE UNCHANGED vars \/ Boot \/ Serve
  BY <1>1 DEF vars, localVars, Boot, Serve, WriteOf
<1>2. CASE Crash
  BY <1>2 DEF Crash, localVars, WriteOf
<1>3. ASSUME NEW r \in Runs, StepOf(r), NEW q \in Runs \ {r} PROVE WriteOf(q)'
  BY <1>3, Locality DEF WriteOf
<1> QED
  BY <1>1, <1>2, <1>3, WriteStep, NextCases

\* An attempt in which a write tool ran is never repeated, whatever the Reviewer and
\* the checks ask for, unless its call failed with an answer that carries no trace.
THEOREM WritesEndRuns == Spec => []WritesEndTheRun
<1>1. Init => BegunInv /\ WriteInv
  BY DEF Init, BegunInv, WriteInv, Begun, WriteOf
<1>2. TypeInv /\ WriteInv => WritesEndTheRun
  BY DEF TypeInv, TypeOK, WriteInv, WriteOf, WritesEndTheRun, Attempts
<1> QED
  BY <1>1, <1>2, TypeInit, TypeNext, BegunNext, WriteNext, PTL DEF Spec

-----------------------------------------------------------------------------
(* Closed runs.  Code under way on a run implies that its row is active (or *)
(* awaiting a human whose audit event failed), so no such code can rewrite  *)
(* a row that is final.                                                     *)

Under(r) == pc[r] \in PipelineLabels \cup {"scheduled", "create"}
Presents(events) == \E i \in DOMAIN events : events[i] = "awaiting_human"

Open == ActiveStatuses \cup {"awaiting_human"}
StageOf(r) ==
   /\ Under(r) => disk[r].status \in ActiveStatuses /\ mem[r].status \in ActiveStatuses
   /\ pc[r] = "fail" => disk[r].status \in Open
   /\ Presents(queue[r]) => disk[r].status = "awaiting_human"

\* Only Propose announces awaiting_human.
LEMMA QuietEvents ==
  /\ ~Presents(<<>>)
  /\ ~Presents(<<"run_created">>)
  /\ ~Presents(<<"planner_started">>)
  /\ ~Presents(<<"planner_completed", "worker_started">>)
  /\ ~Presents(<<"worker_completed", "checks_completed", "reviewer_started">>)
  /\ ~Presents(<<"worker_failed", "checks_completed", "reviewer_started">>)
  /\ ~Presents(<<"review_completed">>)
  /\ ~Presents(<<"revision_requested">>)
  /\ ~Presents(<<"revision_skipped">>)
  /\ ~Presents(<<"run_failed">>)
  /\ ~Presents(<<"human_decision", "run_completed">>)
  /\ ~Presents(<<"human_decision", "run_rejected">>)
BY DEF Presents

\* Events yet to be written shrink from the front.
LEMMA TailQuiet ==
  ASSUME NEW s \in Seq(Events), s /= <<>>
  PROVE  /\ Presents(Tail(s)) => Presents(s)
         /\ Head(s) = "awaiting_human" => Presents(s)
<1>1. Len(s) \in Nat /\ Len(s) >= 1 /\ DOMAIN s = 1..Len(s)
  OBVIOUS
<1>2. DOMAIN Tail(s) = 1..(Len(s) - 1) /\ \A i \in 1..(Len(s) - 1) : Tail(s)[i] = s[i + 1]
  BY <1>1
<1>3. ASSUME NEW i \in DOMAIN Tail(s), Tail(s)[i] = "awaiting_human" PROVE Presents(s)
  <2>1. i + 1 \in DOMAIN s /\ s[i + 1] = "awaiting_human"
    BY <1>1, <1>2, <1>3
  <2> QED
    BY <2>1 DEF Presents
<1>4. 1 \in DOMAIN s /\ Head(s) = s[1]
  BY <1>1
<1> QED
  BY <1>3, <1>4 DEF Presents

\* A save keeps StageOf when the label it leads to fits the status it stores.
LEMMA CommitStage ==
  ASSUME TypeInv, NEW r \in Runs, NEW row, NEW events, NEW next, NEW onFault,
         Commit(r, row, events, next, onFault),
         queue[r] = <<>>, 
         \/ next \in PipelineLabels \cup {"create"} /\ row.status \in ActiveStatuses
         \/ next = "idle",
         Presents(events) => row.status = "awaiting_human",
         \/ onFault = "fail" /\ disk[r].status \in Open
         \/ onFault = "idle"
  PROVE  StageOf(r)'
<1> USE LabelNames
<1>1. CASE disk'[r] = row /\ queue'[r] = events /\ pc'[r] = next
  BY <1>1, CommitOwn DEF StageOf, Under
<1>2. CASE disk'[r] = disk[r] /\ queue'[r] = queue[r] /\ pc'[r] = onFault
  BY <1>2, CommitOwn, QuietEvents DEF StageOf, Under
<1> QED
  BY <1>1, <1>2, CommitOwn

Closed(r) == disk[r].status \in FinalStatuses
LEMMA StageStep ==
  ASSUME TypeInv, NEW r \in Runs, StepOf(r), StageOf(r),
         process = "booting" => pc[r] = "idle"
  PROVE  /\ StageOf(r)'
         /\ Closed(r) => disk'[r] = disk[r]
<1> USE LabelNames DEF loopVars, localVars, Closed, FinalStatuses, ActiveStatuses, Open
<1>0. disk[r] \in Row /\ mem[r] \in Row /\ queue[r] \in Seq(Events)
  BY DEF TypeInv, TypeOK
<1>1. CASE LogEvent(r)
  BY <1>1, <1>0, TailQuiet DEF LogEvent, StageOf, Under, TypeInv, TypeOK
<1>2. CASE EventFault(r)
  BY <1>2, <1>0, TailQuiet, QuietEvents DEF EventFault, StageOf, Under, TypeInv, TypeOK
<1>3. CASE \/ CreateTask(r) \/ BeginPipeline(r) \/ Revise(r) \/ SkipRevision(r)
           \/ StageAborts(r) \/ FreeSlot(r) \/ ToolWrites(r)
  BY <1>3, QuietEvents DEF CreateTask, BeginPipeline, Revise, SkipRevision,
     StageAborts, FreeSlot, ToolWrites, Proceed, Resumes, Continues, AwaitLabels,
     TypeInv, TypeOK, StageOf, Under
<1>4. CASE Dispatch(r)
  BY <1>4, <1>0, QuietEvents DEF Dispatch, Proceed, Continues, TypeInv, TypeOK, Row,
     StageOf, Under
<1>5. CASE PlanReturns(r)
  <2> DEFINE row == [mem[r] EXCEPT !.status = "working"]
  <2>1. row.status = "working"
    BY <1>0 DEF Row
  <2>2. /\ Commit(r, row, <<"planner_completed", "worker_started">>, "dispatch", "fail")
        /\ pc[r] = "plan" /\ queue[r] = <<>>
    BY <1>5 DEF PlanReturns, Resumes, Continues
  <2> HIDE DEF row
  <2>3. disk[r].status \in ActiveStatuses
    BY <2>2 DEF StageOf, Under
  <2> QED
    BY <2>1, <2>2, <2>3, CommitStage, QuietEvents
<1>6. CASE Replan(r)
  <2> DEFINE row == [mem[r] EXCEPT !.status = "planning"]
  <2>1. row.status = "planning"
    BY <1>0 DEF Row
  <2>2. /\ Commit(r, row, <<"planner_started">>, "plan", "fail")
        /\ pc[r] = "replan" /\ queue[r] = <<>>
    BY <1>6 DEF Replan, Continues
  <2> HIDE DEF row
  <2>3. disk[r].status \in ActiveStatuses
    BY <2>2 DEF StageOf, Under
  <2> QED
    BY <2>1, <2>2, <2>3, CommitStage, QuietEvents
<1>7. ASSUME NEW parsed, NEW passed, NEW acts, NEW event \in {"worker_completed",
   "worker_failed"},
             pc[r] = "work", queue[r] = <<>>, WorkEnds(r, parsed, acts, passed, event)
      PROVE StageOf(r)' /\ ~Closed(r)
  <2> DEFINE row == [mem[r] EXCEPT
                       !.status = "reviewing",
                       !.result = [of |-> attempt[r], parsed |-> parsed,
                          actions |-> acts],
                       !.checks = [of |-> attempt[r], passed |-> passed]]
  <2>1. row.status = "reviewing"
    BY <1>0 DEF Row
  <2>2. Commit(r, row, <<event, "checks_completed", "reviewer_started">>, "review",
     "fail")
    BY <1>7 DEF WorkEnds
  <2> HIDE DEF row
  <2>3. disk[r].status \in ActiveStatuses
    BY <1>7 DEF StageOf, Under
  <2> QED
    BY <1>7, <2>1, <2>2, <2>3, CommitStage, QuietEvents
<1>8. CASE \E parsed, passed \in BOOLEAN, acts \in SUBSET Actions :
        WorkReturns(r, parsed, acts, passed)
  BY <1>7, <1>8 DEF WorkReturns, Resumes, Continues
<1>9. CASE WorkFails(r)
  BY <1>7, <1>9 DEF WorkFails, Resumes, Continues
<1>10. ASSUME NEW verdict \in Verdicts, ReviewReturns(r, verdict)
       PROVE  StageOf(r)' /\ ~Closed(r)
  <2> DEFINE row == [mem[r] EXCEPT !.review =
                       [of |-> attempt[r], verdict |-> CheckFloor(verdict,
                          mem[r].checks.passed)]]
  <2>1. row.status = mem[r].status
    BY <1>0 DEF Row
  <2>2. /\ Commit(r, row, <<"review_completed">>, "settle", "fail")
        /\ pc[r] = "review" /\ queue[r] = <<>>
    BY <1>10 DEF ReviewReturns, Resumes, Continues
  <2> HIDE DEF row
  <2>3. disk[r].status \in ActiveStatuses /\ mem[r].status \in ActiveStatuses
    BY <2>2 DEF StageOf, Under
  <2> QED
    BY <2>1, <2>2, <2>3, CommitStage, QuietEvents
<1>11. CASE Propose(r)
  <2> DEFINE row == [mem[r] EXCEPT !.status = "awaiting_human",
                                   !.proposed = mem[r].result.actions]
  <2>1. row.status = "awaiting_human"
    BY <1>0 DEF Row
  <2>2. /\ Commit(r, row, <<"awaiting_human">>, "idle", "fail")
        /\ pc[r] \in {"propose", "settle"} /\ queue[r] = <<>>
    BY <1>11 DEF Propose, Continues
  <2> HIDE DEF row
  <2>3. disk[r].status \in ActiveStatuses
    BY <2>2 DEF StageOf, Under
  <2> QED
    BY <2>1, <2>2, <2>3, CommitStage
<1>12. CASE Fail(r)
  <2> DEFINE row == [mem[r] EXCEPT !.status = "failed"]
  <2>1. Commit(r, row, <<"run_failed">>, "idle",
     "idle") /\ pc[r] = "fail" /\ queue[r] = <<>>
    BY <1>12 DEF Fail, Continues
  <2> HIDE DEF row
  <2> QED
    BY <2>1, CommitStage, QuietEvents DEF StageOf
<1>13. CASE Start(r)
  BY <1>13, CommitStage, QuietEvents DEF Start, Resumes, Continues, NewRow
<1>14. ASSUME NEW d \in Decisions, NEW acts \in SUBSET Actions, Decide(r, d, acts)
       PROVE  StageOf(r)' /\ ~Closed(r)
  <2> DEFINE status == IF d = "reject" THEN "rejected" ELSE "completed"
             final == IF d = "reject" THEN "run_rejected" ELSE "run_completed"
             row == [disk[r] EXCEPT !.status = status, !.decision = d, !.approved = acts]
  <2>1. ~Presents(<<"human_decision", final>>)
    BY QuietEvents
  <2>2. /\ Commit(r, row, <<"human_decision", final>>, "idle", "idle")
        /\ disk[r].status = "awaiting_human" /\ queue[r] = <<>>
    BY <1>14 DEF Decide, Resumes, Continues
  <2> HIDE DEF row, final, status
  <2> QED
    BY <2>1, <2>2, CommitStage
<1>15. CASE FailInterrupted(r)
  <2>1. /\ pc'[r] = "idle" /\ queue'[r] = <<"run_failed">>
        /\ disk[r].status \in ActiveStatuses
    BY <1>15 DEF FailInterrupted, TypeInv, TypeOK
  <2> QED
    BY <2>1, QuietEvents DEF StageOf, Under
<1> QED
  BY <1>1, <1>2, <1>3, <1>4, <1>5, <1>6, <1>8, <1>9, <1>10, <1>11, <1>12, <1>13, <1>14,
     <1>15 DEF StepOf, TaskStep, ClientStep

DownInv == process /= "up" => \A r \in Runs : pc[r] = "idle"

LEMMA DownNext == TypeInv /\ DownInv /\ [Next]_vars => DownInv'
<1> SUFFICES ASSUME TypeInv, DownInv, [Next]_vars PROVE DownInv'
  OBVIOUS
<1>1. CASE UNCHANGED vars \/ Crash \/ Boot \/ Serve
  BY <1>1 DEF vars, Crash, Boot, Serve, DownInv, TypeInv, TypeOK
<1>2. ASSUME NEW r \in Runs, StepOf(r) PROVE DownInv'
  <2>1. CASE process = "up"
    BY <1>2, <2>1, Kept DEF DownInv
  <2>2. CASE LogEvent(r) \/ FailInterrupted(r)
    BY <2>2 DEF LogEvent, FailInterrupted, loopVars, DownInv
  <2> QED
    BY <1>2, <2>1, <2>2, StepBeforeUp
<1> QED
  BY <1>1, <1>2, NextCases

StageInv == \A r \in Runs : StageOf(r)

LEMMA StageNext ==
  TypeInv /\ DownInv /\ StageInv /\ [Next]_vars
    => StageInv' /\ \A r \in Runs : Closed(r) => disk'[r] = disk[r]
<1> SUFFICES ASSUME TypeInv, DownInv, StageInv, [Next]_vars
             PROVE  StageInv' /\ \A r \in Runs : Closed(r) => disk'[r] = disk[r]
  OBVIOUS
<1> USE DEF StageInv
<1>1. CASE UNCHANGED vars \/ Boot \/ Serve
  BY <1>1 DEF vars, Boot, Serve, StageOf, Under
<1>2. CASE Crash
  BY <1>2, QuietEvents, LabelNames DEF Crash, StageOf, Under
<1>3. ASSUME NEW r \in Runs, StepOf(r), NEW q \in Runs
      PROVE  StageOf(q)' /\ (Closed(q) => disk'[q] = disk[q])
  <2>1. CASE q = r
    BY <1>3, <2>1, StageStep DEF DownInv
  <2>2. CASE q /= r /\ process = "up"
    BY <1>3, <2>2, Locality DEF StageOf, Under
  <2>3. CASE q /= r /\ process /= "up"
    BY <1>3, <2>3, Locality, LabelNames DEF StageOf, Under, DownInv
  <2> QED
    BY <2>1, <2>2, <2>3
<1> QED
  BY <1>1, <1>2, <1>3, NextCases

\* A completed, rejected or failed run keeps its row for good: no late stage,
\* timeout, second decision or restart rewrites it.
THEOREM FinalRowsAreKept == Spec => FinalRowsStay
<1>1. Init => DownInv /\ StageInv
  BY QuietEvents, LabelNames DEF Init, DownInv, StageInv, StageOf, Under, NoRow, NewRow
<1>2. TypeInv /\ DownInv /\ StageInv /\ [Next]_vars
        => [\A r \in Runs : disk[r].status \in FinalStatuses => disk'[r] = disk[r]]_vars
  BY StageNext DEF Closed
<1> QED
  BY <1>1, <1>2, TypeInit, TypeNext, DownNext, StageNext, PTL DEF Spec, FinalRowsStay
-----------------------------------------------------------------------------
(* Owners.  Code under way on a run holds the run's slot from CreateTask    *)
(* on, and leaves the run active only where a save of it raised.            *)

OwnerOf(r) ==
  /\ pc[r] \notin {"idle", "create"} \/ Presents(queue[r]) => r \in tasks
  /\ process = "up" /\ pc[r] = "idle" /\ disk[r].status \in ActiveStatuses => r \in faulted

\* A save of the pipeline's keeps its run owned: the code goes on with it, or what
\* it stores is no longer active.
LEMMA CommitOwner ==
  ASSUME TypeInv, NEW r \in Runs, NEW row, NEW events, NEW next, NEW onFault,
         Commit(r, row, events, next, onFault), tasks' = tasks, queue[r] = <<>>,
         r \in tasks, next /= "idle" \/ row.status \notin ActiveStatuses
  PROVE  OwnerOf(r)'
<1>1. CASE disk'[r] = row /\ queue'[r] = events /\ pc'[r] = next
  BY <1>1 DEF OwnerOf
<1>2. CASE disk'[r] = disk[r] /\ queue'[r] = queue[r] /\ pc'[r] = onFault /\ r \in faulted'
  BY <1>2 DEF OwnerOf
<1> QED
  BY <1>1, <1>2, CommitOwn

\* So does a request's, which holds no slot yet or any more.
LEMMA CommitFree ==
  ASSUME TypeInv, NEW r \in Runs, NEW row, NEW events, NEW next \in {"idle", "create"},
         Commit(r, row, events, next, "idle"), queue[r] = <<>>, ~Presents(events),
         next /= "idle" \/ row.status \notin ActiveStatuses
  PROVE  OwnerOf(r)'
<1>1. CASE disk'[r] = row /\ queue'[r] = events /\ pc'[r] = next
  BY <1>1 DEF OwnerOf
<1>2. CASE disk'[r] = disk[r] /\ queue'[r] = queue[r] /\ pc'[r] = "idle" /\ r \in faulted'
  BY <1>2, QuietEvents DEF OwnerOf
<1> QED
  BY <1>1, <1>2, CommitOwn

LEMMA OwnerStep ==
  ASSUME TypeInv, NEW r \in Runs, StepOf(r), StageOf(r), OwnerOf(r)
  PROVE  OwnerOf(r)' /\ faulted \subseteq faulted'
<1> USE LabelNames DEF loopVars, localVars
<1>0. disk[r] \in Row /\ mem[r] \in Row /\ queue[r] \in Seq(Events)
  BY DEF TypeInv, TypeOK
<1>a. faulted \subseteq faulted'
  BY DEF StepOf, TaskStep, ClientStep, LogEvent, EventFault, CreateTask, BeginPipeline,
     PlanReturns, Dispatch, WorkReturns, WorkFails, WorkEnds, ReviewReturns, Revise, Replan,
     SkipRevision, Propose, StageAborts, Fail, FreeSlot, Start, Decide, ToolWrites,
     FailInterrupted, Commit, Proceed
<1> SUFFICES OwnerOf(r)'
  BY <1>a
<1>1. CASE LogEvent(r)
  BY <1>1, <1>0, TailQuiet DEF LogEvent, OwnerOf, TypeInv, TypeOK
<1>2. CASE EventFault(r)
  BY <1>2, <1>0, TailQuiet, QuietEvents DEF EventFault, OwnerOf, TypeInv, TypeOK
<1>3. CASE \/ CreateTask(r) \/ BeginPipeline(r) \/ Revise(r) \/ SkipRevision(r)
           \/ StageAborts(r) \/ FreeSlot(r) \/ ToolWrites(r)
  BY <1>3, QuietEvents DEF CreateTask, BeginPipeline, Revise, SkipRevision,
     StageAborts, FreeSlot, ToolWrites, Proceed, Resumes, Continues, AwaitLabels,
     TypeInv, TypeOK, OwnerOf
<1>4. CASE Dispatch(r)
  BY <1>4, QuietEvents DEF Dispatch, Proceed, Continues, TypeInv, TypeOK, OwnerOf
<1>5. CASE PlanReturns(r)
  <2> DEFINE row == [mem[r] EXCEPT !.status = "working"]
  <2>2. /\ Commit(r, row, <<"planner_completed", "worker_started">>, "dispatch", "fail")
        /\ pc[r] = "plan" /\ queue[r] = <<>> /\ tasks' = tasks
    BY <1>5 DEF PlanReturns, Resumes, Continues
  <2>3. r \in tasks
    BY <2>2 DEF OwnerOf
  <2> HIDE DEF row
  <2> QED
    BY <2>2, <2>3, CommitOwner
<1>6. CASE Replan(r)
  <2> DEFINE row == [mem[r] EXCEPT !.status = "planning"]
  <2>2. /\ Commit(r, row, <<"planner_started">>, "plan", "fail")
        /\ pc[r] = "replan" /\ queue[r] = <<>> /\ tasks' = tasks
    BY <1>6 DEF Replan, Continues
  <2>3. r \in tasks
    BY <2>2 DEF OwnerOf
  <2> HIDE DEF row
  <2> QED
    BY <2>2, <2>3, CommitOwner
<1>7. ASSUME NEW parsed, NEW passed, NEW acts, NEW event, pc[r] = "work",
             queue[r] = <<>>, tasks' = tasks, WorkEnds(r, parsed, acts, passed, event)
      PROVE  OwnerOf(r)'
  <2> DEFINE row == [mem[r] EXCEPT
                       !.status = "reviewing",
                       !.result = [of |-> attempt[r], parsed |-> parsed,
                                   actions |-> acts],
                       !.checks = [of |-> attempt[r], passed |-> passed]]
  <2>1. Commit(r, row, <<event, "checks_completed", "reviewer_started">>, "review", "fail")
    BY <1>7 DEF WorkEnds
  <2>2. r \in tasks
    BY <1>7 DEF OwnerOf
  <2> HIDE DEF row
  <2> QED
    BY <1>7, <2>1, <2>2, CommitOwner
<1>8. CASE \E parsed, passed \in BOOLEAN, acts \in SUBSET Actions :
             WorkReturns(r, parsed, acts, passed)
  BY <1>7, <1>8 DEF WorkReturns, Resumes, Continues
<1>9. CASE WorkFails(r)
  BY <1>7, <1>9 DEF WorkFails, Resumes, Continues
<1>10. ASSUME NEW verdict \in Verdicts, ReviewReturns(r, verdict)
       PROVE  OwnerOf(r)'
  <2> DEFINE row == [mem[r] EXCEPT !.review =
                       [of |-> attempt[r],
                        verdict |-> CheckFloor(verdict, mem[r].checks.passed)]]
  <2>1. /\ Commit(r, row, <<"review_completed">>, "settle", "fail")
        /\ pc[r] = "review" /\ queue[r] = <<>> /\ tasks' = tasks
    BY <1>10 DEF ReviewReturns, Resumes, Continues
  <2>2. r \in tasks
    BY <2>1 DEF OwnerOf
  <2> HIDE DEF row
  <2> QED
    BY <2>1, <2>2, CommitOwner
<1>11. CASE Propose(r)
  <2> DEFINE row == [mem[r] EXCEPT !.status = "awaiting_human",
                                   !.proposed = mem[r].result.actions]
  <2>1. row.status \notin ActiveStatuses
    BY <1>0 DEF Row, ActiveStatuses
  <2>2. /\ Commit(r, row, <<"awaiting_human">>, "idle", "fail")
        /\ pc[r] \in {"propose", "settle"} /\ queue[r] = <<>> /\ tasks' = tasks
    BY <1>11 DEF Propose, Continues
  <2>3. r \in tasks
    BY <2>2 DEF OwnerOf
  <2> HIDE DEF row
  <2> QED
    BY <2>1, <2>2, <2>3, CommitOwner
<1>12. CASE Fail(r)
  <2> DEFINE row == [mem[r] EXCEPT !.status = "failed"]
  <2>1. row.status \notin ActiveStatuses
    BY <1>0 DEF Row, ActiveStatuses
  <2>2. /\ Commit(r, row, <<"run_failed">>, "idle", "idle")
        /\ pc[r] = "fail" /\ queue[r] = <<>> /\ tasks' = tasks
    BY <1>12 DEF Fail, Continues
  <2>3. r \in tasks
    BY <2>2 DEF OwnerOf
  <2> HIDE DEF row
  <2> QED
    BY <2>1, <2>2, <2>3, CommitOwner
<1>13. CASE Start(r)
  <2>1. /\ Commit(r, NewRow, <<"run_created">>, "create", "idle")
        /\ queue[r] = <<>> /\ tasks' = tasks
    BY <1>13 DEF Start, Resumes, Continues
  <2> QED
    BY <2>1, CommitFree, QuietEvents
<1>14. ASSUME NEW d \in Decisions, NEW acts \in SUBSET Actions, Decide(r, d, acts)
       PROVE  OwnerOf(r)'
  <2> DEFINE status == IF d = "reject" THEN "rejected" ELSE "completed"
             final == IF d = "reject" THEN "run_rejected" ELSE "run_completed"
             row == [disk[r] EXCEPT !.status = status, !.decision = d, !.approved = acts]
  <2>1. row.status \notin ActiveStatuses /\ ~Presents(<<"human_decision", final>>)
    BY <1>0, QuietEvents DEF Row, ActiveStatuses
  <2>2. /\ Commit(r, row, <<"human_decision", final>>, "idle", "idle")
        /\ queue[r] = <<>> /\ tasks' = tasks
    BY <1>14 DEF Decide, Resumes, Continues
  <2> HIDE DEF row, final, status
  <2> QED
    BY <2>1, <2>2, CommitFree
<1>15. CASE FailInterrupted(r)
  BY <1>15, QuietEvents DEF FailInterrupted, OwnerOf, TypeInv, TypeOK
<1> QED
  BY <1>1, <1>2, <1>3, <1>4, <1>5, <1>6, <1>7, <1>8, <1>9, <1>10, <1>11, <1>12,
     <1>13, <1>14, <1>15
     DEF StepOf, TaskStep, ClientStep

OwnerInv == \A r \in Runs : OwnerOf(r)

LEMMA OwnerNext ==
  TypeInv /\ DownInv /\ StageInv /\ OwnerInv /\ [Next]_vars => OwnerInv'
<1> SUFFICES ASSUME TypeInv, DownInv, StageInv, OwnerInv, [Next]_vars PROVE OwnerInv'
  OBVIOUS
<1> USE DEF OwnerInv, StageInv
<1>1. CASE UNCHANGED vars \/ Boot \/ Serve
  BY <1>1 DEF vars, Boot, Serve, OwnerOf
<1>2. CASE Crash
  BY <1>2, QuietEvents DEF Crash, OwnerOf
<1>3. ASSUME NEW r \in Runs, StepOf(r), NEW q \in Runs \ {r} PROVE OwnerOf(q)'
  <2>1. q \in tasks => q \in tasks'
    BY <1>3, Kept DEF CreateTask, FreeSlot
  <2>2. /\ pc'[q] = pc[q] /\ queue'[q] = queue[q] /\ disk'[q] = disk[q]
        /\ process' = process /\ faulted \subseteq faulted'
    BY <1>3, Locality, Kept, OwnerStep
  <2> QED
    BY <2>1, <2>2 DEF OwnerOf
<1> QED
  BY <1>1, <1>2, <1>3, OwnerStep, NextCases

\* A run the store shows as under way is worked on while the server is up; only a
\* store that refused a write leaves one behind, until the next restart.
THEOREM ActiveRunsHaveOwners == Spec => []ActiveRunsAreOwned
<1>1. Init => DownInv /\ StageInv /\ OwnerInv
  BY QuietEvents, LabelNames
     DEF Init, DownInv, StageInv, StageOf, Under, NoRow, NewRow, OwnerInv, OwnerOf,
         ActiveStatuses
<1>2. OwnerInv => ActiveRunsAreOwned
  BY DEF OwnerInv, OwnerOf, ActiveRunsAreOwned
<1> QED
  BY <1>1, <1>2, TypeInit, TypeNext, DownNext, StageNext, OwnerNext, PTL DEF Spec
-----------------------------------------------------------------------------
(* Reviews.  What each stage stores it stamps with the attempt under way,   *)
(* so what the last one saves for the human is of a single attempt.         *)

Presented == {"awaiting_human", "completed", "rejected"}

Covered(row) == /\ row.attempts > 0
                /\ row.result.of = row.attempts
                /\ row.checks.of = row.attempts
                /\ row.review.of = row.attempts
                /\ row.review.verdict = "approve" => row.checks.passed

\* What the record holds of attempt n when the code stands at label.
Stamped(row, label, n) ==
  /\ label \in {"work", "review", "settle", "propose"} => row.attempts = n
  /\ label \in {"review", "settle", "propose"} => row.result.of = n /\ row.checks.of = n
  /\ label \in {"settle", "propose"} =>
       row.review.of = n /\ (row.review.verdict = "approve" => row.checks.passed)

CoverOf(r) == /\ Stamped(mem[r], pc[r], attempt[r])
              /\ disk[r].status \in Presented => Covered(disk[r])

LEMMA CommitCover ==
  ASSUME TypeInv, NEW r \in Runs, NEW row, NEW events, NEW next, NEW onFault \in {"idle", "fail"},
         Commit(r, row, events, next, onFault), attempt' = attempt, CoverOf(r),
         Stamped(row, next, attempt[r]), row.status \in Presented => Covered(row)
  PROVE  CoverOf(r)'
<1>1. CASE disk'[r] = row /\ pc'[r] = next /\ mem'[r] = row
  BY <1>1 DEF CoverOf
<1>2. CASE disk'[r] = disk[r] /\ pc'[r] = onFault
  BY <1>2 DEF CoverOf, Stamped
<1> QED
  BY <1>1, <1>2, CommitOwn

LEMMA CoverStep ==
  ASSUME TypeInv, NEW r \in Runs, StepOf(r), StageOf(r), CoverOf(r),
         process = "booting" => pc[r] = "idle"
  PROVE  CoverOf(r)'
<1> USE LabelNames DEF loopVars, localVars
<1>0. disk[r] \in Row /\ mem[r] \in Row
  BY DEF TypeInv, TypeOK
<1>1. CASE LogEvent(r) \/ ToolWrites(r) \/ FreeSlot(r)
  BY <1>1 DEF LogEvent, ToolWrites, FreeSlot, CoverOf
<1>2. CASE \/ EventFault(r) \/ CreateTask(r) \/ BeginPipeline(r) \/ Revise(r)
           \/ SkipRevision(r) \/ StageAborts(r)
  BY <1>2 DEF EventFault, CreateTask, BeginPipeline, Revise, SkipRevision, StageAborts,
     Proceed, Continues, TypeInv, TypeOK, CoverOf, Stamped
<1>3. CASE Dispatch(r)
  BY <1>3, <1>0 DEF Dispatch, Proceed, TypeInv, TypeOK, Row, CoverOf, Stamped
<1>4. CASE PlanReturns(r)
  <2> DEFINE row == [mem[r] EXCEPT !.status = "working"]
  <2>1. row.status = "working"
    BY <1>0 DEF Row
  <2>2. /\ Commit(r, row, <<"planner_completed", "worker_started">>, "dispatch", "fail")
        /\ attempt' = attempt
    BY <1>4 DEF PlanReturns
  <2>3. Stamped(row, "dispatch", attempt[r])
    BY DEF Stamped
  <2> HIDE DEF row
  <2> QED
    BY <2>1, <2>2, <2>3, CommitCover DEF Presented
<1>5. CASE Replan(r)
  <2> DEFINE row == [mem[r] EXCEPT !.status = "planning"]
  <2>1. row.status = "planning"
    BY <1>0 DEF Row
  <2>2. Commit(r, row, <<"planner_started">>, "plan", "fail") /\ attempt' = attempt
    BY <1>5 DEF Replan
  <2>3. Stamped(row, "plan", attempt[r])
    BY DEF Stamped
  <2> HIDE DEF row
  <2> QED
    BY <2>1, <2>2, <2>3, CommitCover DEF Presented
<1>6. ASSUME NEW parsed, NEW passed, NEW acts, NEW event, pc[r] = "work",
             attempt' = attempt, WorkEnds(r, parsed, acts, passed, event)
      PROVE  CoverOf(r)'
  <2> DEFINE row == [mem[r] EXCEPT
                       !.status = "reviewing",
                       !.result = [of |-> attempt[r], parsed |-> parsed,
                                   actions |-> acts],
                       !.checks = [of |-> attempt[r], passed |-> passed]]
  <2>1. /\ row.status = "reviewing" /\ row.attempts = mem[r].attempts
        /\ row.result.of = attempt[r] /\ row.checks.of = attempt[r]
    BY <1>0 DEF Row
  <2>2. Commit(r, row, <<event, "checks_completed", "reviewer_started">>, "review", "fail")
    BY <1>6 DEF WorkEnds
  <2> HIDE DEF row
  <2>3. Stamped(row, "review", attempt[r])
    BY <1>6, <2>1 DEF CoverOf, Stamped
  <2> QED
    BY <1>6, <2>1, <2>2, <2>3, CommitCover DEF Presented
<1>7. CASE \E parsed, passed \in BOOLEAN, acts \in SUBSET Actions :
             WorkReturns(r, parsed, acts, passed)
  BY <1>6, <1>7 DEF WorkReturns, Resumes, Continues
<1>8. CASE WorkFails(r)
  BY <1>6, <1>8 DEF WorkFails, Resumes, Continues
<1>9. ASSUME NEW verdict \in Verdicts, ReviewReturns(r, verdict)
      PROVE  CoverOf(r)'
  <2> DEFINE row == [mem[r] EXCEPT !.review =
                       [of |-> attempt[r],
                        verdict |-> CheckFloor(verdict, mem[r].checks.passed)]]
  <2>1. /\ row.status = mem[r].status /\ row.attempts = mem[r].attempts
        /\ row.result = mem[r].result /\ row.checks = mem[r].checks
        /\ row.review.of = attempt[r]
        /\ row.review.verdict = CheckFloor(verdict, mem[r].checks.passed)
    BY <1>0 DEF Row
  <2>2. /\ Commit(r, row, <<"review_completed">>, "settle", "fail")
        /\ pc[r] = "review" /\ attempt' = attempt
    BY <1>9 DEF ReviewReturns, Resumes, Continues
  <2> HIDE DEF row
  <2>3. Stamped(row, "settle", attempt[r])
    BY <2>1, <2>2 DEF CoverOf, Stamped, CheckFloor
  <2>4. row.status \notin Presented
    BY <2>1, <2>2 DEF StageOf, Under, ActiveStatuses, Presented
  <2> QED
    BY <2>2, <2>3, <2>4, CommitCover
<1>10. CASE Propose(r)
  <2> DEFINE row == [mem[r] EXCEPT !.status = "awaiting_human",
                                   !.proposed = mem[r].result.actions]
  <2>1. /\ row.attempts = mem[r].attempts /\ row.result = mem[r].result
        /\ row.checks = mem[r].checks /\ row.review = mem[r].review
    BY <1>0 DEF Row
  <2>2. /\ Commit(r, row, <<"awaiting_human">>, "idle", "fail")
        /\ pc[r] \in {"propose", "settle"} /\ attempt' = attempt
    BY <1>10 DEF Propose, Continues
  <2>3. Stamped(row, "idle", attempt[r])
    BY DEF Stamped
  <2> HIDE DEF row
  <2>4. attempt[r] > 0
    <3>1. attempt[r] \in Attempts
      BY <2>2 DEF TypeInv, AttemptBegun
    <3> QED
      BY <3>1, LimitsAssumption DEF Attempts
  <2>5. Covered(row)
    BY <2>1, <2>2, <2>4 DEF CoverOf, Stamped, Covered
  <2> QED
    BY <2>2, <2>3, <2>5, CommitCover
<1>11. CASE Fail(r)
  <2> DEFINE row == [mem[r] EXCEPT !.status = "failed"]
  <2>1. row.status = "failed"
    BY <1>0 DEF Row
  <2>2. Commit(r, row, <<"run_failed">>, "idle", "idle") /\ attempt' = attempt
    BY <1>11 DEF Fail
  <2>3. Stamped(row, "idle", attempt[r])
    BY DEF Stamped
  <2> HIDE DEF row
  <2> QED
    BY <2>1, <2>2, <2>3, CommitCover DEF Presented
<1>12. CASE Start(r)
  <2>1. Commit(r, NewRow, <<"run_created">>, "create", "idle") /\ attempt' = attempt
    BY <1>12 DEF Start
  <2>2. Stamped(NewRow, "create", attempt[r]) /\ NewRow.status \notin Presented
    BY DEF Stamped, NewRow, Presented
  <2> QED
    BY <2>1, <2>2, CommitCover
<1>13. ASSUME NEW d \in Decisions, NEW acts \in SUBSET Actions, Decide(r, d, acts)
       PROVE  CoverOf(r)'
  <2> DEFINE status == IF d = "reject" THEN "rejected" ELSE "completed"
             final == IF d = "reject" THEN "run_rejected" ELSE "run_completed"
             row == [disk[r] EXCEPT !.status = status, !.decision = d, !.approved = acts]
  <2>1. /\ row.attempts = disk[r].attempts /\ row.result = disk[r].result
        /\ row.checks = disk[r].checks /\ row.review = disk[r].review
    BY <1>0 DEF Row
  <2>2. /\ Commit(r, row, <<"human_decision", final>>, "idle", "idle")
        /\ disk[r].status = "awaiting_human" /\ attempt' = attempt
    BY <1>13 DEF Decide
  <2>3. Stamped(row, "idle", attempt[r])
    BY DEF Stamped
  <2> HIDE DEF row, final, status
  <2>4. Covered(row)
    BY <2>1, <2>2 DEF CoverOf, Covered, Presented
  <2> QED
    BY <2>2, <2>3, <2>4, CommitCover
<1>14. CASE FailInterrupted(r)
  <2>1. disk'[r].status = "failed" /\ pc'[r] = "idle"
    BY <1>14, <1>0 DEF FailInterrupted, TypeInv, TypeOK, Row
  <2> QED
    BY <2>1 DEF CoverOf, Stamped, Presented
<1> QED
  BY <1>1, <1>2, <1>3, <1>4, <1>5, <1>7, <1>8, <1>9, <1>10, <1>11, <1>12, <1>13, <1>14
     DEF StepOf, TaskStep, ClientStep

CoverInv == \A r \in Runs : CoverOf(r)

LEMMA CoverNext ==
  TypeInv /\ DownInv /\ StageInv /\ CoverInv /\ [Next]_vars => CoverInv'
<1> SUFFICES ASSUME TypeInv, DownInv, StageInv, CoverInv, [Next]_vars PROVE CoverInv'
  OBVIOUS
<1> USE DEF CoverInv, StageInv
<1>1. CASE UNCHANGED vars \/ Boot \/ Serve
  BY <1>1 DEF vars, localVars, Boot, Serve, CoverOf
<1>2. CASE Crash
  BY <1>2 DEF Crash, localVars, CoverOf, Stamped
<1>3. ASSUME NEW r \in Runs, StepOf(r), NEW q \in Runs PROVE CoverOf(q)'
  <2>1. CASE q = r
    BY <1>3, <2>1, CoverStep DEF DownInv
  <2>2. CASE q /= r /\ process = "up"
    BY <1>3, <2>2, Locality DEF CoverOf
  <2>3. CASE q /= r /\ process /= "up"
    BY <1>3, <2>3, Locality DEF CoverOf, Stamped, DownInv
  <2> QED
    BY <2>1, <2>2, <2>3
<1> QED
  BY <1>1, <1>2, <1>3, NextCases

\* What the human is asked to sign off, and what is kept of it, is one attempt's
\* work; an approving review stands only on checks that passed.
THEOREM ReviewsCoverLastAttempt == Spec => []ReviewCoversLastAttempt
<1>1. Init => DownInv /\ StageInv /\ CoverInv
  BY QuietEvents, LabelNames
     DEF Init, DownInv, StageInv, StageOf, Under, NoRow, NewRow, CoverInv, CoverOf,
         Stamped, Presented
<1>2. CoverInv => ReviewCoversLastAttempt
  BY DEF CoverInv, CoverOf, Covered, Presented, ReviewCoversLastAttempt
<1> QED
  BY <1>1, <1>2, TypeInit, TypeNext, DownNext, StageNext, CoverNext, PTL DEF Spec
-----------------------------------------------------------------------------
(* Logs.  An outcome is logged in the stretch of code that saved it, after  *)
(* the save; awaiting_human, the one that does not close a run, is taken    *)
(* back by Fail only while the log does not hold it yet.                    *)

Fits(event, status) ==
  /\ event = "run_failed" => status = "failed"
  /\ event = "awaiting_human" => status \in Presented
  /\ event = "run_completed" => status = "completed"
  /\ event = "run_rejected" => status = "rejected"

Told(events, status) == \A i \in DOMAIN events : Fits(events[i], status)

LogOf(r) ==
  /\ Told(log[r], disk[r].status)
  /\ Told(queue[r], disk[r].status)
  /\ Presents(queue[r]) => queue[r] = <<"awaiting_human">> /\ ~Presents(log[r])
  /\ pc[r] = "fail" => queue[r] = <<>> /\ ~Presents(log[r])

\* What is told of an open run stays true of what it turns into.
LEMMA ToldMoves ==
  ASSUME NEW events, NEW old, NEW new, Told(events, old), old \notin FinalStatuses,
         \/ new \in Presented
         \/ ~Presents(events)
  PROVE  Told(events, new)
BY DEF Told, Fits, Presents, Presented, FinalStatuses

LEMMA NothingToldEarly ==
  ASSUME NEW events, NEW status \in ActiveStatuses \cup {"none"}, Told(events, status)
  PROVE  ~Presents(events)
BY DEF Told, Fits, Presents, Presented, ActiveStatuses

\* Events that report no outcome fit every status.
LEMMA PlainEvents ==
  ASSUME NEW status
  PROVE  /\ Told(<<>>, status)
         /\ Told(<<"run_created">>, status)
         /\ Told(<<"planner_started">>, status)
         /\ Told(<<"planner_completed", "worker_started">>, status)
         /\ Told(<<"worker_completed", "checks_completed", "reviewer_started">>, status)
         /\ Told(<<"worker_failed", "checks_completed", "reviewer_started">>, status)
         /\ Told(<<"review_completed">>, status)
         /\ Told(<<"revision_requested">>, status)
         /\ Told(<<"revision_skipped">>, status)
BY DEF Told, Fits

LEMMA Outcomes ==
  /\ Told(<<"run_failed">>, "failed")
  /\ Told(<<"awaiting_human">>, "awaiting_human")
  /\ Told(<<"human_decision", "run_completed">>, "completed")
  /\ Told(<<"human_decision", "run_rejected">>, "rejected")
BY DEF Told, Fits, Presented

\* Moving the first event to write to the log tells nothing new.
LEMMA ToldNext ==
  ASSUME NEW l \in Seq(Events), NEW s \in Seq(Events), s /= <<>>, NEW status,
         Told(l, status), Told(s, status)
  PROVE  /\ Told(Append(l, Head(s)), status)
         /\ Told(Tail(s), status)
         /\ Presents(Append(l, Head(s))) => Presents(l) \/ Head(s) = "awaiting_human"
<1>1. Len(s) \in Nat /\ Len(s) >= 1 /\ DOMAIN s = 1..Len(s) /\ Head(s) = s[1]
  OBVIOUS
<1>2. DOMAIN Tail(s) = 1..(Len(s) - 1) /\ \A i \in 1..(Len(s) - 1) : Tail(s)[i] = s[i + 1]
  BY <1>1
<1>3. \A i \in DOMAIN Tail(s) : i + 1 \in DOMAIN s /\ Tail(s)[i] = s[i + 1]
  BY <1>1, <1>2
<1>4. \A i \in DOMAIN Append(l, Head(s)) :
        \/ i \in DOMAIN l /\ Append(l, Head(s))[i] = l[i]
        \/ Append(l, Head(s))[i] = Head(s)
  <2>1. Head(s) \in Events
    BY <1>1
  <2> QED
    BY <2>1
<1>5. 1 \in DOMAIN s
  BY <1>1
<1> QED
  BY <1>1, <1>3, <1>4, <1>5 DEF Told, Presents

LEMMA CommitLog ==
  ASSUME TypeInv, NEW r \in Runs, NEW row, NEW events, NEW next, NEW onFault,
         Commit(r, row, events, next, onFault), LogOf(r), queue[r] = <<>>,
         disk[r].status \notin FinalStatuses,
         row.status \in Presented \/ ~Presents(log[r]),
         Told(events, row.status),
         Presents(events) => events = <<"awaiting_human">> /\ ~Presents(log[r]),
         next /= "fail",
         onFault = "fail" => ~Presents(log[r])
  PROVE  LogOf(r)'
<1>1. CASE disk'[r] = row /\ queue'[r] = events /\ pc'[r] = next
  <2>1. Told(log[r], row.status)
    BY ToldMoves DEF LogOf
  <2> QED
    BY <1>1, <2>1, CommitOwn DEF LogOf
<1>2. CASE disk'[r] = disk[r] /\ queue'[r] = queue[r] /\ pc'[r] = onFault
  BY <1>2, CommitOwn, QuietEvents DEF LogOf
<1> QED
  BY <1>1, <1>2, CommitOwn

LEMMA LogStep ==
  ASSUME TypeInv, NEW r \in Runs, StepOf(r), StageOf(r), LogOf(r),
         process = "booting" => pc[r] = "idle"
  PROVE  LogOf(r)'
<1> USE LabelNames DEF loopVars, localVars
<1>0. disk[r] \in Row /\ mem[r] \in Row /\ queue[r] \in Seq(Events) /\ log[r] \in Seq(Events)
  BY DEF TypeInv, TypeOK
<1>a. ASSUME Under(r)
      PROVE  /\ disk[r].status \notin FinalStatuses /\ ~Presents(log[r])
             /\ mem[r].status \in ActiveStatuses
  BY <1>a, NothingToldEarly DEF StageOf, LogOf, ActiveStatuses, FinalStatuses
<1>1. CASE LogEvent(r)
  <2>1. /\ log'[r] = Append(log[r], Head(queue[r])) /\ queue'[r] = Tail(queue[r])
        /\ disk'[r] = disk[r] /\ pc'[r] = pc[r] /\ queue[r] /= <<>>
    BY <1>1 DEF LogEvent, TypeInv, TypeOK
  <2>2. Told(log'[r], disk'[r].status) /\ Told(queue'[r], disk'[r].status)
    BY <1>0, <2>1, ToldNext DEF LogOf
  <2>3. ~Presents(queue'[r])
    <3>1. CASE Presents(queue[r])
      <4>1. queue[r] = <<"awaiting_human">> /\ Tail(<<"awaiting_human">>) = <<>>
        BY <3>1 DEF LogOf
      <4> QED
        BY <2>1, <4>1, QuietEvents
    <3>2. CASE ~Presents(queue[r])
      BY <1>0, <2>1, <3>2, TailQuiet
    <3> QED
      BY <3>1, <3>2
  <2> QED
    BY <2>1, <2>2, <2>3 DEF LogOf
<1>2. CASE EventFault(r)
  <2>1. /\ queue'[r] = <<>> /\ log'[r] = log[r] /\ disk'[r] = disk[r] /\ queue[r] /= <<>>
        /\ pc'[r] = "fail" => pc[r] \in PipelineLabels \/ Head(queue[r]) = "awaiting_human"
    BY <1>2 DEF EventFault, TypeInv, TypeOK
  <2>2. pc'[r] = "fail" => ~Presents(log[r])
    BY <1>0, <1>a, <2>1, TailQuiet DEF LogOf, Under
  <2> QED
    BY <2>1, <2>2, PlainEvents, QuietEvents DEF LogOf
<1>3. CASE CreateTask(r) \/ FreeSlot(r) \/ ToolWrites(r)
  BY <1>3 DEF CreateTask, FreeSlot, ToolWrites, TypeInv, TypeOK, LogOf
<1>4. CASE StageAborts(r)
  <2>1. /\ pc[r] \in AwaitLabels /\ pc'[r] = "fail" /\ queue[r] = <<>>
        /\ queue' = queue /\ log' = log /\ disk' = disk
    BY <1>4 DEF StageAborts, Resumes, Continues, TypeInv, TypeOK
  <2> QED
    BY <1>a, <2>1 DEF Under, AwaitLabels, LogOf
<1>5. ASSUME NEW events, NEW next, Proceed(r, events, next), next /= "fail",
             Told(events, disk[r].status), ~Presents(events)
      PROVE  LogOf(r)'
  <2>1. /\ queue'[r] = events /\ pc'[r] = next /\ log'[r] = log[r] /\ disk'[r] = disk[r]
    BY <1>5 DEF Proceed, TypeInv, TypeOK
  <2> QED
    BY <1>5, <2>1 DEF LogOf
<1>6. CASE BeginPipeline(r) \/ Dispatch(r) \/ Revise(r) \/ SkipRevision(r)
  BY <1>5, <1>6, PlainEvents, QuietEvents DEF BeginPipeline, Dispatch, Revise, SkipRevision
<1>7. ASSUME NEW row, NEW events, NEW next, Commit(r, row, events, next, "fail"),
             pc[r] \in PipelineLabels, queue[r] = <<>>, next /= "fail",
             Told(events, row.status),
             Presents(events) => events = <<"awaiting_human">>
      PROVE  LogOf(r)'
  BY <1>7, <1>a, CommitLog DEF Under
<1>8. CASE PlanReturns(r)
  <2> DEFINE row == [mem[r] EXCEPT !.status = "working"]
  <2>1. /\ Commit(r, row, <<"planner_completed", "worker_started">>, "dispatch", "fail")
        /\ pc[r] = "plan" /\ queue[r] = <<>>
    BY <1>8 DEF PlanReturns, Resumes, Continues
  <2> HIDE DEF row
  <2> QED
    BY <1>7, <2>1, PlainEvents, QuietEvents
<1>9. CASE Replan(r)
  <2> DEFINE row == [mem[r] EXCEPT !.status = "planning"]
  <2>1. /\ Commit(r, row, <<"planner_started">>, "plan", "fail")
        /\ pc[r] = "replan" /\ queue[r] = <<>>
    BY <1>9 DEF Replan, Continues
  <2> HIDE DEF row
  <2> QED
    BY <1>7, <2>1, PlainEvents, QuietEvents
<1>10. ASSUME NEW parsed, NEW passed, NEW acts,
              NEW event \in {"worker_completed", "worker_failed"},
              pc[r] = "work", queue[r] = <<>>, WorkEnds(r, parsed, acts, passed, event)
       PROVE  LogOf(r)'
  <2> DEFINE row == [mem[r] EXCEPT
                       !.status = "reviewing",
                       !.result = [of |-> attempt[r], parsed |-> parsed,
                                   actions |-> acts],
                       !.checks = [of |-> attempt[r], passed |-> passed]]
  <2>1. Commit(r, row, <<event, "checks_completed", "reviewer_started">>, "review", "fail")
    BY <1>10 DEF WorkEnds
  <2> HIDE DEF row
  <2> QED
    BY <1>7, <1>10, <2>1, PlainEvents, QuietEvents
<1>11. CASE \E parsed, passed \in BOOLEAN, acts \in SUBSET Actions :
              WorkReturns(r, parsed, acts, passed)
  BY <1>10, <1>11 DEF WorkReturns, Resumes, Continues
<1>12. CASE WorkFails(r)
  BY <1>10, <1>12 DEF WorkFails, Resumes, Continues
<1>13. ASSUME NEW verdict \in Verdicts, ReviewReturns(r, verdict)
       PROVE  LogOf(r)'
  <2> DEFINE row == [mem[r] EXCEPT !.review =
                       [of |-> attempt[r],
                        verdict |-> CheckFloor(verdict, mem[r].checks.passed)]]
  <2>1. /\ Commit(r, row, <<"review_completed">>, "settle", "fail")
        /\ pc[r] = "review" /\ queue[r] = <<>>
    BY <1>13 DEF ReviewReturns, Resumes, Continues
  <2> HIDE DEF row
  <2> QED
    BY <1>7, <2>1, PlainEvents, QuietEvents
<1>14. CASE Propose(r)
  <2> DEFINE row == [mem[r] EXCEPT !.status = "awaiting_human",
                                   !.proposed = mem[r].result.actions]
  <2>1. row.status = "awaiting_human"
    BY <1>0 DEF Row
  <2>2. /\ Commit(r, row, <<"awaiting_human">>, "idle", "fail")
        /\ pc[r] \in {"propose", "settle"} /\ queue[r] = <<>>
    BY <1>14 DEF Propose, Continues
  <2> HIDE DEF row
  <2> QED
    BY <1>7, <2>1, <2>2, Outcomes
<1>15. CASE Fail(r)
  <2> DEFINE row == [mem[r] EXCEPT !.status = "failed"]
  <2>1. row.status = "failed"
    BY <1>0 DEF Row
  <2>2. /\ Commit(r, row, <<"run_failed">>, "idle", "idle")
        /\ pc[r] = "fail" /\ queue[r] = <<>>
    BY <1>15 DEF Fail, Continues
  <2> HIDE DEF row
  <2>3. ~Presents(log[r]) /\ disk[r].status \notin FinalStatuses
    BY <2>2 DEF LogOf, StageOf, Open, ActiveStatuses, FinalStatuses
  <2> QED
    BY <2>1, <2>2, <2>3, CommitLog, Outcomes, QuietEvents
<1>16. CASE Start(r)
  <2>1. /\ Commit(r, NewRow, <<"run_created">>, "create", "idle")
        /\ disk[r].status = "none" /\ queue[r] = <<>>
    BY <1>16 DEF Start, Resumes, Continues
  <2>2. ~Presents(log[r]) /\ disk[r].status \notin FinalStatuses
    BY <2>1, NothingToldEarly DEF LogOf, FinalStatuses
  <2> QED
    BY <2>1, <2>2, CommitLog, PlainEvents, QuietEvents
<1>17. ASSUME NEW d \in Decisions, NEW acts \in SUBSET Actions, Decide(r, d, acts)
       PROVE  LogOf(r)'
  <2> DEFINE status == IF d = "reject" THEN "rejected" ELSE "completed"
             final == IF d = "reject" THEN "run_rejected" ELSE "run_completed"
             row == [disk[r] EXCEPT !.status = status, !.decision = d, !.approved = acts]
  <2>1. /\ row.status \in Presented
        /\ Told(<<"human_decision", final>>, row.status)
        /\ ~Presents(<<"human_decision", final>>)
    BY <1>0, Outcomes, QuietEvents DEF Row, Presented
  <2>2. /\ Commit(r, row, <<"human_decision", final>>, "idle", "idle")
        /\ disk[r].status = "awaiting_human" /\ queue[r] = <<>>
    BY <1>17 DEF Decide, Resumes, Continues
  <2> HIDE DEF row, final, status
  <2> QED
    BY <2>1, <2>2, CommitLog DEF FinalStatuses
<1>18. CASE FailInterrupted(r)
  <2>1. /\ disk'[r].status = "failed" /\ pc'[r] = "idle" /\ log'[r] = log[r]
        /\ queue'[r] = <<"run_failed">> /\ disk[r].status \in ActiveStatuses
    BY <1>18, <1>0 DEF FailInterrupted, TypeInv, TypeOK, Row
  <2>2. Told(log'[r], "failed")
    BY <2>1, NothingToldEarly, ToldMoves DEF LogOf, ActiveStatuses, FinalStatuses
  <2> QED
    BY <2>1, <2>2, Outcomes, QuietEvents DEF LogOf
<1> QED
  BY <1>1, <1>2, <1>3, <1>4, <1>6, <1>8, <1>9, <1>11, <1>12, <1>13, <1>14, <1>15, <1>16,
     <1>17, <1>18 DEF StepOf, TaskStep, ClientStep

LogInv == \A r \in Runs : LogOf(r)

LEMMA LogNext ==
  TypeInv /\ DownInv /\ StageInv /\ LogInv /\ [Next]_vars => LogInv'
<1> SUFFICES ASSUME TypeInv, DownInv, StageInv, LogInv, [Next]_vars PROVE LogInv'
  OBVIOUS
<1> USE DEF LogInv, StageInv
<1>1. CASE UNCHANGED vars \/ Boot \/ Serve
  BY <1>1 DEF vars, Boot, Serve, LogOf
<1>2. CASE Crash
  BY <1>2, PlainEvents, QuietEvents DEF Crash, LogOf
<1>3. ASSUME NEW r \in Runs, StepOf(r), NEW q \in Runs PROVE LogOf(q)'
  <2>1. CASE q = r
    BY <1>3, <2>1, LogStep DEF DownInv
  <2>2. CASE q /= r
    BY <1>3, <2>2, Locality DEF LogOf
  <2> QED
    BY <2>1, <2>2
<1> QED
  BY <1>1, <1>2, <1>3, NextCases

\* The audit log never reports an outcome the run table does not hold, whichever
\* write a crash or a store fault falls before.
THEOREM LogsAreTrue == Spec => []LogNeverAheadOfRow
<1>1. Init => DownInv /\ StageInv /\ LogInv
  BY QuietEvents, LabelNames, PlainEvents
     DEF Init, DownInv, StageInv, StageOf, Under, NoRow, NewRow, LogInv, LogOf
<1>2. LogInv => LogNeverAheadOfRow
  BY DEF LogInv, LogOf, Told, Fits, Presented, LogNeverAheadOfRow
<1> QED
  BY <1>1, <1>2, TypeInit, TypeNext, DownNext, StageNext, LogNext, PTL DEF Spec

-----------------------------------------------------------------------------
(* Decisions.  Only Decide writes a decision, and no record that the code   *)
(* goes on to save comes from a decided row.                                *)

Undecided(row) == row.decision = "none" /\ row.approved = {}

VoteOf(r) ==
  /\ disk[r].status \notin {"completed", "rejected"} => Undecided(disk[r])
  /\ Under(r) \/ pc[r] = "fail" \/ Presents(queue[r]) => Undecided(mem[r])

LEMMA CommitVote ==
  ASSUME TypeInv, NEW r \in Runs, NEW row, NEW events, NEW next, NEW onFault,
         Commit(r, row, events, next, onFault), VoteOf(r), queue[r] = <<>>,
         \/ Undecided(row)
         \/ /\ row.status \in {"completed", "rejected"}
            /\ next = "idle" /\ onFault = "idle" /\ ~Presents(events)
  PROVE  VoteOf(r)'
<1> USE LabelNames
<1>1. CASE disk'[r] = row /\ queue'[r] = events /\ pc'[r] = next
  BY <1>1, CommitOwn DEF VoteOf, Under
<1>2. CASE disk'[r] = disk[r] /\ queue'[r] = queue[r] /\ pc'[r] = onFault
  BY <1>2, CommitOwn, QuietEvents DEF VoteOf, Under
<1> QED
  BY <1>1, <1>2, CommitOwn

LEMMA VoteStep ==
  ASSUME TypeInv, NEW r \in Runs, StepOf(r), StageOf(r), VoteOf(r),
         process = "booting" => pc[r] = "idle"
  PROVE  VoteOf(r)'
<1> USE LabelNames DEF loopVars, localVars
<1>0. disk[r] \in Row /\ mem[r] \in Row /\ queue[r] \in Seq(Events)
  BY DEF TypeInv, TypeOK
<1>1. CASE LogEvent(r) \/ ToolWrites(r) \/ FreeSlot(r)
  <2>1. /\ pc' = pc /\ mem' = mem /\ disk' = disk
        /\ \/ queue' = queue
           \/ queue[r] /= <<>> /\ queue'[r] = Tail(queue[r])
    BY <1>1 DEF LogEvent, ToolWrites, FreeSlot, TypeInv, TypeOK
  <2>2. Presents(queue'[r]) => Presents(queue[r])
    BY <1>0, <2>1, TailQuiet
  <2> QED
    BY <2>1, <2>2 DEF VoteOf, Under
<1>2. CASE EventFault(r)
  <2>1. /\ queue'[r] = <<>> /\ mem' = mem /\ disk' = disk /\ queue[r] /= <<>>
        /\ \/ pc'[r] = "idle"
           \/ pc'[r] = "fail" /\ (pc[r] \in PipelineLabels \/ Head(queue[r]) = "awaiting_human")
    BY <1>2 DEF EventFault, TypeInv, TypeOK
  <2>2. pc'[r] = "fail" => Undecided(mem[r])
    BY <1>0, <2>1, TailQuiet DEF VoteOf, Under
  <2> QED
    BY <2>1, <2>2, QuietEvents DEF VoteOf, Under
<1>3. CASE CreateTask(r) \/ StageAborts(r)
  BY <1>3, QuietEvents DEF CreateTask, StageAborts, Resumes, Continues, AwaitLabels,
     TypeInv, TypeOK, VoteOf, Under
<1>4. ASSUME NEW events, NEW next, Proceed(r, events, next), ~Presents(events),
             Under(r), Undecided(mem'[r])
      PROVE  VoteOf(r)'
  <2>1. queue'[r] = events /\ pc'[r] = next /\ disk'[r] = disk[r]
    BY <1>4 DEF Proceed, TypeInv, TypeOK
  <2> QED
    BY <1>4, <2>1 DEF VoteOf
<1>5. CASE BeginPipeline(r) \/ Revise(r) \/ SkipRevision(r)
  <2>1. Under(r) /\ mem' = mem
    BY <1>5 DEF BeginPipeline, Revise, SkipRevision, Resumes, Continues, Under
  <2> QED
    BY <1>4, <1>5, <2>1, QuietEvents DEF BeginPipeline, Revise, SkipRevision, VoteOf
<1>6. CASE Dispatch(r)
  <2>1. Under(r)
    BY <1>6 DEF Dispatch, Continues, Under
  <2>2. mem'[r].decision = mem[r].decision /\ mem'[r].approved = mem[r].approved
    BY <1>6, <1>0 DEF Dispatch, TypeInv, TypeOK, Row
  <2>3. Undecided(mem'[r])
    BY <2>1, <2>2 DEF VoteOf, Undecided
  <2> QED
    BY <1>4, <1>6, <2>1, <2>3, QuietEvents DEF Dispatch
<1>7. CASE PlanReturns(r)
  <2> DEFINE row == [mem[r] EXCEPT !.status = "working"]
  <2>1. row.decision = mem[r].decision /\ row.approved = mem[r].approved
    BY <1>0 DEF Row
  <2>2. /\ Commit(r, row, <<"planner_completed", "worker_started">>, "dispatch", "fail")
        /\ pc[r] = "plan" /\ queue[r] = <<>>
    BY <1>7 DEF PlanReturns, Resumes, Continues
  <2> HIDE DEF row
  <2>3. Undecided(row)
    BY <2>1, <2>2 DEF VoteOf, Under, Undecided
  <2> QED
    BY <2>2, <2>3, CommitVote
<1>8. CASE Replan(r)
  <2> DEFINE row == [mem[r] EXCEPT !.status = "planning"]
  <2>1. row.decision = mem[r].decision /\ row.approved = mem[r].approved
    BY <1>0 DEF Row
  <2>2. /\ Commit(r, row, <<"planner_started">>, "plan", "fail")
        /\ pc[r] = "replan" /\ queue[r] = <<>>
    BY <1>8 DEF Replan, Continues
  <2> HIDE DEF row
  <2>3. Undecided(row)
    BY <2>1, <2>2 DEF VoteOf, Under, Undecided
  <2> QED
    BY <2>2, <2>3, CommitVote
<1>9. ASSUME NEW parsed, NEW passed, NEW acts, NEW event,
             pc[r] = "work", queue[r] = <<>>, WorkEnds(r, parsed, acts, passed, event)
      PROVE  VoteOf(r)'
  <2> DEFINE row == [mem[r] EXCEPT
                       !.status = "reviewing",
                       !.result = [of |-> attempt[r], parsed |-> parsed,
                                   actions |-> acts],
                       !.checks = [of |-> attempt[r], passed |-> passed]]
  <2>1. row.decision = mem[r].decision /\ row.approved = mem[r].approved
    BY <1>0 DEF Row
  <2>2. Commit(r, row, <<event, "checks_completed", "reviewer_started">>, "review", "fail")
    BY <1>9 DEF WorkEnds
  <2> HIDE DEF row
  <2>3. Undecided(row)
    BY <1>9, <2>1 DEF VoteOf, Under, Undecided
  <2> QED
    BY <1>9, <2>2, <2>3, CommitVote
<1>10. CASE \E parsed, passed \in BOOLEAN, acts \in SUBSET Actions :
              WorkReturns(r, parsed, acts, passed)
  BY <1>9, <1>10 DEF WorkReturns, Resumes, Continues
<1>11. CASE WorkFails(r)
  BY <1>9, <1>11 DEF WorkFails, Resumes, Continues
<1>12. ASSUME NEW verdict \in Verdicts, ReviewReturns(r, verdict)
       PROVE  VoteOf(r)'
  <2> DEFINE row == [mem[r] EXCEPT !.review =
                       [of |-> attempt[r],
                        verdict |-> CheckFloor(verdict, mem[r].checks.passed)]]
  <2>1. row.decision = mem[r].decision /\ row.approved = mem[r].approved
    BY <1>0 DEF Row
  <2>2. /\ Commit(r, row, <<"review_completed">>, "settle", "fail")
        /\ pc[r] = "review" /\ queue[r] = <<>>
    BY <1>12 DEF ReviewReturns, Resumes, Continues
  <2> HIDE DEF row
  <2>3. Undecided(row)
    BY <2>1, <2>2 DEF VoteOf, Under, Undecided
  <2> QED
    BY <2>2, <2>3, CommitVote
<1>13. CASE Propose(r)
  <2> DEFINE row == [mem[r] EXCEPT !.status = "awaiting_human",
                                   !.proposed = mem[r].result.actions]
  <2>1. row.decision = mem[r].decision /\ row.approved = mem[r].approved
    BY <1>0 DEF Row
  <2>2. /\ Commit(r, row, <<"awaiting_human">>, "idle", "fail")
        /\ pc[r] \in {"propose", "settle"} /\ queue[r] = <<>>
    BY <1>13 DEF Propose, Continues
  <2> HIDE DEF row
  <2>3. Undecided(row)
    BY <2>1, <2>2 DEF VoteOf, Under, Undecided
  <2> QED
    BY <2>2, <2>3, CommitVote
<1>14. CASE Fail(r)
  <2> DEFINE row == [mem[r] EXCEPT !.status = "failed"]
  <2>1. row.decision = mem[r].decision /\ row.approved = mem[r].approved
    BY <1>0 DEF Row
  <2>2. /\ Commit(r, row, <<"run_failed">>, "idle", "idle")
        /\ pc[r] = "fail" /\ queue[r] = <<>>
    BY <1>14 DEF Fail, Continues
  <2> HIDE DEF row
  <2>3. Undecided(row)
    BY <2>1, <2>2 DEF VoteOf, Undecided
  <2> QED
    BY <2>2, <2>3, CommitVote
<1>15. CASE Start(r)
  <2>1. Commit(r, NewRow, <<"run_created">>, "create", "idle") /\ queue[r] = <<>>
    BY <1>15 DEF Start, Resumes, Continues
  <2>2. Undecided(NewRow)
    BY DEF NewRow, Undecided
  <2> QED
    BY <2>1, <2>2, CommitVote
<1>16. ASSUME NEW d \in Decisions, NEW acts \in SUBSET Actions, Decide(r, d, acts)
       PROVE  VoteOf(r)'
  <2> DEFINE status == IF d = "reject" THEN "rejected" ELSE "completed"
             final == IF d = "reject" THEN "run_rejected" ELSE "run_completed"
             row == [disk[r] EXCEPT !.status = status, !.decision = d, !.approved = acts]
  <2>1. /\ row.status \in {"completed", "rejected"}
        /\ ~Presents(<<"human_decision", final>>)
    BY <1>0, QuietEvents DEF Row
  <2>2. Commit(r, row, <<"human_decision", final>>, "idle", "idle") /\ queue[r] = <<>>
    BY <1>16 DEF Decide, Resumes, Continues
  <2> HIDE DEF row, final, status
  <2> QED
    BY <2>1, <2>2, CommitVote
<1>17. CASE FailInterrupted(r)
  <2>1. /\ disk'[r].decision = disk[r].decision /\ disk'[r].approved = disk[r].approved
        /\ queue'[r] = <<"run_failed">> /\ pc'[r] = "idle"
        /\ disk[r].status \in ActiveStatuses
    BY <1>17, <1>0 DEF FailInterrupted, TypeInv, TypeOK, Row
  <2> QED
    BY <2>1, QuietEvents DEF VoteOf, Under, Undecided, ActiveStatuses
<1> QED
  BY <1>1, <1>2, <1>3, <1>5, <1>6, <1>7, <1>8, <1>10, <1>11, <1>12, <1>13, <1>14, <1>15,
     <1>16, <1>17 DEF StepOf, TaskStep, ClientStep

VoteInv == \A r \in Runs : VoteOf(r)

LEMMA VoteNext ==
  TypeInv /\ DownInv /\ StageInv /\ VoteInv /\ [Next]_vars => VoteInv'
<1> SUFFICES ASSUME TypeInv, DownInv, StageInv, VoteInv, [Next]_vars PROVE VoteInv'
  OBVIOUS
<1> USE LabelNames DEF VoteInv, StageInv
<1>1. CASE UNCHANGED vars \/ Boot \/ Serve
  BY <1>1 DEF vars, Boot, Serve, VoteOf, Under
<1>2. CASE Crash
  BY <1>2, QuietEvents DEF Crash, VoteOf, Under
<1>3. ASSUME NEW r \in Runs, StepOf(r), NEW q \in Runs PROVE VoteOf(q)'
  <2>1. CASE q = r
    BY <1>3, <2>1, VoteStep DEF DownInv
  <2>2. CASE q /= r /\ process = "up"
    BY <1>3, <2>2, Locality DEF VoteOf, Under
  <2>3. CASE q /= r /\ process /= "up"
    <3>1. mem' = mem \/ mem' = disk'
      BY <1>3, <2>3, StepBeforeUp DEF LogEvent, FailInterrupted
    <3>2. pc'[q] = "idle" /\ queue'[q] = queue[q] /\ disk'[q] = disk[q]
      BY <1>3, <2>3, Locality DEF DownInv
    <3> QED
      BY <3>1, <3>2 DEF VoteOf, Under, StageOf
  <2> QED
    BY <2>1, <2>2, <2>3
<1> QED
  BY <1>1, <1>2, <1>3, NextCases

-----------------------------------------------------------------------------
(* The run lifecycle.  What a client sees of a run is a function of its row *)
(* and of whether the code that saved it is still at work; each step leaves *)
(* it alone or is the step of RunLifecycle named here.                      *)

PhaseFor(row, presenting) ==
  CASE row.status \in ActiveStatuses -> "active"
    [] row.status = "awaiting_human" -> IF presenting THEN "active" ELSE "awaiting"
    [] OTHER -> row.status

ShownFor(row, presenting) ==
  IF PhaseFor(row, presenting) \in {"awaiting", "completed", "rejected"}
  THEN row.proposed ELSE {}

LEMMA SeenIn ==
  ASSUME NEW row, NEW p \in BOOLEAN
  PROVE  /\ row.status \in ActiveStatuses =>
              PhaseFor(row, p) = "active" /\ ShownFor(row, p) = {}
         /\ row.status = "awaiting_human" /\ p =>
              PhaseFor(row, p) = "active" /\ ShownFor(row, p) = {}
         /\ row.status = "awaiting_human" /\ ~p =>
              PhaseFor(row, p) = "awaiting" /\ ShownFor(row, p) = row.proposed
         /\ row.status \in {"none", "failed"} =>
              PhaseFor(row, p) = row.status /\ ShownFor(row, p) = {}
         /\ row.status \in {"completed", "rejected"} =>
              PhaseFor(row, p) = row.status /\ ShownFor(row, p) = row.proposed
BY DEF PhaseFor, ShownFor, ActiveStatuses

LEMMA SeenOf ==
  ASSUME NEW r \in Runs
  PROVE  /\ PhaseOf(r) = PhaseFor(disk[r], Presenting(r))
         /\ ShownOf(r) = ShownFor(disk[r], Presenting(r))
         /\ PhaseOf(r)' = PhaseFor(disk'[r], Presenting(r)')
         /\ ShownOf(r)' = ShownFor(disk'[r], Presenting(r)')
         /\ Presenting(r) \in BOOLEAN /\ Presenting(r)' \in BOOLEAN
BY DEF PhaseOf, ShownOf, PhaseFor, ShownFor, Presenting

SameVote(r) == /\ disk'[r].decision = disk[r].decision
               /\ disk'[r].approved = disk[r].approved

SameView(r) == PhaseOf(r)' = PhaseOf(r) /\ ShownOf(r)' = ShownOf(r) /\ SameVote(r)

Created(r) == /\ PhaseOf(r) = "none" /\ PhaseOf(r)' = "active"
              /\ ShownOf(r)' = ShownOf(r) /\ SameVote(r)

Shown(r) == /\ PhaseOf(r) = "active" /\ PhaseOf(r)' = "awaiting"
            /\ ShownOf(r)' \in SUBSET Actions /\ SameVote(r)

Failed(r) == /\ PhaseOf(r) = "active" /\ PhaseOf(r)' = "failed"
             /\ ShownOf(r)' = ShownOf(r) /\ SameVote(r)

Decided(r) ==
  /\ PhaseOf(r) = "awaiting" /\ ShownOf(r)' = ShownOf(r)
  /\ \/ PhaseOf(r)' = "completed" /\ disk'[r].decision = "approve"
        /\ disk'[r].approved = ShownOf(r)
     \/ PhaseOf(r)' = "completed" /\ disk'[r].decision = "correct"
        /\ disk'[r].approved \in SUBSET Actions
     \/ PhaseOf(r)' = "completed" /\ disk'[r].decision = "partial"
        /\ disk'[r].approved \in (SUBSET ShownOf(r)) \ {{}}
     \/ PhaseOf(r)' = "rejected" /\ disk'[r].decision = "reject"
        /\ disk'[r].approved = {}

ViewStep(r) == SameView(r) \/ Created(r) \/ Shown(r) \/ Failed(r) \/ Decided(r)

\* A step that changes only one run's view, and that as above, is a step of
\* RunLifecycle.
LEMMA ViewNext ==
  ASSUME NEW r \in Runs, ViewStep(r), \A q \in Runs \ {r} : SameView(q)
  PROVE  [Lifecycle!Next]_(Lifecycle!runVars)
<1> DEFINE phase == [q \in Runs |-> PhaseOf(q)]
           shown == [q \in Runs |-> ShownOf(q)]
           decision == [q \in Runs |-> disk[q].decision]
           approved == [q \in Runs |-> disk[q].approved]
<1>1. /\ phase' = [phase EXCEPT ![r] = PhaseOf(r)']
      /\ shown' = [shown EXCEPT ![r] = ShownOf(r)']
      /\ decision' = [decision EXCEPT ![r] = disk'[r].decision]
      /\ approved' = [approved EXCEPT ![r] = disk'[r].approved]
  BY DEF SameView, SameVote
<1>2. /\ ShownOf(r)' = ShownOf(r) => shown' = shown
      /\ SameVote(r) => decision' = decision /\ approved' = approved
      /\ PhaseOf(r)' = PhaseOf(r) => phase' = phase
  BY DEF SameView, SameVote
<1>3. /\ phase[r] = PhaseOf(r) /\ shown[r] = ShownOf(r)
  OBVIOUS
<1> HIDE DEF phase, shown, decision, approved
<1> USE DEF Lifecycle!Move
<1>4. CASE SameView(r)
  <2>1. phase' = phase /\ shown' = shown /\ decision' = decision /\ approved' = approved
    BY <1>2, <1>4 DEF SameView
  <2> QED
    BY <2>1 DEF Lifecycle!runVars, phase, shown, decision, approved
<1>5. CASE Created(r)
  <2>1. /\ phase[r] = "none" /\ phase' = [phase EXCEPT ![r] = "active"]
        /\ shown' = shown /\ decision' = decision /\ approved' = approved
    BY <1>1, <1>2, <1>3, <1>5 DEF Created
  <2>2. Lifecycle!Create(r)
    BY <2>1 DEF Lifecycle!Create, phase, shown, decision, approved
  <2> QED
    BY <2>2 DEF Lifecycle!Next
<1>6. CASE Shown(r)
  <2>1. /\ phase[r] = "active" /\ phase' = [phase EXCEPT ![r] = "awaiting"]
        /\ \E acts \in SUBSET Actions : shown' = [shown EXCEPT ![r] = acts]
        /\ decision' = decision /\ approved' = approved
    BY <1>1, <1>2, <1>3, <1>6 DEF Shown
  <2>2. Lifecycle!Present(r)
    BY <2>1 DEF Lifecycle!Present, phase, shown, decision, approved
  <2> QED
    BY <2>2 DEF Lifecycle!Next
<1>7. CASE Failed(r)
  <2>1. /\ phase[r] = "active" /\ phase' = [phase EXCEPT ![r] = "failed"]
        /\ shown' = shown /\ decision' = decision /\ approved' = approved
    BY <1>1, <1>2, <1>3, <1>7 DEF Failed
  <2>2. Lifecycle!Fail(r)
    BY <2>1 DEF Lifecycle!Fail, phase, shown, decision, approved
  <2> QED
    BY <2>2 DEF Lifecycle!Next
<1>8. CASE Decided(r)
  <2> DEFINE Vote(d, acts) == /\ decision' = [decision EXCEPT ![r] = d]
                              /\ approved' = [approved EXCEPT ![r] = acts]
                              /\ shown' = shown
  <2>1. phase[r] = "awaiting" /\ shown' = shown
    BY <1>2, <1>3, <1>8 DEF Decided
  <2>2. \/ phase' = [phase EXCEPT ![r] = "completed"] /\ Vote("approve", shown[r])
        \/ /\ phase' = [phase EXCEPT ![r] = "completed"]
           /\ \E acts \in SUBSET Actions : Vote("correct", acts)
        \/ /\ phase' = [phase EXCEPT ![r] = "completed"]
           /\ \E acts \in (SUBSET shown[r]) \ {{}} : Vote("partial", acts)
        \/ phase' = [phase EXCEPT ![r] = "rejected"] /\ Vote("reject", {})
    BY <1>1, <1>3, <1>8, <2>1 DEF Decided
  <2>3. \/ Lifecycle!Approve(r) \/ Lifecycle!Correct(r)
        \/ Lifecycle!AcceptPart(r) \/ Lifecycle!Reject(r)
    BY <2>1, <2>2 DEF Lifecycle!Approve, Lifecycle!Correct, Lifecycle!AcceptPart,
       Lifecycle!Reject, Lifecycle!Decide, phase, shown, decision, approved
  <2> QED
    BY <2>3 DEF Lifecycle!Next
<1> QED
  BY <1>4, <1>5, <1>6, <1>7, <1>8 DEF ViewStep

\* The row as it is, with no change in who is at work on it that a client sees.
LEMMA ViewKept ==
  ASSUME NEW r \in Runs, disk'[r] = disk[r],
         disk[r].status = "awaiting_human" => Presenting(r)' = Presenting(r)
  PROVE  SameView(r)
<1>1. disk[r].status /= "awaiting_human" =>
        /\ PhaseFor(disk[r], Presenting(r)') = PhaseFor(disk[r], Presenting(r))
        /\ ShownFor(disk[r], Presenting(r)') = ShownFor(disk[r], Presenting(r))
  BY DEF PhaseFor, ShownFor
<1> QED
  BY <1>1, SeenOf DEF SameView, SameVote

\* A save of the pipeline's is not seen before the code that made it is done.
LEMMA ViewWorked ==
  ASSUME NEW r \in Runs, disk[r].status \in ActiveStatuses, SameVote(r),
         \/ disk'[r].status \in ActiveStatuses
         \/ disk'[r].status = "awaiting_human" /\ Presenting(r)'
  PROVE  SameView(r)
BY SeenOf, SeenIn DEF SameView

\* The end of that stretch of code shows the run.
LEMMA ViewShown ==
  ASSUME TypeInv, NEW r \in Runs, disk'[r] = disk[r], disk[r].status = "awaiting_human",
         Presenting(r), ~Presenting(r)'
  PROVE  Shown(r)
<1>1. disk[r].proposed \in SUBSET Actions
  BY DEF TypeInv, TypeOK, Row
<1> QED
  BY <1>1, SeenOf, SeenIn DEF Shown, SameVote

LEMMA ViewOfStep ==
  ASSUME TypeInv, NEW r \in Runs, StepOf(r), StageOf(r), LogOf(r), VoteOf(r)
  PROVE  ViewStep(r)
<1> USE LabelNames DEF loopVars, localVars, ViewStep
<1>0. disk[r] \in Row /\ mem[r] \in Row /\ queue[r] \in Seq(Events)
  BY DEF TypeInv, TypeOK
<1>a. ASSUME Under(r)
      PROVE  /\ disk[r].status \in ActiveStatuses /\ mem[r].status \in ActiveStatuses
             /\ Undecided(disk[r]) /\ Undecided(mem[r])
  BY <1>a DEF StageOf, VoteOf, ActiveStatuses
<1>b. disk[r].status = "awaiting_human" => ~Under(r)
  BY <1>a DEF ActiveStatuses
<1>1. CASE LogEvent(r)
  <2>1. /\ queue'[r] = Tail(queue[r]) /\ disk'[r] = disk[r] /\ pc'[r] = pc[r]
        /\ queue[r] /= <<>>
    BY <1>1 DEF LogEvent, TypeInv, TypeOK
  <2>2. pc'[r] /= "fail"
    BY <2>1 DEF LogOf
  <2>3. ~Presents(queue'[r])
    <3>1. CASE Presents(queue[r])
      <4>1. queue[r] = <<"awaiting_human">> /\ Tail(<<"awaiting_human">>) = <<>>
        BY <3>1 DEF LogOf
      <4> QED
        BY <2>1, <4>1, QuietEvents
    <3>2. CASE ~Presents(queue[r])
      BY <1>0, <2>1, <3>2, TailQuiet
    <3> QED
      BY <3>1, <3>2
  <2>4. ~Presenting(r)'
    BY <2>2, <2>3 DEF Presenting, Presents
  <2> QED
    BY <2>1, <2>4, ViewKept, ViewShown, SeenOf
<1>2. CASE EventFault(r)
  <2>1. /\ queue'[r] = <<>> /\ disk'[r] = disk[r] /\ queue[r] /= <<>>
        /\ pc'[r] = IF pc[r] \in PipelineLabels \/ Head(queue[r]) = "awaiting_human"
                    THEN "fail" ELSE "idle"
    BY <1>2 DEF EventFault, TypeInv, TypeOK
  <2>2. Head(queue[r]) = "awaiting_human" <=> queue[r] = <<"awaiting_human">>
    <3>1. Head(<<"awaiting_human">>) = "awaiting_human"
      OBVIOUS
    <3> QED
      BY <1>0, <2>1, <3>1, TailQuiet DEF LogOf
  <2>3. disk[r].status = "awaiting_human" => Presenting(r)' = Presenting(r)
    BY <1>b, <2>1, <2>2 DEF Presenting, Under, LogOf
  <2> QED
    BY <2>1, <2>3, ViewKept
<1>3. CASE CreateTask(r) \/ BeginPipeline(r) \/ Dispatch(r) \/ Revise(r)
           \/ SkipRevision(r) \/ StageAborts(r)
  <2>1. Under(r) /\ disk' = disk
    BY <1>3 DEF CreateTask, BeginPipeline, Dispatch, Revise, SkipRevision, StageAborts,
       Proceed, Resumes, Continues, AwaitLabels, Under
  <2> QED
    BY <1>b, <2>1, ViewKept
<1>4. CASE FreeSlot(r) \/ ToolWrites(r)
  <2>1. disk' = disk /\ pc' = pc /\ queue' = queue
    BY <1>4 DEF FreeSlot, ToolWrites
  <2> QED
    BY <2>1, ViewKept DEF Presenting
<1>5. ASSUME NEW row, NEW events, NEW next, Commit(r, row, events, next, "fail"),
             Under(r), row.decision = mem[r].decision, row.approved = mem[r].approved,
             \/ row.status \in ActiveStatuses
             \/ row.status = "awaiting_human" /\ events = <<"awaiting_human">>
      PROVE  ViewStep(r)
  <2>1. CASE disk'[r] = row /\ queue'[r] = events
    BY <1>a, <1>5, <2>1, ViewWorked DEF SameVote, Undecided, Presenting
  <2>2. CASE disk'[r] = disk[r]
    BY <1>b, <1>5, <2>2, ViewKept
  <2> QED
    BY <1>5, <2>1, <2>2, CommitOwn
<1>6. CASE PlanReturns(r)
  <2> DEFINE row == [mem[r] EXCEPT !.status = "working"]
  <2>1. /\ row.decision = mem[r].decision /\ row.approved = mem[r].approved
        /\ row.status \in ActiveStatuses
    BY <1>0 DEF Row, ActiveStatuses
  <2>2. /\ Commit(r, row, <<"planner_completed", "worker_started">>, "dispatch", "fail")
        /\ Under(r)
    BY <1>6 DEF PlanReturns, Resumes, Continues, Under
  <2> HIDE DEF row
  <2> QED
    BY <1>5, <2>1, <2>2
<1>7. CASE Replan(r)
  <2> DEFINE row == [mem[r] EXCEPT !.status = "planning"]
  <2>1. /\ row.decision = mem[r].decision /\ row.approved = mem[r].approved
        /\ row.status \in ActiveStatuses
    BY <1>0 DEF Row, ActiveStatuses
  <2>2. Commit(r, row, <<"planner_started">>, "plan", "fail") /\ Under(r)
    BY <1>7 DEF Replan, Continues, Under
  <2> HIDE DEF row
  <2> QED
    BY <1>5, <2>1, <2>2
<1>8. ASSUME NEW parsed, NEW passed, NEW acts, NEW event,
             pc[r] = "work", WorkEnds(r, parsed, acts, passed, event)
      PROVE  ViewStep(r)
  <2> DEFINE row == [mem[r] EXCEPT
                       !.status = "reviewing",
                       !.result = [of |-> attempt[r], parsed |-> parsed,
                                   actions |-> acts],
                       !.checks = [of |-> attempt[r], passed |-> passed]]
  <2>1. /\ row.decision = mem[r].decision /\ row.approved = mem[r].approved
        /\ row.status \in ActiveStatuses
    BY <1>0 DEF Row, ActiveStatuses
  <2>2. /\ Commit(r, row, <<event, "checks_completed", "reviewer_started">>, "review", "fail")
        /\ Under(r)
    BY <1>8 DEF WorkEnds, Under
  <2> HIDE DEF row
  <2> QED
    BY <1>5, <2>1, <2>2
<1>9. CASE \E parsed, passed \in BOOLEAN, acts \in SUBSET Actions :
             WorkReturns(r, parsed, acts, passed)
  BY <1>8, <1>9 DEF WorkReturns, Resumes, Continues
<1>10. CASE WorkFails(r)
  BY <1>8, <1>10 DEF WorkFails, Resumes, Continues
<1>11. ASSUME NEW verdict \in Verdicts, ReviewReturns(r, verdict)
       PROVE  ViewStep(r)
  <2> DEFINE row == [mem[r] EXCEPT !.review =
                       [of |-> attempt[r],
                        verdict |-> CheckFloor(verdict, mem[r].checks.passed)]]
  <2>1. /\ row.decision = mem[r].decision /\ row.approved = mem[r].approved
        /\ row.status = mem[r].status
    BY <1>0 DEF Row
  <2>2. Commit(r, row, <<"review_completed">>, "settle", "fail") /\ Under(r)
    BY <1>11 DEF ReviewReturns, Resumes, Continues, Under
  <2> HIDE DEF row
  <2> QED
    BY <1>5, <1>a, <2>1, <2>2
<1>12. CASE Propose(r)
  <2> DEFINE row == [mem[r] EXCEPT !.status = "awaiting_human",
                                   !.proposed = mem[r].result.actions]
  <2>1. /\ row.decision = mem[r].decision /\ row.approved = mem[r].approved
        /\ row.status = "awaiting_human"
    BY <1>0 DEF Row
  <2>2. Commit(r, row, <<"awaiting_human">>, "idle", "fail") /\ Under(r)
    BY <1>12 DEF Propose, Continues, Under
  <2> HIDE DEF row
  <2> QED
    BY <1>5, <2>1, <2>2
<1>13. CASE Fail(r)
  <2> DEFINE row == [mem[r] EXCEPT !.status = "failed"]
  <2>1. /\ row.decision = mem[r].decision /\ row.approved = mem[r].approved
        /\ row.status = "failed"
    BY <1>0 DEF Row
  <2>2. /\ Commit(r, row, <<"run_failed">>, "idle", "idle")
        /\ pc[r] = "fail" /\ queue[r] = <<>>
    BY <1>13 DEF Fail, Continues
  <2> HIDE DEF row
  <2>3. Presenting(r) /\ disk[r].status \in Open /\ Undecided(disk[r]) /\ Undecided(mem[r])
    BY <2>2 DEF Presenting, StageOf, VoteOf, Open, ActiveStatuses
  <2>4. PhaseOf(r) = "active" /\ ShownOf(r) = {}
    BY <2>3, SeenOf, SeenIn DEF Open
  <2>5. CASE disk'[r] = row
    BY <2>1, <2>3, <2>4, <2>5, SeenOf, SeenIn DEF Failed, SameVote, Undecided
  <2>6. CASE disk'[r] = disk[r] /\ queue'[r] = queue[r] /\ pc'[r] = "idle"
    <3>1. ~Presenting(r)'
      BY <2>2, <2>6 DEF Presenting
    <3> QED
      BY <2>3, <2>6, <3>1, ViewKept, ViewShown
  <2> QED
    BY <2>2, <2>5, <2>6, CommitOwn
<1>14. CASE Start(r)
  <2>1. /\ Commit(r, NewRow, <<"run_created">>, "create", "idle")
        /\ disk[r].status = "none"
    BY <1>14 DEF Start
  <2>2. NewRow.status \in ActiveStatuses /\ Undecided(NewRow)
    BY DEF NewRow, ActiveStatuses, Undecided
  <2>3. CASE disk'[r] = NewRow
    <3>1. Undecided(disk[r]) /\ Undecided(disk'[r])
      BY <2>1, <2>2, <2>3 DEF VoteOf
    <3>2. PhaseOf(r) = "none" /\ ShownOf(r) = {}
      BY <2>1, SeenOf, SeenIn
    <3>3. PhaseOf(r)' = "active" /\ ShownOf(r)' = {}
      BY <2>2, <2>3, SeenOf, SeenIn
    <3> QED
      BY <3>1, <3>2, <3>3 DEF Created, SameVote, Undecided
  <2>4. CASE disk'[r] = disk[r]
    BY <2>1, <2>4, ViewKept
  <2> QED
    BY <2>1, <2>3, <2>4, CommitOwn
<1>15. ASSUME NEW d \in Decisions, NEW acts \in SUBSET Actions, Decide(r, d, acts)
       PROVE  ViewStep(r)
  <2> DEFINE status == IF d = "reject" THEN "rejected" ELSE "completed"
             final == IF d = "reject" THEN "run_rejected" ELSE "run_completed"
             row == [disk[r] EXCEPT !.status = status, !.decision = d, !.approved = acts]
  <2>1. /\ row.status = status /\ row.decision = d /\ row.approved = acts
        /\ row.proposed = disk[r].proposed
    BY <1>0 DEF Row
  <2>2. /\ Commit(r, row, <<"human_decision", final>>, "idle", "idle")
        /\ disk[r].status = "awaiting_human" /\ MayApprove(disk[r], d, acts)
        /\ pc[r] = "idle" /\ queue[r] = <<>>
    BY <1>15 DEF Decide, Resumes, Continues
  <2>3. status \in {"completed", "rejected"} /\ (status = "rejected" <=> d = "reject")
    OBVIOUS
  <2> HIDE DEF row, final, status
  <2>4. ~Presenting(r)
    BY <2>2 DEF Presenting
  <2>5. PhaseOf(r) = "awaiting" /\ ShownOf(r) = disk[r].proposed
    BY <2>2, <2>4, SeenOf, SeenIn
  <2>6. CASE disk'[r] = row
    <3>1. PhaseOf(r)' = status /\ ShownOf(r)' = disk[r].proposed
      BY <2>1, <2>3, <2>6, SeenOf, SeenIn
    <3> QED
      BY <2>1, <2>2, <2>3, <2>5, <2>6, <3>1 DEF Decided, MayApprove
  <2>7. CASE disk'[r] = disk[r] /\ queue'[r] = queue[r] /\ pc'[r] = "idle"
    BY <2>2, <2>7, ViewKept DEF Presenting
  <2> QED
    BY <2>2, <2>6, <2>7, CommitOwn
<1>16. CASE FailInterrupted(r)
  <2>1. /\ disk'[r].decision = disk[r].decision /\ disk'[r].approved = disk[r].approved
        /\ disk'[r].status = "failed" /\ disk[r].status \in ActiveStatuses
    BY <1>16, <1>0 DEF FailInterrupted, TypeInv, TypeOK, Row
  <2> QED
    BY <2>1, SeenOf, SeenIn DEF Failed, SameVote
<1> QED
  BY <1>1, <1>2, <1>3, <1>4, <1>6, <1>7, <1>9, <1>10, <1>11, <1>12, <1>13, <1>14, <1>15,
     <1>16 DEF StepOf, TaskStep, ClientStep

\* A crash ends the stretch of code that holds the loop, of one run at most.
LEMMA ViewOfCrash ==
  ASSUME TypeInv, LoopInv, Crash
  PROVE  [Lifecycle!Next]_(Lifecycle!runVars)
<1>1. ASSUME NEW q \in Runs
      PROVE  disk'[q] = disk[q] /\ ~Presenting(q)'
  BY <1>1 DEF Crash, Presenting
<1>2. ASSUME NEW q \in Runs, ~Presenting(q)
      PROVE  SameView(q)
  BY <1>1, <1>2, ViewKept, SeenOf
<1>3. CASE \A q \in Runs : SameView(q)
  BY <1>3 DEF SameView, SameVote, Lifecycle!runVars
<1>4. ASSUME NEW r \in Runs, ~SameView(r)
      PROVE  [Lifecycle!Next]_(Lifecycle!runVars)
  <2>1. Presenting(r) /\ disk[r].status = "awaiting_human"
    BY <1>1, <1>2, <1>4, ViewKept
  <2>2. ViewStep(r)
    BY <1>1, <2>1, ViewShown DEF ViewStep
  <2>3. ASSUME NEW q \in Runs \ {r} PROVE SameView(q)
    <3>1. \A p \in Runs : Presenting(p) => Busy(p)
      BY DEF Presenting, Busy, BusyLabels
    <3> QED
      BY <1>2, <2>1, <3>1 DEF LoopInv
  <2> QED
    BY <2>2, <2>3, ViewNext
<1> QED
  BY <1>3, <1>4

\* The engine with its store, its faults and its restarts implements the run
\* lifecycle that clients see: every step of it is one step of that lifecycle of
\* one run, or none.
THEOREM EngineImplementsLifecycle == Spec => ImplementsLifecycle
<1>1. Init => Lifecycle!Init
  <2> SUFFICES ASSUME Init PROVE Lifecycle!Init
    OBVIOUS
  <2>1. \A r \in Runs : /\ PhaseOf(r) = "none" /\ ShownOf(r) = {}
                        /\ disk[r].decision = "none" /\ disk[r].approved = {}
    <3>1. ASSUME NEW r \in Runs
          PROVE  disk[r].status = "none" /\ disk[r].decision = "none" /\ disk[r].approved = {}
      <4>1. disk[r] = NoRow
        BY DEF Init
      <4> QED
        BY <4>1 DEF NoRow, NewRow
    <3>2. ASSUME NEW r \in Runs PROVE PhaseOf(r) = "none"
      BY <3>1 DEF PhaseOf, ActiveStatuses
    <3>3. ASSUME NEW r \in Runs PROVE ShownOf(r) = {}
      BY <3>2 DEF ShownOf
    <3> QED
      BY <3>1, <3>2, <3>3
  <2> QED
    BY <2>1 DEF Lifecycle!Init
<1>2. Init => DownInv /\ LoopInv /\ StageInv /\ LogInv /\ VoteInv
  <2> SUFFICES ASSUME Init
               PROVE  DownInv /\ LoopInv /\ StageInv /\ LogInv /\ VoteInv
    OBVIOUS
  <2> USE LabelNames
  <2>1. process = "up"
    BY DEF Init
  <2>2. ASSUME NEW r \in Runs
        PROVE  /\ pc[r] = "idle" /\ queue[r] = <<>> /\ log[r] = <<>>
               /\ disk[r].decision = "none" /\ disk[r].approved = {}
    BY <2>2 DEF Init, NoRow, NewRow
  <2>3. DownInv /\ LoopInv
    BY <2>1, <2>2 DEF DownInv, LoopInv, Busy, BusyLabels
  <2>4. StageInv
    BY <2>2, QuietEvents DEF StageInv, StageOf, Under
  <2>5. LogInv
    BY <2>2, QuietEvents, PlainEvents DEF LogInv, LogOf
  <2>6. VoteInv
    BY <2>2, QuietEvents DEF VoteInv, VoteOf, Under, Undecided
  <2> QED
    BY <2>3, <2>4, <2>5, <2>6
<1>3. TypeInv /\ LoopInv /\ StageInv /\ LogInv /\ VoteInv /\ [Next]_vars
        => [Lifecycle!Next]_(Lifecycle!runVars)
  <2> SUFFICES ASSUME TypeInv, LoopInv, StageInv, LogInv, VoteInv, [Next]_vars
               PROVE  [Lifecycle!Next]_(Lifecycle!runVars)
    OBVIOUS
  <2>1. CASE UNCHANGED vars \/ Boot \/ Serve
    <3>1. ASSUME NEW q \in Runs PROVE SameView(q)
      <4>1. disk' = disk /\ pc' = pc /\ queue' = queue
        BY <2>1 DEF vars, Boot, Serve
      <4> QED
        BY <3>1, <4>1, ViewKept DEF Presenting
    <3> QED
      BY <3>1 DEF SameView, SameVote, Lifecycle!runVars
  <2>2. ASSUME NEW r \in Runs, StepOf(r)
        PROVE  [Lifecycle!Next]_(Lifecycle!runVars)
    <3>1. ViewStep(r)
      BY <2>2, ViewOfStep DEF StageInv, LogInv, VoteInv
    <3>2. ASSUME NEW q \in Runs \ {r} PROVE SameView(q)
      <4>1. disk'[q] = disk[q] /\ pc'[q] = pc[q] /\ queue'[q] = queue[q]
        BY <2>2, Locality
      <4> QED
        BY <4>1, ViewKept DEF Presenting
    <3> QED
      BY <3>1, <3>2, ViewNext
  <2> QED
    BY <2>1, <2>2, ViewOfCrash, NextCases
<1> QED
  BY <1>1, <1>2, <1>3, TypeInit, TypeNext, DownNext, LoopNext, StageNext, LogNext, VoteNext, PTL
     DEF Spec, ImplementsLifecycle, Lifecycle!Spec

-----------------------------------------------------------------------------
(* Trails.  Each stretch of code logs its events in one go, so what is      *)
(* logged, with what is still to be logged, counts the stages passed:       *)
(* LogEvent only moves an event from one to the other.                      *)

Count(events, e) == Cardinality({i \in DOMAIN events : events[i] = e})

LEMMA CountEmpty ==
  ASSUME NEW e
  PROVE  Count(<<>>, e) = 0
<1>1. {i \in DOMAIN <<>> : <<>>[i] = e} = {}
  OBVIOUS
<1> QED
  BY <1>1, FS_EmptySet DEF Count

LEMMA CountType ==
  ASSUME NEW s \in Seq(Events), NEW e
  PROVE  /\ IsFiniteSet({i \in DOMAIN s : s[i] = e})
         /\ Count(s, e) \in Nat
         /\ Count(s, e) = 0 <=> ~Reported(s, e)
<1> DEFINE S == {i \in DOMAIN s : s[i] = e}
<1>1. Len(s) \in Nat /\ DOMAIN s = 1..Len(s)
  OBVIOUS
<1>2. IsFiniteSet(1..Len(s))
  BY <1>1, FS_Interval
<1>3. IsFiniteSet(S)
  BY <1>1, <1>2, FS_Subset
<1>4. Cardinality(S) \in Nat /\ (Cardinality(S) = 0 <=> S = {})
  BY <1>3, FS_CardinalityType, FS_EmptySet
<1>5. S = {} <=> ~Reported(s, e)
  BY DEF Reported
<1> QED
  BY <1>3, <1>4, <1>5 DEF Count

LEMMA CountAppend ==
  ASSUME NEW s \in Seq(Events), NEW x \in Events
  PROVE  /\ Append(s, x) \in Seq(Events) /\ Append(s, x) /= <<>>
         /\ s /= <<>> => Append(s, x)[1] = s[1]
         /\ \A e : Count(Append(s, x), e) = IF e = x THEN Count(s, e) + 1 ELSE Count(s, e)
<1>1. /\ Append(s, x) \in Seq(Events) /\ Append(s, x) /= <<>>
      /\ s /= <<>> => Append(s, x)[1] = s[1]
  <2>1. /\ Append(s, x) \in Seq(Events)
        /\ Len(Append(s, x)) = Len(s) + 1 /\ Len(s) \in Nat
    OBVIOUS
  <2>4. Len(<<>>) = 0
    OBVIOUS
  <2>5. Append(s, x) /= <<>>
    BY <2>1, <2>4
  <2>2. s /= <<>> => 1 \in 1..Len(s)
    OBVIOUS
  <2>3. \A i \in 1..Len(s) : Append(s, x)[i] = s[i]
    OBVIOUS
  <2> QED
    BY <2>1, <2>2, <2>3, <2>5
<1>2. ASSUME NEW e
      PROVE  Count(Append(s, x), e) = IF e = x THEN Count(s, e) + 1 ELSE Count(s, e)
  <2> DEFINE S == {i \in DOMAIN s : s[i] = e}
             T == {i \in DOMAIN Append(s, x) : Append(s, x)[i] = e}
             last == Len(s) + 1
  <2>1. Len(s) \in Nat /\ DOMAIN s = 1..Len(s)
    OBVIOUS
  <2>2. /\ DOMAIN Append(s, x) = 1..(Len(s) + 1)
        /\ \A i \in 1..Len(s) : Append(s, x)[i] = s[i]
        /\ Append(s, x)[Len(s) + 1] = x
    OBVIOUS
  <2>3. IsFiniteSet(S)
    BY CountType
  <2>4. CASE e = x
    <3>1. T = S \cup {last}
      BY <2>1, <2>2, <2>4
    <3>2. last \notin S
      BY <2>1
    <3> HIDE DEF S, T, last
    <3>3. Cardinality(T) = Cardinality(S) + 1
      BY <2>3, <3>1, <3>2, FS_AddElement
    <3> QED
      BY <2>4, <3>3 DEF Count, S, T
  <2>5. CASE e /= x
    <3>1. T = S
      BY <2>1, <2>2, <2>5
    <3> QED
      BY <2>5, <3>1 DEF Count
  <2> QED
    BY <2>4, <2>5
<1> QED
  BY <1>1, <1>2

LEMMA TrailGrows ==
  ASSUME NEW s \in Seq(Events)
  PROVE  /\ s \o <<>> = s
         /\ \A a \in Events : s \o <<a>> = Append(s, a)
         /\ \A a, b \in Events : s \o <<a, b>> = Append(Append(s, a), b)
         /\ \A a, b, c \in Events : s \o <<a, b, c>> = Append(Append(Append(s, a), b), c)
OBVIOUS

\* Logging an event leaves the trail what it was.
LEMMA TrailMoves ==
  ASSUME NEW s \in Seq(Events), NEW q \in Seq(Events), q /= <<>>
  PROVE  Append(s, Head(q)) \o Tail(q) = s \o q
OBVIOUS

\* How often a trail that began with run_created tells of each stage.
Tally(events, started, planned, worked, reviewed, revised) ==
  /\ Count(events, "planner_started") = started
  /\ Count(events, "planner_completed") = planned
  /\ Count(events, "worker_started") = planned
  /\ Count(events, "worker_completed") + Count(events, "worker_failed") = worked
  /\ Count(events, "checks_completed") = worked
  /\ Count(events, "reviewer_started") = worked
  /\ Count(events, "review_completed") = reviewed
  /\ Count(events, "revision_requested") = revised
  /\ Count(events, "run_created") = 1
  /\ events /= <<>> /\ events[1] = "run_created"

\* The trail of a run whose code stands at label in attempt n.
OnTrail(events, label, n) ==
  /\ Count(events, "awaiting_human") = 0
  /\ label = "replan" => Tally(events, n - 1, n - 1, n - 1, n - 1, n - 1)
  /\ label = "plan" => Tally(events, n, n - 1, n - 1, n - 1, n - 1)
  /\ label \in {"dispatch", "work"} => Tally(events, n, n, n - 1, n - 1, n - 1)
  /\ label = "review" => Tally(events, n, n, n, n - 1, n - 1)
  /\ label \in {"settle", "propose"} => Tally(events, n, n, n, n, n - 1)

\* The trail of a run that was shown to the human after n attempts.
WholeTrail(events, n) ==
  Tally(events, n, n, n, n, n - 1) /\ Count(events, "awaiting_human") = 1

\* t is s and the events of E, once each.
Adds(s, t, E) ==
  /\ t \in Seq(Events) /\ t /= <<>>
  /\ s /= <<>> => t[1] = s[1]
  /\ \A e : Count(t, e) = IF e \in E THEN Count(s, e) + 1 ELSE Count(s, e)

LEMMA TrailAdds ==
  ASSUME NEW s \in Seq(Events)
  PROVE  /\ \A a \in Events : Adds(s, s \o <<a>>, {a}) /\ Adds(s, Append(s, a), {a})
         /\ \A a, b \in Events : a /= b => Adds(s, s \o <<a, b>>, {a, b})
         /\ \A a, b, c \in Events :
              a /= b /\ a /= c /\ b /= c => Adds(s, s \o <<a, b, c>>, {a, b, c})
<1>1. ASSUME NEW t \in Seq(Events), NEW a \in Events
      PROVE  Adds(t, Append(t, a), {a})
  BY <1>1, CountAppend DEF Adds
<1>2. ASSUME NEW t \in Seq(Events), t /= <<>> \/ s = <<>>, NEW E, Adds(s, t, E),
             NEW b \in Events \ E
      PROVE  Adds(s, Append(t, b), E \cup {b})
  <2> DEFINE u == Append(t, b)
  <2>1. Adds(t, u, {b})
    BY <1>1
  <2> HIDE DEF u
  <2>2. ASSUME NEW e
        PROVE  Count(u, e) = IF e \in E \cup {b} THEN Count(s, e) + 1 ELSE Count(s, e)
    BY <1>2, <2>1, <2>2 DEF Adds
  <2>3. /\ u \in Seq(Events) /\ u /= <<>> /\ t /= <<>>
        /\ s /= <<>> => u[1] = s[1]
    BY <1>2, <2>1 DEF Adds
  <2> QED
    BY <2>2, <2>3 DEF Adds, u
<1>3. ASSUME NEW a \in Events PROVE Adds(s, s \o <<a>>, {a}) /\ Adds(s, Append(s, a), {a})
  <2>1. s \o <<a>> = Append(s, a)
    BY TrailGrows
  <2> QED
    BY <1>1, <2>1
<1>4. ASSUME NEW a \in Events, NEW b \in Events, a /= b
      PROVE  Adds(s, s \o <<a, b>>, {a, b})
  <2>1. Adds(s, Append(s, a), {a}) /\ Append(s, a) \in Seq(Events) /\ Append(s, a) /= <<>>
    BY <1>1 DEF Adds
  <2>2. Adds(s, Append(Append(s, a), b), {a} \cup {b})
    BY <1>2, <1>4, <2>1
  <2>3. s \o <<a, b>> = Append(Append(s, a), b) /\ {a} \cup {b} = {a, b}
    BY TrailGrows
  <2> QED
    BY <2>2, <2>3
<1>5. ASSUME NEW a \in Events, NEW b \in Events, NEW c \in Events, a /= b, a /= c, b /= c
      PROVE  Adds(s, s \o <<a, b, c>>, {a, b, c})
  <2> DEFINE u == Append(Append(s, a), b)
  <2>1. s \o <<a, b>> = u /\ s \o <<a, b, c>> = Append(u, c)
    BY TrailGrows
  <2>2. Adds(s, u, {a, b})
    BY <1>4, <1>5, <2>1
  <2> HIDE DEF u
  <2>3. u \in Seq(Events) /\ u /= <<>>
    BY <2>2 DEF Adds
  <2>4. Adds(s, Append(u, c), {a, b} \cup {c})
    BY <1>2, <1>5, <2>2, <2>3
  <2>5. {a, b} \cup {c} = {a, b, c}
    OBVIOUS
  <2> QED
    BY <2>1, <2>4, <2>5
<1> QED
  BY <1>3, <1>4, <1>5

\* What each stretch of code adds to a trail makes it that of the next label.
LEMMA TrailStep ==
  ASSUME NEW s \in Seq(Events), NEW n \in Nat, NEW t, NEW E, Adds(s, t, E)
  PROVE  /\ E = {"planner_completed", "worker_started"} /\ OnTrail(s, "plan", n) =>
              OnTrail(t, "dispatch", n)
         /\ \A event \in {"worker_completed", "worker_failed"} :
              E = {event, "checks_completed", "reviewer_started"} /\ OnTrail(s, "work", n) =>
                OnTrail(t, "review", n)
         /\ E = {"review_completed"} /\ OnTrail(s, "review", n) => OnTrail(t, "settle", n)
         /\ E = {"revision_requested"} /\ OnTrail(s, "settle", n) =>
              OnTrail(t, "replan", n + 1)
         /\ E = {"planner_started"} /\ OnTrail(s, "replan", n) => OnTrail(t, "plan", n)
         /\ E = {"revision_skipped"} /\ OnTrail(s, "settle", n) => OnTrail(t, "propose", n)
         /\ E = {"awaiting_human"} /\ OnTrail(s, "propose", n) => WholeTrail(t, n)
<1>0. /\ \A e : Count(s, e) \in Nat /\ Count(t, e) \in Nat
      /\ t \in Seq(Events) /\ t /= <<>>
      /\ s /= <<>> => t[1] = s[1]
      /\ \A e \in E : Count(t, e) = Count(s, e) + 1
      /\ \A e : e \notin E => Count(t, e) = Count(s, e)
  BY CountType DEF Adds
<1>1. ASSUME E = {"planner_completed", "worker_started"},
             OnTrail(s, "plan", n)
      PROVE  OnTrail(t, "dispatch", n)
  <2>1. /\ Count(t, "planner_started") = Count(s, "planner_started")
        /\ Count(t, "planner_completed") = Count(s, "planner_completed") + 1
        /\ Count(t, "worker_started") = Count(s, "worker_started") + 1
        /\ Count(t, "worker_completed") = Count(s, "worker_completed")
        /\ Count(t, "worker_failed") = Count(s, "worker_failed")
        /\ Count(t, "checks_completed") = Count(s, "checks_completed")
        /\ Count(t, "reviewer_started") = Count(s, "reviewer_started")
        /\ Count(t, "review_completed") = Count(s, "review_completed")
        /\ Count(t, "revision_requested") = Count(s, "revision_requested")
        /\ Count(t, "run_created") = Count(s, "run_created")
        /\ Count(t, "awaiting_human") = Count(s, "awaiting_human")
    BY <1>0, <1>1
  <2> QED
    BY <1>0, <1>1, <2>1 DEF OnTrail, WholeTrail, Tally
<1>2. ASSUME E = {"worker_completed", "checks_completed", "reviewer_started"},
             OnTrail(s, "work", n)
      PROVE  OnTrail(t, "review", n)
  <2>1. /\ Count(t, "planner_started") = Count(s, "planner_started")
        /\ Count(t, "planner_completed") = Count(s, "planner_completed")
        /\ Count(t, "worker_started") = Count(s, "worker_started")
        /\ Count(t, "worker_completed") = Count(s, "worker_completed") + 1
        /\ Count(t, "worker_failed") = Count(s, "worker_failed")
        /\ Count(t, "checks_completed") = Count(s, "checks_completed") + 1
        /\ Count(t, "reviewer_started") = Count(s, "reviewer_started") + 1
        /\ Count(t, "review_completed") = Count(s, "review_completed")
        /\ Count(t, "revision_requested") = Count(s, "revision_requested")
        /\ Count(t, "run_created") = Count(s, "run_created")
        /\ Count(t, "awaiting_human") = Count(s, "awaiting_human")
    BY <1>0, <1>2
  <2> QED
    BY <1>0, <1>2, <2>1 DEF OnTrail, WholeTrail, Tally
<1>3. ASSUME E = {"worker_failed", "checks_completed", "reviewer_started"},
             OnTrail(s, "work", n)
      PROVE  OnTrail(t, "review", n)
  <2>1. /\ Count(t, "planner_started") = Count(s, "planner_started")
        /\ Count(t, "planner_completed") = Count(s, "planner_completed")
        /\ Count(t, "worker_started") = Count(s, "worker_started")
        /\ Count(t, "worker_completed") = Count(s, "worker_completed")
        /\ Count(t, "worker_failed") = Count(s, "worker_failed") + 1
        /\ Count(t, "checks_completed") = Count(s, "checks_completed") + 1
        /\ Count(t, "reviewer_started") = Count(s, "reviewer_started") + 1
        /\ Count(t, "review_completed") = Count(s, "review_completed")
        /\ Count(t, "revision_requested") = Count(s, "revision_requested")
        /\ Count(t, "run_created") = Count(s, "run_created")
        /\ Count(t, "awaiting_human") = Count(s, "awaiting_human")
    BY <1>0, <1>3
  <2> QED
    BY <1>0, <1>3, <2>1 DEF OnTrail, WholeTrail, Tally
<1>4. ASSUME E = {"review_completed"},
             OnTrail(s, "review", n)
      PROVE  OnTrail(t, "settle", n)
  <2>1. /\ Count(t, "planner_started") = Count(s, "planner_started")
        /\ Count(t, "planner_completed") = Count(s, "planner_completed")
        /\ Count(t, "worker_started") = Count(s, "worker_started")
        /\ Count(t, "worker_completed") = Count(s, "worker_completed")
        /\ Count(t, "worker_failed") = Count(s, "worker_failed")
        /\ Count(t, "checks_completed") = Count(s, "checks_completed")
        /\ Count(t, "reviewer_started") = Count(s, "reviewer_started")
        /\ Count(t, "review_completed") = Count(s, "review_completed") + 1
        /\ Count(t, "revision_requested") = Count(s, "revision_requested")
        /\ Count(t, "run_created") = Count(s, "run_created")
        /\ Count(t, "awaiting_human") = Count(s, "awaiting_human")
    BY <1>0, <1>4
  <2> QED
    BY <1>0, <1>4, <2>1 DEF OnTrail, WholeTrail, Tally
<1>5. ASSUME E = {"revision_requested"},
             OnTrail(s, "settle", n)
      PROVE  OnTrail(t, "replan", n + 1)
  <2>1. /\ Count(t, "planner_started") = Count(s, "planner_started")
        /\ Count(t, "planner_completed") = Count(s, "planner_completed")
        /\ Count(t, "worker_started") = Count(s, "worker_started")
        /\ Count(t, "worker_completed") = Count(s, "worker_completed")
        /\ Count(t, "worker_failed") = Count(s, "worker_failed")
        /\ Count(t, "checks_completed") = Count(s, "checks_completed")
        /\ Count(t, "reviewer_started") = Count(s, "reviewer_started")
        /\ Count(t, "review_completed") = Count(s, "review_completed")
        /\ Count(t, "revision_requested") = Count(s, "revision_requested") + 1
        /\ Count(t, "run_created") = Count(s, "run_created")
        /\ Count(t, "awaiting_human") = Count(s, "awaiting_human")
    BY <1>0, <1>5
  <2> QED
    BY <1>0, <1>5, <2>1 DEF OnTrail, WholeTrail, Tally
<1>6. ASSUME E = {"planner_started"},
             OnTrail(s, "replan", n)
      PROVE  OnTrail(t, "plan", n)
  <2>1. /\ Count(t, "planner_started") = Count(s, "planner_started") + 1
        /\ Count(t, "planner_completed") = Count(s, "planner_completed")
        /\ Count(t, "worker_started") = Count(s, "worker_started")
        /\ Count(t, "worker_completed") = Count(s, "worker_completed")
        /\ Count(t, "worker_failed") = Count(s, "worker_failed")
        /\ Count(t, "checks_completed") = Count(s, "checks_completed")
        /\ Count(t, "reviewer_started") = Count(s, "reviewer_started")
        /\ Count(t, "review_completed") = Count(s, "review_completed")
        /\ Count(t, "revision_requested") = Count(s, "revision_requested")
        /\ Count(t, "run_created") = Count(s, "run_created")
        /\ Count(t, "awaiting_human") = Count(s, "awaiting_human")
    BY <1>0, <1>6
  <2> QED
    BY <1>0, <1>6, <2>1 DEF OnTrail, WholeTrail, Tally
<1>7. ASSUME E = {"revision_skipped"},
             OnTrail(s, "settle", n)
      PROVE  OnTrail(t, "propose", n)
  <2>1. /\ Count(t, "planner_started") = Count(s, "planner_started")
        /\ Count(t, "planner_completed") = Count(s, "planner_completed")
        /\ Count(t, "worker_started") = Count(s, "worker_started")
        /\ Count(t, "worker_completed") = Count(s, "worker_completed")
        /\ Count(t, "worker_failed") = Count(s, "worker_failed")
        /\ Count(t, "checks_completed") = Count(s, "checks_completed")
        /\ Count(t, "reviewer_started") = Count(s, "reviewer_started")
        /\ Count(t, "review_completed") = Count(s, "review_completed")
        /\ Count(t, "revision_requested") = Count(s, "revision_requested")
        /\ Count(t, "run_created") = Count(s, "run_created")
        /\ Count(t, "awaiting_human") = Count(s, "awaiting_human")
    BY <1>0, <1>7
  <2> QED
    BY <1>0, <1>7, <2>1 DEF OnTrail, WholeTrail, Tally
<1>8. ASSUME E = {"awaiting_human"},
             OnTrail(s, "propose", n)
      PROVE  WholeTrail(t, n)
  <2>1. /\ Count(t, "planner_started") = Count(s, "planner_started")
        /\ Count(t, "planner_completed") = Count(s, "planner_completed")
        /\ Count(t, "worker_started") = Count(s, "worker_started")
        /\ Count(t, "worker_completed") = Count(s, "worker_completed")
        /\ Count(t, "worker_failed") = Count(s, "worker_failed")
        /\ Count(t, "checks_completed") = Count(s, "checks_completed")
        /\ Count(t, "reviewer_started") = Count(s, "reviewer_started")
        /\ Count(t, "review_completed") = Count(s, "review_completed")
        /\ Count(t, "revision_requested") = Count(s, "revision_requested")
        /\ Count(t, "run_created") = Count(s, "run_created")
        /\ Count(t, "awaiting_human") = Count(s, "awaiting_human") + 1
    BY <1>0, <1>8
  <2> QED
    BY <1>0, <1>8, <2>1 DEF OnTrail, WholeTrail, Tally
<1> QED
  BY <1>1, <1>2, <1>3, <1>4, <1>5, <1>6, <1>7, <1>8

LEMMA TrailBegins == OnTrail(<<"run_created">> \o <<"planner_started">>, "plan", 1)
<1> DEFINE s == <<"run_created">>
           t == s \o <<"planner_started">>
<1>0. {"run_created", "planner_started"} \subseteq Events
  BY DEF Events
<1>1. Append(<<>>, "run_created") = s /\ <<>> \in Seq(Events)
  OBVIOUS
<1>2. Adds(<<>>, s, {"run_created"})
  BY <1>0, <1>1, TrailAdds
<1>3. s \in Seq(Events) /\ s[1] = "run_created"
  BY <1>0
<1> HIDE DEF s
<1>4. Adds(s, t, {"planner_started"})
  BY <1>0, <1>3, TrailAdds
<1> HIDE DEF t
<1>5. /\ \A e : Count(<<>>, e) = 0
      /\ \A e \in {"run_created"} : Count(s, e) = Count(<<>>, e) + 1
      /\ \A e : e \notin {"run_created"} => Count(s, e) = Count(<<>>, e)
  BY <1>2, CountEmpty DEF Adds
<1>6. /\ \A e : Count(s, e) = IF e = "run_created" THEN 1 ELSE 0
  BY <1>5
<1>7. /\ \A e \in {"planner_started"} : Count(t, e) = Count(s, e) + 1
      /\ \A e : e \notin {"planner_started"} => Count(t, e) = Count(s, e)
      /\ t /= <<>> /\ t[1] = "run_created"
  BY <1>2, <1>3, <1>4 DEF Adds
<1>8. OnTrail(t, "plan", 1)
  BY <1>6, <1>7 DEF OnTrail, Tally
<1> QED
  BY <1>8 DEF s, t

-----------------------------------------------------------------------------
(* The end of a trail.                                                      *)

DecidedStatuses == {"completed", "rejected"}
Voted(events) == Reported(events, "human_decision")
Outcome(row) == TerminalEvent[row.status]

\* A decision is logged by the stretch of code that saved it, and its outcome last.
EndOf(r) ==
  /\ disk[r].status \notin DecidedStatuses => ~Voted(log[r]) /\ ~Voted(queue[r])
  /\ disk[r].status \in DecidedStatuses =>
       /\ disk[r].decision /= "none" /\ StatusFits(disk[r])
       /\ \/ /\ queue[r] = <<"human_decision", Outcome(disk[r])>>
             /\ Count(log[r], "human_decision") = 0
             /\ ~Reported(log[r], Outcome(disk[r]))
          \/ /\ queue[r] = <<Outcome(disk[r])>>
             /\ Count(log[r], "human_decision") = 1
             /\ ~Reported(log[r], Outcome(disk[r]))
          \/ /\ queue[r] = <<>>
             /\ Reported(log[r], Outcome(disk[r])) =>
                  /\ log[r][Len(log[r])] = Outcome(disk[r])
                  /\ Count(log[r], "human_decision") = 1

LEMMA NoVotes ==
  /\ ~Voted(<<>>)
  /\ ~Voted(<<"run_created">>)
  /\ ~Voted(<<"planner_started">>)
  /\ ~Voted(<<"planner_completed", "worker_started">>)
  /\ ~Voted(<<"worker_completed", "checks_completed", "reviewer_started">>)
  /\ ~Voted(<<"worker_failed", "checks_completed", "reviewer_started">>)
  /\ ~Voted(<<"review_completed">>)
  /\ ~Voted(<<"revision_requested">>)
  /\ ~Voted(<<"revision_skipped">>)
  /\ ~Voted(<<"awaiting_human">>)
  /\ ~Voted(<<"run_failed">>)
BY DEF Voted, Reported

\* Nothing else is logged or saved of a run while its events are written.
LEMMA StretchEnds ==
  ASSUME TypeInv, NEW r \in Runs, StepOf(r), ~LogEvent(r), ~EventFault(r)
  PROVE  queue[r] = <<>> /\ log' = log
<1>1. CASE CreateTask(r) \/ BeginPipeline(r) \/ PlanReturns(r) \/ Dispatch(r) \/ WorkFails(r)
  BY <1>1 DEF CreateTask, BeginPipeline, PlanReturns, Dispatch, WorkFails, WorkEnds, Commit,
     Proceed, Resumes, Continues
<1>2. CASE Revise(r) \/ Replan(r) \/ SkipRevision(r) \/ Propose(r) \/ StageAborts(r)
  BY <1>2 DEF Revise, Replan, SkipRevision, Propose, StageAborts, Commit, Proceed, Resumes,
     Continues
<1>3. CASE Fail(r) \/ FreeSlot(r) \/ Start(r) \/ ToolWrites(r)
  BY <1>3 DEF Fail, FreeSlot, Start, ToolWrites, Commit, Resumes, Continues
<1>4. CASE \E parsed, passed \in BOOLEAN, acts \in SUBSET Actions :
             WorkReturns(r, parsed, acts, passed)
  BY <1>4 DEF WorkReturns, WorkEnds, Commit, Resumes, Continues
<1>5. CASE \E verdict \in Verdicts : ReviewReturns(r, verdict)
  BY <1>5 DEF ReviewReturns, Commit, Resumes, Continues
<1>6. CASE \E d \in Decisions, acts \in SUBSET Actions : Decide(r, d, acts)
  BY <1>6 DEF Decide, Commit, Resumes, Continues
<1>7. CASE FailInterrupted(r)
  BY <1>7 DEF FailInterrupted, LoopFree, Busy
<1> QED
  BY <1>1, <1>2, <1>3, <1>4, <1>5, <1>6, <1>7 DEF StepOf, TaskStep, ClientStep

\* Only Decide stores a decided row or logs a decision.
LEMMA CommitQuiet ==
  ASSUME TypeInv, NEW r \in Runs, NEW row, NEW events, NEW next, NEW onFault,
         Commit(r, row, events, next, onFault), queue[r] = <<>>,
         row.status \notin DecidedStatuses, ~Voted(events)
  PROVE  /\ ~Voted(queue'[r])
         /\ disk'[r] = disk[r] \/ disk'[r].status \notin DecidedStatuses
BY CommitOwn, NoVotes

LEMMA UndecidedStep ==
  ASSUME TypeInv, NEW r \in Runs, StepOf(r), StageOf(r), ~LogEvent(r), ~EventFault(r),
         \A d \in Decisions, acts \in SUBSET Actions : ~Decide(r, d, acts)
  PROVE  /\ ~Voted(queue'[r])
         /\ disk'[r] = disk[r] \/ disk'[r].status \notin DecidedStatuses
         /\ disk[r].status \in DecidedStatuses => queue'[r] = <<>>
<1> USE LabelNames DEF loopVars, localVars, DecidedStatuses
<1>0. /\ disk[r] \in Row /\ mem[r] \in Row /\ queue[r] = <<>>
      /\ ~Voted(<<>>)
  BY StretchEnds, NoVotes DEF TypeInv, TypeOK
<1>1. CASE CreateTask(r) \/ StageAborts(r) \/ FreeSlot(r) \/ ToolWrites(r)
  BY <1>0, <1>1 DEF CreateTask, StageAborts, FreeSlot, ToolWrites
<1>2. ASSUME NEW events, NEW next, Proceed(r, events, next), ~Voted(events), Under(r)
      PROVE  /\ ~Voted(queue'[r])
             /\ disk'[r] = disk[r]
             /\ disk[r].status \notin DecidedStatuses
  BY <1>2 DEF Proceed, TypeInv, TypeOK, StageOf, ActiveStatuses
<1>3. CASE BeginPipeline(r) \/ Dispatch(r) \/ Revise(r) \/ SkipRevision(r)
  <2>1. Under(r)
    BY <1>3 DEF BeginPipeline, Dispatch, Revise, SkipRevision, Resumes, Continues, Under
  <2> QED
    BY <1>2, <1>3, <2>1, NoVotes DEF BeginPipeline, Dispatch, Revise, SkipRevision
<1>4. ASSUME NEW row, NEW events, NEW next, Commit(r, row, events, next, "fail"), Under(r),
             row.status \notin DecidedStatuses, ~Voted(events)
      PROVE  /\ ~Voted(queue'[r])
             /\ disk'[r] = disk[r] \/ disk'[r].status \notin DecidedStatuses
             /\ disk[r].status \notin DecidedStatuses
  BY <1>0, <1>4, CommitQuiet DEF StageOf, ActiveStatuses
<1>5. CASE PlanReturns(r)
  <2> DEFINE row == [mem[r] EXCEPT !.status = "working"]
  <2>1. row.status = "working"
    BY <1>0 DEF Row
  <2>2. Commit(r, row, <<"planner_completed", "worker_started">>, "dispatch", "fail") /\ Under(r)
    BY <1>5 DEF PlanReturns, Resumes, Continues, Under
  <2> HIDE DEF row
  <2> QED
    BY <1>4, <2>1, <2>2, NoVotes
<1>6. CASE Replan(r)
  <2> DEFINE row == [mem[r] EXCEPT !.status = "planning"]
  <2>1. row.status = "planning"
    BY <1>0 DEF Row
  <2>2. Commit(r, row, <<"planner_started">>, "plan", "fail") /\ Under(r)
    BY <1>6 DEF Replan, Continues, Under
  <2> HIDE DEF row
  <2> QED
    BY <1>4, <2>1, <2>2, NoVotes
<1>7. ASSUME NEW parsed, NEW passed, NEW acts, NEW event \in {"worker_completed", "worker_failed"},
             pc[r] = "work", WorkEnds(r, parsed, acts, passed, event)
      PROVE  /\ ~Voted(queue'[r])
             /\ disk'[r] = disk[r] \/ disk'[r].status \notin DecidedStatuses
             /\ disk[r].status \notin DecidedStatuses
  <2> DEFINE row == [mem[r] EXCEPT
                       !.status = "reviewing",
                       !.result = [of |-> attempt[r], parsed |-> parsed,
                                   actions |-> acts],
                       !.checks = [of |-> attempt[r], passed |-> passed]]
  <2>1. row.status = "reviewing"
    BY <1>0 DEF Row
  <2>2. /\ Commit(r, row, <<event, "checks_completed", "reviewer_started">>, "review", "fail")
        /\ Under(r)
    BY <1>7 DEF WorkEnds, Under
  <2> HIDE DEF row
  <2> QED
    BY <1>4, <1>7, <2>1, <2>2, NoVotes
<1>8. CASE \E parsed, passed \in BOOLEAN, acts \in SUBSET Actions :
             WorkReturns(r, parsed, acts, passed)
  BY <1>7, <1>8 DEF WorkReturns, Resumes, Continues
<1>9. CASE WorkFails(r)
  BY <1>7, <1>9 DEF WorkFails, Resumes, Continues
<1>10. ASSUME NEW verdict \in Verdicts, ReviewReturns(r, verdict)
       PROVE  /\ ~Voted(queue'[r])
              /\ disk'[r] = disk[r] \/ disk'[r].status \notin DecidedStatuses
              /\ disk[r].status \notin DecidedStatuses
  <2> DEFINE row == [mem[r] EXCEPT !.review =
                       [of |-> attempt[r],
                        verdict |-> CheckFloor(verdict, mem[r].checks.passed)]]
  <2>1. row.status = mem[r].status
    BY <1>0 DEF Row
  <2>2. Commit(r, row, <<"review_completed">>, "settle", "fail") /\ Under(r)
    BY <1>10 DEF ReviewReturns, Resumes, Continues, Under
  <2> HIDE DEF row
  <2>3. row.status \notin DecidedStatuses
    BY <2>1, <2>2 DEF StageOf, ActiveStatuses
  <2> QED
    BY <1>4, <2>2, <2>3, NoVotes
<1>11. CASE Propose(r)
  <2> DEFINE row == [mem[r] EXCEPT !.status = "awaiting_human",
                                   !.proposed = mem[r].result.actions]
  <2>1. row.status = "awaiting_human"
    BY <1>0 DEF Row
  <2>2. Commit(r, row, <<"awaiting_human">>, "idle", "fail") /\ Under(r)
    BY <1>11 DEF Propose, Continues, Under
  <2> HIDE DEF row
  <2> QED
    BY <1>4, <2>1, <2>2, NoVotes
<1>12. CASE Fail(r)
  <2> DEFINE row == [mem[r] EXCEPT !.status = "failed"]
  <2>1. row.status = "failed"
    BY <1>0 DEF Row
  <2>2. Commit(r, row, <<"run_failed">>, "idle", "idle") /\ pc[r] = "fail"
    BY <1>12 DEF Fail, Continues
  <2> HIDE DEF row
  <2>3. disk[r].status \notin DecidedStatuses
    BY <2>2 DEF StageOf, Open, ActiveStatuses
  <2> QED
    BY <1>0, <2>1, <2>2, <2>3, CommitQuiet, NoVotes
<1>13. CASE Start(r)
  <2>1. Commit(r, NewRow, <<"run_created">>, "create", "idle") /\ disk[r].status = "none"
    BY <1>13 DEF Start
  <2> QED
    BY <1>0, <2>1, CommitQuiet, NoVotes DEF NewRow
<1>14. CASE FailInterrupted(r)
  <2>1. /\ disk'[r].status = "failed" /\ queue'[r] = <<"run_failed">>
        /\ disk[r].status \in ActiveStatuses
    BY <1>14, <1>0 DEF FailInterrupted, TypeInv, TypeOK, Row
  <2> QED
    BY <2>1, NoVotes DEF ActiveStatuses
<1> QED
  BY <1>1, <1>3, <1>5, <1>6, <1>8, <1>9, <1>10, <1>11, <1>12, <1>13, <1>14
     DEF StepOf, TaskStep, ClientStep

LEMMA TailReports ==
  ASSUME NEW s \in Seq(Events), s /= <<>>, NEW e
  PROVE  /\ Reported(Tail(s), e) => Reported(s, e)
         /\ Head(s) = e => Reported(s, e)
         /\ Head(s) \in Events
<1>1. Len(s) \in Nat /\ Len(s) >= 1 /\ DOMAIN s = 1..Len(s)
  OBVIOUS
<1>2. DOMAIN Tail(s) = 1..(Len(s) - 1) /\ \A i \in 1..(Len(s) - 1) : Tail(s)[i] = s[i + 1]
  BY <1>1
<1>3. ASSUME NEW i \in DOMAIN Tail(s), Tail(s)[i] = e PROVE Reported(s, e)
  <2>1. i + 1 \in DOMAIN s /\ s[i + 1] = e
    BY <1>1, <1>2, <1>3
  <2> QED
    BY <2>1 DEF Reported
<1>4. 1 \in DOMAIN s /\ Head(s) = s[1]
  BY <1>1
<1>5. Head(s) \in Events
  BY <1>1
<1> QED
  BY <1>3, <1>4, <1>5 DEF Reported

LEMMA ReportsMore ==
  ASSUME NEW s \in Seq(Events), NEW x \in Events
  PROVE  /\ \A e : Reported(Append(s, x), e) <=> e = x \/ Reported(s, e)
         /\ Append(s, x)[Len(Append(s, x))] = x
<1>1. ASSUME NEW e PROVE Reported(Append(s, x), e) <=> e = x \/ Reported(s, e)
  <2>1. Count(s, e) \in Nat /\ (Count(s, e) = 0 <=> ~Reported(s, e))
    BY CountType
  <2>2. /\ Append(s, x) \in Seq(Events)
        /\ Count(Append(s, x), e) = IF e = x THEN Count(s, e) + 1 ELSE Count(s, e)
    BY CountAppend
  <2>3. Count(Append(s, x), e) = 0 <=> ~Reported(Append(s, x), e)
    BY <2>2, CountType
  <2> QED
    BY <2>1, <2>2, <2>3
<1> QED
  BY <1>1

LEMMA OutcomeNames ==
  ASSUME NEW row, row.status \in DecidedStatuses
  PROVE  /\ Outcome(row) \in {"run_completed", "run_rejected"}
         /\ Outcome(row) \in Events /\ "human_decision" \in Events
         /\ \A status : Fits(Outcome(row), status) => status = row.status
         /\ Outcome(row) = IF row.status = "completed" THEN "run_completed" ELSE "run_rejected"
BY DEF DecidedStatuses, Outcome, TerminalEvent, Events, Fits

\* A decision starts the end of the trail.
LEMMA DecideEnds ==
  ASSUME TypeInv, NEW r \in Runs, LogOf(r), EndOf(r), queue[r] = <<>>, log' = log,
         NEW d \in Decisions, NEW acts \in SUBSET Actions, Decide(r, d, acts)
  PROVE  EndOf(r)'
<1> DEFINE status == IF d = "reject" THEN "rejected" ELSE "completed"
           final == IF d = "reject" THEN "run_rejected" ELSE "run_completed"
           row == [disk[r] EXCEPT !.status = status, !.decision = d, !.approved = acts]
<1>0. disk[r] \in Row /\ log[r] \in Seq(Events)
  BY DEF TypeInv, TypeOK
<1>1. /\ row.status = status /\ row.decision = d /\ d /= "none"
      /\ status \in DecidedStatuses /\ final = Outcome(row)
  BY <1>0 DEF Row, Decisions, DecidedStatuses, Outcome, TerminalEvent
<1>2. /\ Commit(r, row, <<"human_decision", final>>, "idle", "idle")
      /\ disk[r].status = "awaiting_human"
  BY DEF Decide
<1>3. StatusFits(row)
  BY <1>1 DEF StatusFits
<1> HIDE DEF row, final, status
<1>4. ~Voted(log[r]) /\ ~Reported(log[r], Outcome(row))
  <2>1. ~Voted(log[r])
    BY <1>2 DEF EndOf, DecidedStatuses
  <2>2. \A i \in DOMAIN log[r] : Fits(log[r][i], "awaiting_human")
    BY <1>2 DEF LogOf, Told
  <2>3. ~Reported(log[r], Outcome(row))
    BY <1>1, <2>2, OutcomeNames DEF Reported, DecidedStatuses
  <2> QED
    BY <2>1, <2>3
<1>5. CASE disk'[r] = row /\ queue'[r] = <<"human_decision", final>>
  <2>1. Count(log[r], "human_decision") = 0
    BY <1>0, <1>4, CountType DEF Voted
  <2> QED
    BY <1>1, <1>3, <1>4, <1>5, <2>1 DEF EndOf
<1>6. CASE disk'[r] = disk[r] /\ queue'[r] = queue[r]
  BY <1>2, <1>6 DEF EndOf, DecidedStatuses
<1> QED
  BY <1>2, <1>5, <1>6, CommitOwn

LEMMA EndStep ==
  ASSUME TypeInv, NEW r \in Runs, StepOf(r), StageOf(r), LogOf(r), EndOf(r),
         process = "booting" => pc[r] = "idle"
  PROVE  EndOf(r)'
<1>0. /\ disk[r] \in Row /\ queue[r] \in Seq(Events) /\ log[r] \in Seq(Events)
  BY DEF TypeInv, TypeOK
<1>1. CASE LogEvent(r)
  <2>1. /\ log'[r] = Append(log[r], Head(queue[r])) /\ queue'[r] = Tail(queue[r])
        /\ disk'[r] = disk[r] /\ queue[r] /= <<>>
    BY <1>1 DEF LogEvent, TypeInv, TypeOK
  <2>2. Head(queue[r]) \in Events
    BY <1>0, <2>1, TailReports
  <2>3. CASE disk[r].status \notin DecidedStatuses
    <3>1. Head(queue[r]) /= "human_decision" /\ ~Voted(Tail(queue[r]))
      BY <1>0, <2>1, <2>3, TailReports DEF EndOf, Voted
    <3>2. ~Voted(log'[r])
      BY <1>0, <2>1, <2>2, <2>3, <3>1, ReportsMore DEF EndOf, Voted
    <3> QED
      BY <2>1, <2>3, <3>1, <3>2 DEF EndOf
  <2>4. CASE disk[r].status \in DecidedStatuses
    <3> DEFINE final == Outcome(disk[r])
    <3>1. /\ final \in {"run_completed", "run_rejected"}
          /\ final \in Events /\ "human_decision" \in Events
      BY <2>4, OutcomeNames
    <3>2. disk[r].decision /= "none" /\ StatusFits(disk[r])
      BY <2>4 DEF EndOf
    <3>3. CASE /\ queue[r] = <<"human_decision", final>>
               /\ Count(log[r], "human_decision") = 0
               /\ ~Reported(log[r], final)
      <4>1. Head(queue[r]) = "human_decision" /\ Tail(queue[r]) = <<final>>
        BY <3>3
      <4>2. Count(log'[r], "human_decision") = 1 /\ ~Reported(log'[r], final)
        BY <1>0, <2>1, <3>1, <3>3, <4>1, CountAppend, ReportsMore
      <4> QED
        BY <2>1, <2>4, <3>2, <4>1, <4>2 DEF EndOf
    <3>4. CASE /\ queue[r] = <<final>>
               /\ Count(log[r], "human_decision") = 1
      <4>1. Head(queue[r]) = final /\ Tail(queue[r]) = <<>>
        BY <3>4
      <4>2. Count(log'[r], "human_decision") = 1 /\ log'[r][Len(log'[r])] = final
        BY <1>0, <2>1, <3>1, <3>4, <4>1, CountAppend, ReportsMore
      <4> QED
        BY <2>1, <2>4, <3>2, <4>1, <4>2 DEF EndOf
    <3> QED
      BY <2>1, <2>4, <3>3, <3>4 DEF EndOf
  <2> QED
    BY <2>3, <2>4
<1>2. CASE EventFault(r)
  <2>1. queue'[r] = <<>> /\ log'[r] = log[r] /\ disk'[r] = disk[r] /\ queue[r] /= <<>>
    BY <1>2 DEF EventFault, TypeInv, TypeOK
  <2> QED
    BY <2>1, NoVotes DEF EndOf
<1>3. CASE \E d \in Decisions, acts \in SUBSET Actions : Decide(r, d, acts)
  <2>1. queue[r] = <<>> /\ log' = log
    BY <1>3 DEF Decide, Commit, Resumes, Continues
  <2> QED
    BY <1>3, <2>1, DecideEnds
<1>4. CASE /\ ~LogEvent(r) /\ ~EventFault(r)
           /\ \A d \in Decisions, acts \in SUBSET Actions : ~Decide(r, d, acts)
  <2>1. queue[r] = <<>> /\ log' = log
    BY <1>4, StretchEnds
  <2>2. /\ ~Voted(queue'[r])
        /\ disk'[r] = disk[r] \/ disk'[r].status \notin DecidedStatuses
        /\ disk[r].status \in DecidedStatuses => queue'[r] = <<>>
    BY <1>4, UndecidedStep
  <2>3. disk[r].status \in DecidedStatuses => disk'[r] = disk[r]
    BY StageStep DEF Closed, FinalStatuses, DecidedStatuses
  <2> QED
    BY <2>1, <2>2, <2>3 DEF EndOf
<1> QED
  BY <1>1, <1>2, <1>3, <1>4

EndInv == \A r \in Runs : EndOf(r)

LEMMA EndNext ==
  TypeInv /\ DownInv /\ StageInv /\ LogInv /\ EndInv /\ [Next]_vars => EndInv'
<1> SUFFICES ASSUME TypeInv, DownInv, StageInv, LogInv, EndInv, [Next]_vars PROVE EndInv'
  OBVIOUS
<1> USE DEF EndInv, StageInv, LogInv
<1>1. CASE UNCHANGED vars \/ Boot \/ Serve
  BY <1>1 DEF vars, Boot, Serve, EndOf
<1>2. CASE Crash
  <2>1. \A r \in Runs : queue'[r] = <<>> /\ log'[r] = log[r] /\ disk'[r] = disk[r]
    BY <1>2 DEF Crash
  <2> QED
    BY <2>1, NoVotes DEF EndOf
<1>3. ASSUME NEW r \in Runs, StepOf(r), NEW q \in Runs PROVE EndOf(q)'
  <2>1. CASE q = r
    BY <1>3, <2>1, EndStep DEF DownInv
  <2>2. CASE q /= r
    BY <1>3, <2>2, Locality DEF EndOf
  <2> QED
    BY <2>1, <2>2
<1> QED
  BY <1>1, <1>2, <1>3, NextCases

-----------------------------------------------------------------------------
(* The whole trail.  While the code works on a run, its trail counts what   *)
(* the label it is at asks for; an event lost on the way takes it to "fail" *)
(* or ends it, so that a trail with awaiting_human has lost nothing before. *)

\* The decision is logged after the proposal.
OrderOf(r) ==
  \A i, j \in DOMAIN log[r] :
    log[r][i] = "awaiting_human" /\ log[r][j] = "human_decision" => i < j

\* What is logged of r and what its code still logs.
Trail(r) == log[r] \o queue[r]

TrailOf(r) ==
  /\ disk[r].status = "none" => log[r] = <<>> /\ queue[r] = <<>>
  /\ pc[r] \in {"create", "scheduled"} => Trail(r) = <<"run_created">>
  /\ pc[r] \in PipelineLabels => OnTrail(Trail(r), pc[r], attempt[r])
  /\ Presents(queue[r]) => OnTrail(log[r], "propose", disk[r].attempts)
  /\ Presents(log[r]) => WholeTrail(log[r], disk[r].attempts)
  /\ disk[r].status = "awaiting_human" => queue[r] \in {<<>>, <<"awaiting_human">>}

LEMMA OrderStep ==
  ASSUME TypeInv, NEW r \in Runs, StepOf(r), StageOf(r), LogOf(r), EndOf(r), OrderOf(r)
  PROVE  OrderOf(r)'
<1>0. queue[r] \in Seq(Events) /\ log[r] \in Seq(Events)
  BY DEF TypeInv, TypeOK
<1>1. CASE LogEvent(r)
  <2> DEFINE x == Head(queue[r])
  <2>1. log'[r] = Append(log[r], x) /\ queue[r] /= <<>>
    BY <1>1 DEF LogEvent, TypeInv, TypeOK
  <2>2. x \in Events
    BY <1>0, <2>1, TailReports
  <2>3. x = "awaiting_human" => ~Voted(log[r])
    <3>1. x = "awaiting_human" => Presents(queue[r])
      BY <1>0, <2>1, TailQuiet
    <3> QED
      BY <3>1 DEF StageOf, EndOf, DecidedStatuses
  <2> HIDE DEF x
  <2>4. /\ Len(log[r]) \in Nat /\ DOMAIN log[r] = 1..Len(log[r])
        /\ DOMAIN log'[r] = 1..(Len(log[r]) + 1)
        /\ \A i \in 1..Len(log[r]) : log'[r][i] = log[r][i]
        /\ log'[r][Len(log[r]) + 1] = x
    BY <1>0, <2>1, <2>2
  <2>5. ASSUME NEW i \in DOMAIN log'[r], NEW j \in DOMAIN log'[r],
               log'[r][i] = "awaiting_human", log'[r][j] = "human_decision"
        PROVE  i < j
    <3>1. CASE i \in DOMAIN log[r] /\ j \in DOMAIN log[r]
      BY <2>4, <2>5, <3>1 DEF OrderOf
    <3>2. CASE i = Len(log[r]) + 1
      BY <2>3, <2>4, <2>5, <3>2 DEF Voted, Reported
    <3>3. CASE i \in DOMAIN log[r] /\ j = Len(log[r]) + 1
      BY <2>4, <3>3
    <3> QED
      BY <2>4, <3>1, <3>2, <3>3
  <2> QED
    BY <2>5 DEF OrderOf
<1>2. CASE EventFault(r)
  BY <1>2 DEF EventFault, OrderOf
<1>3. CASE ~LogEvent(r) /\ ~EventFault(r)
  BY <1>3, StretchEnds DEF OrderOf
<1> QED
  BY <1>1, <1>2, <1>3

\* The decision and its outcome add to a whole trail only themselves.
LEMMA WholeStays ==
  ASSUME NEW s \in Seq(Events), NEW n \in Nat, WholeTrail(s, n),
         NEW x \in {"human_decision", "run_completed", "run_rejected"}
  PROVE  WholeTrail(Append(s, x), n)
<1> DEFINE t == Append(s, x)
<1>1. Adds(s, t, {x})
  BY TrailAdds DEF Events
<1> HIDE DEF t
<1>2. /\ \A e : e \notin {x} => Count(t, e) = Count(s, e)
      /\ t /= <<>> /\ (s /= <<>> => t[1] = s[1])
  BY <1>1 DEF Adds
<1>3. WholeTrail(t, n)
  BY <1>2 DEF WholeTrail, Tally
<1> QED
  BY <1>3 DEF t

\* What is saved, and logged after it, continues the trail of the label left.
LEMMA CommitTrail ==
  ASSUME TypeInv, NEW r \in Runs, NEW row, NEW events, NEW next, NEW onFault \in {"idle", "fail"},
         Commit(r, row, events, next, onFault), TrailOf(r), queue[r] = <<>>,
         row.status /= "none", attempt' = attempt, next /= "scheduled",
         next = "create" => log[r] \o events = <<"run_created">>,
         next \in PipelineLabels => OnTrail(log[r] \o events, next, attempt[r]),
         Presents(events) => OnTrail(log[r], "propose", row.attempts),
         Presents(log[r]) => row.attempts = disk[r].attempts,
         row.status = "awaiting_human" => events = <<"awaiting_human">>
  PROVE  TrailOf(r)'
<1> USE LabelNames
<1>1. CASE disk'[r] = row /\ queue'[r] = events /\ pc'[r] = next
  BY <1>1, CommitOwn DEF TrailOf, Trail
<1>2. CASE disk'[r] = disk[r] /\ queue'[r] = queue[r] /\ pc'[r] = onFault
  <2>1. log'[r] = log[r] /\ ~Presents(<<>>)
    BY CommitOwn, QuietEvents
  <2> QED
    BY <1>2, <2>1 DEF TrailOf, Trail
<1> QED
  BY <1>1, <1>2, CommitOwn

LEMMA LogTrail ==
  ASSUME TypeInv, NEW r \in Runs, StageOf(r), LogOf(r), EndOf(r), TrailOf(r), LogEvent(r)
  PROVE  TrailOf(r)'
<1> DEFINE x == Head(queue[r])
<1>0. /\ queue[r] \in Seq(Events) /\ log[r] \in Seq(Events) /\ disk[r].attempts \in Nat
      /\ disk[r].status \in Statuses
  BY LimitsAssumption DEF TypeInv, TypeOK, Row, Attempts
<1>1. /\ log'[r] = Append(log[r], x) /\ queue'[r] = Tail(queue[r]) /\ queue[r] /= <<>>
      /\ disk'[r] = disk[r] /\ pc'[r] = pc[r] /\ attempt'[r] = attempt[r]
  BY DEF LogEvent, localVars, TypeInv, TypeOK
<1>2. Trail(r)' = Trail(r)
  BY <1>0, <1>1, TrailMoves DEF Trail
<1>3. x \in Events
  BY <1>0, <1>1, TailReports
<1>4. ~Presents(queue'[r])
  <2>1. CASE Presents(queue[r])
    <3>1. queue[r] = <<"awaiting_human">> /\ Tail(<<"awaiting_human">>) = <<>>
      BY <2>1 DEF LogOf
    <3> QED
      BY <1>1, <3>1, QuietEvents
  <2>2. CASE ~Presents(queue[r])
    BY <1>0, <1>1, <2>2, TailQuiet
  <2> QED
    BY <2>1, <2>2
<1>5. disk[r].status = "awaiting_human" => queue'[r] = <<>> /\ ~Presents(log[r])
  <2>1. ASSUME disk[r].status = "awaiting_human"
        PROVE  queue'[r] = <<>> /\ ~Presents(log[r])
    <3>1. queue[r] = <<"awaiting_human">> /\ Tail(<<"awaiting_human">>) = <<>>
      BY <1>1, <2>1 DEF TrailOf
    <3>2. Presents(<<"awaiting_human">>)
      BY DEF Presents
    <3> QED
      BY <1>1, <3>1, <3>2 DEF LogOf
  <2> QED
    BY <2>1
<1>6. ASSUME Presents(log'[r]) PROVE WholeTrail(log'[r], disk[r].attempts)
  <2>1. CASE Presents(log[r])
    <3>1. WholeTrail(log[r], disk[r].attempts)
      BY <2>1 DEF TrailOf
    <3>2. disk[r].status \in DecidedStatuses
      <4>1. disk[r].status \in Presented
        BY <2>1 DEF LogOf, Told, Fits, Presents
      <4> QED
        BY <1>5, <2>1, <4>1 DEF Presented, DecidedStatuses
    <3>3. x \in {"human_decision", Outcome(disk[r])}
      BY <1>1, <3>2 DEF EndOf
    <3> QED
      BY <1>0, <1>1, <3>1, <3>2, <3>3, WholeStays, OutcomeNames
  <2>2. CASE ~Presents(log[r])
    <3>1. x = "awaiting_human"
      BY <1>0, <1>1, <1>3, <1>6, <2>2, ReportsMore DEF Presents, Reported
    <3>2. OnTrail(log[r], "propose", disk[r].attempts)
      BY <1>0, <1>1, <3>1, TailQuiet DEF TrailOf
    <3>3. Adds(log[r], log'[r], {"awaiting_human"})
      BY <1>0, <1>1, <1>3, <3>1, TrailAdds
    <3> QED
      BY <1>0, <3>2, <3>3, TrailStep
  <2> QED
    BY <2>1, <2>2
<1> HIDE DEF x
<1>7. disk[r].status /= "none"
  BY <1>1 DEF TrailOf
<1> QED
  BY <1>1, <1>2, <1>4, <1>5, <1>6, <1>7 DEF TrailOf

LEMMA RunTrail ==
  ASSUME TypeInv, NEW r \in Runs, StepOf(r), StageOf(r), LogOf(r), CoverOf(r), TrailOf(r),
         ~LogEvent(r), ~EventFault(r), process = "booting" => pc[r] = "idle"
  PROVE  TrailOf(r)'
<1> USE LabelNames DEF loopVars, localVars
<1>0. /\ disk[r] \in Row /\ mem[r] \in Row /\ log[r] \in Seq(Events)
      /\ queue[r] = <<>> /\ log' = log
      /\ Trail(r) = log[r] /\ ~Presents(<<>>) /\ log[r] \o <<>> = log[r]
  BY StretchEnds, QuietEvents, TrailGrows DEF TypeInv, TypeOK, Trail
<1>a. ASSUME Under(r)
      PROVE  /\ ~Presents(log[r]) /\ disk[r].status \in ActiveStatuses
             /\ mem[r].status \in ActiveStatuses
  BY <1>a, NothingToldEarly DEF StageOf, LogOf
<1>b. attempt[r] \in Nat
  BY LimitsAssumption DEF TypeInv, TypeOK, Attempts
<1>c. /\ {"run_created", "planner_started", "planner_completed", "worker_started",
          "worker_completed", "worker_failed", "checks_completed", "reviewer_started",
          "review_completed", "revision_requested", "revision_skipped",
          "awaiting_human"} \subseteq Events
  BY DEF Events
<1>1. CASE FreeSlot(r) \/ ToolWrites(r) \/ StageAborts(r)
  BY <1>0, <1>1 DEF FreeSlot, ToolWrites, StageAborts, TypeInv, TypeOK, TrailOf, Trail
<1>2. CASE CreateTask(r)
  <2>1. /\ pc[r] = "create" /\ pc'[r] = "scheduled" /\ queue'[r] = queue[r]
        /\ disk'[r] = disk[r]
    BY <1>2 DEF CreateTask, Continues, TypeInv, TypeOK
  <2> QED
    BY <1>0, <2>1 DEF TrailOf, Trail
<1>3. ASSUME NEW events, NEW next \in PipelineLabels, Proceed(r, events, next), Under(r),
             ~Presents(events), OnTrail(log[r] \o events, next, attempt'[r])
      PROVE  TrailOf(r)'
  <2>1. queue'[r] = events /\ pc'[r] = next /\ disk'[r] = disk[r]
    BY <1>3 DEF Proceed, TypeInv, TypeOK
  <2>2. ~Presents(log[r]) /\ disk[r].status \in ActiveStatuses
    BY <1>a, <1>3
  <2> QED
    BY <1>0, <1>3, <2>1, <2>2 DEF TrailOf, Trail, ActiveStatuses
<1>4. CASE BeginPipeline(r)
  <2>1. log[r] = <<"run_created">> /\ attempt'[r] = 1 /\ Under(r)
    BY <1>0, <1>4 DEF BeginPipeline, Resumes, Continues, TypeInv, TypeOK, TrailOf, Under
  <2> QED
    BY <1>3, <1>4, <2>1, TrailBegins, QuietEvents DEF BeginPipeline
<1>5. CASE Dispatch(r)
  <2>1. pc[r] = "dispatch" /\ attempt'[r] = attempt[r] /\ Under(r)
    BY <1>5 DEF Dispatch, Continues, Under
  <2>2. OnTrail(log[r], "work", attempt[r])
    BY <1>0, <2>1 DEF TrailOf, OnTrail
  <2> QED
    BY <1>0, <1>3, <1>5, <2>1, <2>2, QuietEvents DEF Dispatch
<1>6. CASE Revise(r)
  <2>1. pc[r] = "settle" /\ attempt'[r] = attempt[r] + 1 /\ Under(r)
    BY <1>6 DEF Revise, Continues, TypeInv, TypeOK, Under
  <2>2. Adds(log[r], log[r] \o <<"revision_requested">>, {"revision_requested"})
    BY <1>0, <1>c, TrailAdds
  <2>3. OnTrail(log[r] \o <<"revision_requested">>, "replan", attempt[r] + 1)
    BY <1>0, <1>b, <2>1, <2>2, TrailStep DEF TrailOf
  <2> QED
    BY <1>3, <1>6, <2>1, <2>3, QuietEvents DEF Revise
<1>7. CASE SkipRevision(r)
  <2>1. pc[r] = "settle" /\ attempt'[r] = attempt[r] /\ Under(r)
    BY <1>7 DEF SkipRevision, Continues, Under
  <2>2. Adds(log[r], log[r] \o <<"revision_skipped">>, {"revision_skipped"})
    BY <1>0, <1>c, TrailAdds
  <2>3. OnTrail(log[r] \o <<"revision_skipped">>, "propose", attempt[r])
    BY <1>0, <1>b, <2>1, <2>2, TrailStep DEF TrailOf
  <2> QED
    BY <1>3, <1>7, <2>1, <2>3, QuietEvents DEF SkipRevision
<1>8. ASSUME NEW row, NEW events, NEW next, Commit(r, row, events, next, "fail"), Under(r),
             attempt' = attempt, row.status \notin {"none", "awaiting_human"},
             next \in PipelineLabels, ~Presents(events),
             OnTrail(log[r] \o events, next, attempt[r])
      PROVE  TrailOf(r)'
  BY <1>0, <1>8, <1>a, CommitTrail
<1>9. CASE PlanReturns(r)
  <2> DEFINE row == [mem[r] EXCEPT !.status = "working"]
             events == <<"planner_completed", "worker_started">>
  <2>1. row.status = "working"
    BY <1>0 DEF Row
  <2>2. /\ Commit(r, row, events, "dispatch", "fail")
        /\ pc[r] = "plan" /\ Under(r) /\ attempt' = attempt
    BY <1>9 DEF PlanReturns, Resumes, Continues, Under
  <2>3. Adds(log[r], log[r] \o events, {"planner_completed", "worker_started"})
    BY <1>0, <1>c, TrailAdds
  <2>4. ~Presents(events)
    BY QuietEvents
  <2> HIDE DEF row, events
  <2>5. OnTrail(log[r] \o events, "dispatch", attempt[r])
    BY <1>0, <1>b, <2>2, <2>3, TrailStep DEF TrailOf
  <2> QED
    BY <1>8, <2>1, <2>2, <2>4, <2>5
<1>10. CASE Replan(r)
  <2> DEFINE row == [mem[r] EXCEPT !.status = "planning"]
             events == <<"planner_started">>
  <2>1. row.status = "planning"
    BY <1>0 DEF Row
  <2>2. /\ Commit(r, row, events, "plan", "fail")
        /\ pc[r] = "replan" /\ Under(r) /\ attempt' = attempt
    BY <1>10 DEF Replan, Continues, Under
  <2>3. Adds(log[r], log[r] \o events, {"planner_started"})
    BY <1>0, <1>c, TrailAdds
  <2>4. ~Presents(events)
    BY QuietEvents
  <2> HIDE DEF row, events
  <2>5. OnTrail(log[r] \o events, "plan", attempt[r])
    BY <1>0, <1>b, <2>2, <2>3, TrailStep DEF TrailOf
  <2> QED
    BY <1>8, <2>1, <2>2, <2>4, <2>5
<1>11. ASSUME NEW parsed, NEW passed, NEW acts,
              NEW event \in {"worker_completed", "worker_failed"},
              pc[r] = "work", attempt' = attempt, WorkEnds(r, parsed, acts, passed, event)
       PROVE  TrailOf(r)'
  <2> DEFINE row == [mem[r] EXCEPT
                       !.status = "reviewing",
                       !.result = [of |-> attempt[r], parsed |-> parsed,
                                   actions |-> acts],
                       !.checks = [of |-> attempt[r], passed |-> passed]]
             events == <<event, "checks_completed", "reviewer_started">>
  <2>1. row.status = "reviewing"
    BY <1>0 DEF Row
  <2>2. Commit(r, row, events, "review", "fail") /\ Under(r)
    BY <1>11 DEF WorkEnds, Under
  <2>3. Adds(log[r], log[r] \o events, {event, "checks_completed", "reviewer_started"})
    BY <1>0, <1>c, TrailAdds
  <2>4. ~Presents(events)
    BY QuietEvents
  <2> HIDE DEF row, events
  <2>5. OnTrail(log[r] \o events, "review", attempt[r])
    BY <1>0, <1>b, <1>11, <2>3, TrailStep DEF TrailOf
  <2> QED
    BY <1>8, <1>11, <2>1, <2>2, <2>4, <2>5
<1>12. CASE \E parsed, passed \in BOOLEAN, acts \in SUBSET Actions :
              WorkReturns(r, parsed, acts, passed)
  BY <1>11, <1>12 DEF WorkReturns, Resumes, Continues
<1>13. CASE WorkFails(r)
  BY <1>11, <1>13 DEF WorkFails, Resumes, Continues
<1>14. ASSUME NEW verdict \in Verdicts, ReviewReturns(r, verdict)
       PROVE  TrailOf(r)'
  <2> DEFINE row == [mem[r] EXCEPT !.review =
                       [of |-> attempt[r],
                        verdict |-> CheckFloor(verdict, mem[r].checks.passed)]]
             events == <<"review_completed">>
  <2>1. row.status = mem[r].status
    BY <1>0 DEF Row
  <2>2. /\ Commit(r, row, events, "settle", "fail")
        /\ pc[r] = "review" /\ Under(r) /\ attempt' = attempt
    BY <1>14 DEF ReviewReturns, Resumes, Continues, Under
  <2>3. Adds(log[r], log[r] \o events, {"review_completed"})
    BY <1>0, <1>c, TrailAdds
  <2>4. ~Presents(events)
    BY QuietEvents
  <2> HIDE DEF row, events
  <2>5. OnTrail(log[r] \o events, "settle", attempt[r])
    BY <1>0, <1>b, <2>2, <2>3, TrailStep DEF TrailOf
  <2>6. row.status \notin {"none", "awaiting_human"}
    BY <1>a, <2>1, <2>2 DEF ActiveStatuses
  <2> QED
    BY <1>8, <2>2, <2>4, <2>5, <2>6
<1>15. CASE Propose(r)
  <2> DEFINE row == [mem[r] EXCEPT !.status = "awaiting_human",
                                   !.proposed = mem[r].result.actions]
             events == <<"awaiting_human">>
  <2>1. row.status = "awaiting_human" /\ row.attempts = mem[r].attempts
    BY <1>0 DEF Row
  <2>2. /\ Commit(r, row, events, "idle", "fail")
        /\ pc[r] \in {"propose", "settle"} /\ Under(r) /\ attempt' = attempt
    BY <1>15 DEF Propose, Continues, Under
  <2>3. mem[r].attempts = attempt[r]
    BY <2>2 DEF CoverOf, Stamped
  <2>4. OnTrail(log[r], "propose", attempt[r])
    BY <1>0, <2>2 DEF TrailOf, OnTrail
  <2> HIDE DEF row
  <2> QED
    BY <1>0, <1>a, <2>1, <2>2, <2>3, <2>4, CommitTrail
<1>16. CASE Fail(r)
  <2> DEFINE row == [mem[r] EXCEPT !.status = "failed"]
  <2>1. row.status = "failed"
    BY <1>0 DEF Row
  <2>2. /\ Commit(r, row, <<"run_failed">>, "idle", "idle")
        /\ pc[r] = "fail" /\ attempt' = attempt
    BY <1>16 DEF Fail, Continues
  <2>3. ~Presents(log[r])
    BY <2>2 DEF LogOf
  <2> HIDE DEF row
  <2> QED
    BY <1>0, <2>1, <2>2, <2>3, CommitTrail, QuietEvents
<1>17. CASE Start(r)
  <2>1. /\ Commit(r, NewRow, <<"run_created">>, "create", "idle")
        /\ disk[r].status = "none" /\ attempt' = attempt
    BY <1>17 DEF Start
  <2>2. log[r] = <<>> /\ NewRow.status = "planning" /\ <<>> \o <<"run_created">> = <<"run_created">>
    BY <2>1 DEF TrailOf, NewRow
  <2> QED
    BY <1>0, <2>1, <2>2, CommitTrail, QuietEvents
<1>18. ASSUME NEW d \in Decisions, NEW acts \in SUBSET Actions, Decide(r, d, acts)
       PROVE  TrailOf(r)'
  <2> DEFINE status == IF d = "reject" THEN "rejected" ELSE "completed"
             final == IF d = "reject" THEN "run_rejected" ELSE "run_completed"
             row == [disk[r] EXCEPT !.status = status, !.decision = d, !.approved = acts]
  <2>1. row.status \in {"completed", "rejected"} /\ row.attempts = disk[r].attempts
    BY <1>0 DEF Row
  <2>2. /\ Commit(r, row, <<"human_decision", final>>, "idle", "idle") /\ attempt' = attempt
        /\ ~Presents(<<"human_decision", final>>)
    BY <1>18, QuietEvents DEF Decide
  <2> HIDE DEF row, final, status
  <2> QED
    BY <1>0, <2>1, <2>2, CommitTrail
<1>19. CASE FailInterrupted(r)
  <2>1. /\ disk'[r].status = "failed" /\ queue'[r] = <<"run_failed">> /\ pc' = pc
        /\ disk[r].status \in ActiveStatuses
    BY <1>19, <1>0 DEF FailInterrupted, TypeInv, TypeOK, Row
  <2>2. ~Presents(log[r]) /\ ~Presents(<<"run_failed">>)
    BY <2>1, NothingToldEarly, QuietEvents DEF LogOf
  <2>3. pc[r] = "idle"
    BY <1>19 DEF FailInterrupted
  <2> QED
    BY <1>0, <2>1, <2>2, <2>3 DEF TrailOf, Trail
<1> QED
  BY <1>1, <1>2, <1>4, <1>5, <1>6, <1>7, <1>9, <1>10, <1>12, <1>13, <1>14, <1>15, <1>16,
     <1>17, <1>18, <1>19 DEF StepOf, TaskStep, ClientStep

TrailInv == \A r \in Runs : OrderOf(r) /\ TrailOf(r)

LEMMA TrailNext ==
  TypeInv /\ DownInv /\ StageInv /\ LogInv /\ CoverInv /\ EndInv /\ TrailInv /\ [Next]_vars
    => TrailInv'
<1> SUFFICES ASSUME TypeInv, DownInv, StageInv, LogInv, CoverInv, EndInv, TrailInv, [Next]_vars
             PROVE  TrailInv'
  OBVIOUS
<1> USE DEF EndInv, StageInv, LogInv, CoverInv, TrailInv
<1>1. CASE UNCHANGED vars \/ Boot \/ Serve
  BY <1>1 DEF vars, localVars, Boot, Serve, OrderOf, TrailOf, Trail
<1>2. CASE Crash
  <2>1. \A r \in Runs : /\ queue'[r] = <<>> /\ log'[r] = log[r] /\ disk'[r] = disk[r]
                        /\ pc'[r] = "idle"
    BY <1>2 DEF Crash
  <2> QED
    BY <2>1, LabelNames, QuietEvents DEF OrderOf, TrailOf, Trail
<1>3. ASSUME NEW r \in Runs, StepOf(r), NEW q \in Runs PROVE OrderOf(q)' /\ TrailOf(q)'
  <2>1. CASE q = r
    <3>1. OrderOf(r)'
      BY <1>3, OrderStep
    <3>2. ASSUME LogEvent(r) PROVE TrailOf(r)'
      BY <3>2, LogTrail
    <3>3. ASSUME EventFault(r) PROVE TrailOf(r)'
      <4>1. /\ queue'[r] = <<>> /\ log'[r] = log[r] /\ disk'[r] = disk[r]
            /\ pc'[r] \in {"idle", "fail"} /\ queue[r] /= <<>>
        BY <3>3 DEF EventFault, TypeInv, TypeOK
      <4> QED
        BY <4>1, LabelNames, QuietEvents DEF TrailOf, Trail
    <3>4. ASSUME ~LogEvent(r), ~EventFault(r) PROVE TrailOf(r)'
      BY <1>3, <3>4, RunTrail DEF DownInv
    <3> QED
      BY <2>1, <3>1, <3>2, <3>3, <3>4
  <2>2. CASE q /= r
    <3>1. /\ disk'[q] = disk[q] /\ queue'[q] = queue[q] /\ log'[q] = log[q]
          /\ pc'[q] = pc[q] /\ attempt'[q] = attempt[q]
      BY <1>3, <2>2, Locality
    <3>2. OrderOf(q) /\ TrailOf(q)
      OBVIOUS
    <3> QED
      BY <3>1, <3>2 DEF OrderOf, TrailOf, Trail
  <2> QED
    BY <2>1, <2>2
<1> QED
  BY <1>1, <1>2, <1>3, NextCases

\* The audit passes a decided row whose trail has its proposal and its end.
LEMMA AuditedRow ==
  ASSUME TypeInv, NEW r \in Runs, CoverOf(r), EndOf(r), OrderOf(r), TrailOf(r),
         Exportable(r), disk[r].status \in DecidedStatuses,
         Reported(log[r], "awaiting_human"), Reported(log[r], Outcome(disk[r]))
  PROVE  /\ WholeTrail(log[r], disk[r].attempts)
         /\ Count(log[r], "human_decision") = 1
         /\ disk[r].checks.passed => AuditFailures(r) = {}
<1>0. /\ disk[r] \in Row /\ log[r] \in Seq(Events) /\ disk[r].attempts \in Nat
      /\ queue[r] = <<>>
  BY LimitsAssumption DEF TypeInv, TypeOK, Row, Attempts, Exportable, LoopFree, Busy
<1>1. WholeTrail(log[r], disk[r].attempts)
  BY DEF TrailOf, Presents, Reported
<1>2. /\ disk[r].decision /= "none" /\ StatusFits(disk[r])
      /\ log[r][Len(log[r])] = Outcome(disk[r])
      /\ Count(log[r], "human_decision") = 1
  BY <1>0 DEF EndOf
<1>3. ASSUME disk[r].checks.passed, NEW check \in AuditRows
      PROVE  AuditOK(disk[r], log[r], check)
  <2>1. Covered(disk[r])
    BY DEF CoverOf, Presented, DecidedStatuses
  <2>2. log[r] /= <<>> /\ log[r][1] = "run_created"
    BY <1>1 DEF WholeTrail, Tally
  <2>3. /\ Position(log[r], "awaiting_human") \in DOMAIN log[r]
        /\ log[r][Position(log[r], "awaiting_human")] = "awaiting_human"
    BY DEF Position, Reported
  <2>4. Reported(log[r], "human_decision") =>
          /\ Position(log[r], "human_decision") \in DOMAIN log[r]
          /\ log[r][Position(log[r], "human_decision")] = "human_decision"
    BY DEF Position, Reported
  <2>5. Reported(log[r], "human_decision") =>
          Position(log[r], "awaiting_human") < Position(log[r], "human_decision")
    BY <2>3, <2>4 DEF OrderOf
  <2>6. TrailEnds(disk[r], log[r])
    BY <1>2, <2>2 DEF TrailEnds, Outcome
  <2> HIDE DEF Position
  <2> QED
    BY <1>2, <1>3, <2>1, <2>2, <2>5, <2>6 DEF AuditOK, AuditRows, Covered
<1> QED
  BY <1>1, <1>2, <1>3 DEF AuditFailures

\* And only such a row.
LEMMA PassedMeansEnded ==
  ASSUME TypeInv, NEW r \in Runs, EndOf(r), Exportable(r), AuditFailures(r) = {}
  PROVE  /\ disk[r].status \in DecidedStatuses
         /\ Reported(log[r], "awaiting_human") /\ Reported(log[r], Outcome(disk[r]))
<1>0. /\ disk[r] \in Row /\ log[r] \in Seq(Events)
      /\ queue[r] = <<>>
  BY DEF TypeInv, TypeOK, Exportable, LoopFree, Busy
<1>1. \A check \in AuditRows : AuditOK(disk[r], log[r], check)
  BY DEF AuditFailures
<1>2. /\ AuditOK(disk[r], log[r], "human decision")
      /\ AuditOK(disk[r], log[r], "final status matches decision")
      /\ AuditOK(disk[r], log[r], "audit trail ends with the final event")
      /\ AuditOK(disk[r], log[r], "human decision follows awaiting_human")
  BY <1>1 DEF AuditRows
<1>3. /\ disk[r].decision /= "none" /\ StatusFits(disk[r])
      /\ TrailEnds(disk[r], log[r])
      /\ Reported(log[r], "human_decision") => Reported(log[r], "awaiting_human")
  BY <1>2 DEF AuditOK
<1>4. disk[r].status \in DecidedStatuses
  BY <1>3 DEF StatusFits, DecidedStatuses
<1>5. log[r] /= <<>> /\ log[r][Len(log[r])] = Outcome(disk[r])
  BY <1>3, <1>4 DEF TrailEnds, Outcome, DecidedStatuses, FinalStatuses
<1>6. Reported(log[r], Outcome(disk[r]))
  <2>1. Len(log[r]) \in DOMAIN log[r]
    BY <1>0, <1>5
  <2> QED
    BY <1>5, <2>1 DEF Reported
<1>7. Count(log[r], "human_decision") = 1
  BY <1>0, <1>4, <1>6 DEF EndOf
<1>8. Reported(log[r], "human_decision")
  <2>1. Count(log[r], "human_decision") = 0 <=> ~Reported(log[r], "human_decision")
    BY <1>0, CountType
  <2> QED
    BY <1>7, <2>1
<1> QED
  BY <1>3, <1>4, <1>6, <1>8

\* A run the audit passes has a whole trail, each stage once per attempt and the
\* decision once; a decided run it fails had failing checks signed off, or lost
\* the proposal or the end of its trail.
THEOREM AuditsTellTruth == Spec => []AuditTellsTruth
<1>1. Init => DownInv /\ StageInv /\ LogInv /\ CoverInv /\ EndInv /\ TrailInv
  <2> SUFFICES ASSUME Init PROVE DownInv /\ StageInv /\ LogInv /\ CoverInv /\ EndInv /\ TrailInv
    OBVIOUS
  <2>1. DownInv /\ StageInv /\ LogInv /\ CoverInv
    BY QuietEvents, LabelNames, PlainEvents
       DEF Init, DownInv, StageInv, StageOf, Under, NoRow, NewRow, LogInv, LogOf, CoverInv,
           CoverOf, Stamped, Presented
  <2>2. EndInv /\ TrailInv
    BY QuietEvents, LabelNames, NoVotes
       DEF Init, NoRow, NewRow, EndInv, EndOf, DecidedStatuses, TrailInv, OrderOf, TrailOf
  <2> QED
    BY <2>1, <2>2
<1>2. TypeInv /\ CoverInv /\ EndInv /\ TrailInv => AuditTellsTruth
  <2> SUFFICES ASSUME TypeInv, CoverInv, EndInv, TrailInv PROVE AuditTellsTruth
    OBVIOUS
  <2> USE DEF CoverInv, EndInv, TrailInv
  <2>1. PassedAuditMeansWholeTrail
    <3>1. ASSUME NEW r \in Runs, Exportable(r), AuditFailures(r) = {}
          PROVE  /\ disk[r].status \in DecidedStatuses
                 /\ WholeTrail(log[r], disk[r].attempts)
                 /\ Count(log[r], "human_decision") = 1
      BY <3>1, PassedMeansEnded, AuditedRow
    <3>2. \A r \in Runs : \A e : Times(r, e) = Count(log[r], e)
      BY DEF Times, Count
    <3> QED
      BY <3>1, <3>2 DEF PassedAuditMeansWholeTrail, WholeTrail, Tally, DecidedStatuses
  <2>2. AuditFailsForCause
    BY AuditedRow DEF AuditFailsForCause, DecidedStatuses, Outcome
  <2> QED
    BY <2>1, <2>2 DEF AuditTellsTruth
<1> QED
  BY <1>1, <1>2, TypeInit, TypeNext, DownNext, StageNext, LogNext, CoverNext, EndNext,
     TrailNext, PTL DEF Spec
=============================================================================
