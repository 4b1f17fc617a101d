-------------------------- MODULE ExpenseStore_proof --------------------------
(***************************************************************************)
(* TLAPS proofs about student 5's service, for any budgets, expenses, runs *)
(* and users, any amounts and windows, however trips are moved, and        *)
(* whatever forms, edits and proposals are sent.  BudgetStore's half comes *)
(* first.                                                                  *)
(***************************************************************************)
EXTENDS ExpenseStore, FiniteSetTheorems, TLAPS

-----------------------------------------------------------------------------
(* Types of the budgets                                                    *)

ServerTyped ==
  /\ phase \in [Runs -> {"none", "active", "awaiting", "completed", "rejected", "failed"}]
  /\ shown \in [Runs -> SUBSET Changes]
  /\ decision \in [Runs -> Verdict \cup {"none"}]
  /\ approved \in [Runs -> SUBSET Changes]

\* What a request has when it goes on.
LEMMA RequestTyped ==
  ASSUME TypeOK, NEW u \in Users
  PROVE  /\ requests[u] \in Request
         /\ requests[u].at \in {"insert", "write", "delete", "decide", "apply", "patch"}
              => requests[u].budget \in Budgets
         /\ requests[u].at = "insert" => requests[u].row \in Row
         /\ requests[u].at = "write" => requests[u].row \in Row /\ requests[u].run \in Runs \cup {NoRun}
         /\ requests[u].at = "decide" => requests[u].verdict \in Verdict /\ requests[u].kept \in SUBSET Changes
         /\ requests[u].at \in {"decide", "apply", "patch"} => requests[u].run \in Runs
         /\ requests[u].at = "patch" => requests[u].changes \in Payload
<1>1. requests[u] \in Request
  BY DEF TypeOK
<1> QED
  BY <1>1, BudgetAssumption DEF Request, Idle

LEMMA ServerStepTyped ==
  ASSUME ServerTyped, NEW r \in Runs,
         \/ Server!Create(r) \/ Server!Present(r) \/ Server!Fail(r)
         \/ \E verdict \in Verdict, kept \in SUBSET Changes : ServerDecides(r, verdict, kept)
  PROVE  ServerTyped'
<1>1. CASE Server!Create(r) \/ Server!Fail(r)
  BY <1>1 DEF ServerTyped, Server!Create, Server!Fail, Server!Move
<1>2. CASE Server!Present(r)
  BY <1>2 DEF ServerTyped, Server!Present, Server!Move
<1>3. ASSUME NEW d \in Verdict, NEW acts \in SUBSET Changes, Server!Decide(r, d, acts),
             Server!Move(r, "awaiting", "completed") \/ Server!Move(r, "awaiting", "rejected")
      PROVE  ServerTyped'
  BY <1>3 DEF ServerTyped, Server!Decide, Server!Move
<1>4. ASSUME NEW verdict \in Verdict, NEW kept \in SUBSET Changes, ServerDecides(r, verdict, kept)
      PROVE  ServerTyped'
  <2>1. CASE Server!Approve(r)
    <3>1. shown[r] \in SUBSET Changes
      BY DEF ServerTyped
    <3> QED
      BY <1>3, <2>1, <3>1 DEF Server!Approve, Verdict
  <2>2. CASE Server!AcceptPart(r)
    <3>1. shown[r] \in SUBSET Changes
      BY DEF ServerTyped
    <3>2. PICK acts \in (SUBSET shown[r]) \ {{}} : Server!Decide(r, "partial", acts)
      BY <2>2 DEF Server!AcceptPart
    <3> QED
      BY <1>3, <2>2, <3>1, <3>2 DEF Server!AcceptPart, Verdict
  <2>3. CASE Server!Correct(r)
    BY <1>3, <2>3 DEF Server!Correct, Verdict
  <2>4. CASE Server!Reject(r)
    BY <1>3, <2>4 DEF Server!Reject, Verdict
  <2> QED
    BY <1>4, <2>1, <2>2, <2>3, <2>4 DEF ServerDecides
<1> QED
  BY <1>1, <1>2, <1>4

LEMMA MergeTyped ==
  ASSUME NEW row \in Row, NEW changes \in Payload
  PROVE  Merge(row, changes) \in Row
<1>1. changes.trip \in Trips \cup {NoTrip}
      /\ \A a \in DOMAIN changes.money : changes.money[a] \in Money
  BY DEF Payload
<1>2. row.trip \in Trips /\ row.money \in [Accounts -> Money]
  BY DEF Row
<1> QED
  BY <1>1, <1>2 DEF Merge, Row

LEMMA SeededTyped ==
  ASSUME budgets \in [Budgets -> Row \cup {NoRow}]
  PROVE  Seeded \in [Budgets -> Row \cup {NoRow}]
BY BudgetAssumption DEF Seeded

LEMMA InitTyped == Init => TypeOK
BY BudgetAssumption DEF Init, TypeOK, Server!Init, Request

\* A request that becomes another one while no row and no run changes.
LEMMA BecomeTyped ==
  ASSUME TypeOK, NEW u \in Users, NEW q \in Request, Becomes(u, q),
         UNCHANGED <<budgets, server, about, applied>>
  PROVE  TypeOK'
BY DEF TypeOK, Becomes, server

LEMMA UpdateReadsTyped ==
  ASSUME TypeOK, NEW u \in Users, NEW b \in Budgets, NEW changes \in Payload,
         NEW run \in Runs \cup {NoRun}, UpdateReads(u, b, changes, run)
  PROVE  TypeOK'
<1>1. budgets[b] \in Row
  BY DEF TypeOK, UpdateReads
<1>2. Merge(budgets[b], changes) \in Row
  BY <1>1, MergeTyped
<1>3. [at |-> "write", budget |-> b, row |-> Merge(budgets[b], changes), run |-> run] \in Request
  BY <1>2 DEF Request
<1> QED
  BY <1>3, BecomeTyped DEF UpdateReads

LEMMA UserStepTyped ==
  ASSUME TypeOK, NEW u \in Users, UserStep(u)
  PROVE  TypeOK'
<1>0. Idle \in Request
  BY DEF Request
<1>1. ASSUME NEW b \in Budgets, NEW row \in Forms, CreateChecks(u, b, row) PROVE TypeOK'
  <2>1. [at |-> "insert", budget |-> b, row |-> row] \in Request
    BY DEF Request
  <2> QED
    BY <1>1, <2>1, BecomeTyped DEF CreateChecks
<1>2. ASSUME NEW b \in Budgets, NEW changes \in Edits, UserUpdates(u, b, changes) PROVE TypeOK'
  <2>1. changes \in Payload
    BY BudgetAssumption
  <2> QED
    BY <1>2, <2>1, UpdateReadsTyped DEF UserUpdates
<1>3. ASSUME NEW b \in Budgets, DeleteLooks(u, b) PROVE TypeOK'
  <2>1. [at |-> "delete", budget |-> b] \in Request
    BY DEF Request
  <2> QED
    BY <1>3, <2>1, BecomeTyped DEF DeleteLooks
<1>4. ASSUME NEW b \in Budgets, NEW r \in Runs, NEW ticked \in SUBSET shown[r],
             NEW amounts \in [ticked -> Money], ReviewReads(u, b, r, ticked, amounts)
      PROVE  TypeOK'
  <2>1. PICK verdict \in ReviewBodies(shown[r], ticked, Edited(ticked, amounts)) :
          Becomes(u, [at |-> "decide", budget |-> b, run |-> r, verdict |-> verdict,
                      kept |-> Edited(ticked, amounts)])
    BY <1>4 DEF ReviewReads
  <2>2. verdict \in Verdict
    BY DEF ReviewBodies, Verdict
  <2>3. Edited(ticked, amounts) \in SUBSET Changes
    BY <1>4 DEF ReviewReads
  <2>4. [at |-> "decide", budget |-> b, run |-> r, verdict |-> verdict,
         kept |-> Edited(ticked, amounts)] \in Request
    BY <2>2, <2>3 DEF Request
  <2> QED
    BY <1>4, <2>1, <2>4, BecomeTyped DEF ReviewReads
<1>5. CASE CreateInserts(u)
  BY <1>0, <1>5, RequestTyped DEF CreateInserts, TypeOK, Becomes, server
<1>6. CASE UpdateWrites(u)
  <2>1. requests[u].budget \in Budgets /\ requests[u].row \in Row /\ requests[u].run \in Runs \cup {NoRun}
    BY <1>6, RequestTyped DEF UpdateWrites
  <2>2. budgets' \in [Budgets -> Row \cup {NoRow}]
    BY <1>6, <2>1 DEF UpdateWrites, TypeOK
  <2>3. applied' \in [Runs -> Nat]
    BY <1>6, <2>1 DEF UpdateWrites, TypeOK
  <2> QED
    BY <1>0, <1>6, <2>2, <2>3 DEF UpdateWrites, TypeOK, Becomes, server
<1>7. CASE DeleteWrites(u)
  BY <1>0, <1>7, RequestTyped DEF DeleteWrites, TypeOK, Becomes, server
<1>8. CASE ReviewPosts(u) \/ ReviewUnheard(u)
  <2> DEFINE q == requests[u]
  <2>1. q.at = "decide" /\ ServerDecides(q.run, q.verdict, q.kept) /\ UNCHANGED <<budgets, about, applied>>
    BY <1>8 DEF ReviewPosts, ReviewUnheard
  <2>2. q.run \in Runs /\ q.verdict \in Verdict /\ q.kept \in SUBSET Changes /\ q.budget \in Budgets
    BY <2>1, RequestTyped
  <2>3. ServerTyped'
    BY <2>1, <2>2, ServerStepTyped DEF TypeOK, ServerTyped
  <2>4. [at |-> "apply", budget |-> q.budget, run |-> q.run] \in Request
    BY <2>2 DEF Request
  <2>5. \E request \in Request : Becomes(u, request)
    BY <1>0, <1>8, <2>4 DEF ReviewPosts, ReviewUnheard
  <2> QED
    BY <2>1, <2>3, <2>5 DEF TypeOK, ServerTyped, Becomes
<1>9. CASE ApplyChecks(u)
  <2>1. PICK changes \in Allocations(approved[requests[u].run]) :
          Becomes(u, [at |-> "patch", budget |-> requests[u].budget, run |-> requests[u].run,
                      changes |-> changes])
    BY <1>9 DEF ApplyChecks
  <2>2. [at |-> "patch", budget |-> requests[u].budget, run |-> requests[u].run,
         changes |-> changes] \in Request
    BY <1>9, RequestTyped DEF ApplyChecks, Request, Allocations
  <2> QED
    BY <1>9, <2>1, <2>2, BecomeTyped DEF ApplyChecks
<1>10. CASE ApplyReads(u)
  BY <1>10, RequestTyped, UpdateReadsTyped DEF ApplyReads
<1>11. CASE Refuse(u)
  BY <1>0, <1>11, BecomeTyped DEF Refuse
<1> QED
  BY <1>1, <1>2, <1>3, <1>4, <1>5, <1>6, <1>7, <1>8, <1>9, <1>10, <1>11 DEF UserStep

LEMMA NextTyped == TypeOK /\ [Next]_vars => TypeOK'
<1> SUFFICES ASSUME TypeOK, [Next]_vars PROVE TypeOK'
  OBVIOUS
<1>1. ASSUME NEW u \in Users, UserStep(u) PROVE TypeOK'
  BY <1>1, UserStepTyped
<1>2. ASSUME NEW r \in Runs, StartRun(r) \/ ServerWorks(r) PROVE TypeOK'
  BY <1>2, ServerStepTyped DEF StartRun, ServerWorks, TypeOK, ServerTyped
<1>3. CASE Restarts
  BY <1>3, SeededTyped DEF Restarts, TypeOK, server, Request
<1>4. CASE UNCHANGED vars
  BY <1>4 DEF vars, TypeOK
<1> QED
  BY <1>1, <1>2, <1>3, <1>4 DEF Next

\* The rows of the store, the requests in flight and the runs they are about keep their
\* types, in-flight requests over a restart included.
THEOREM BudgetsTyped == Spec => []TypeOK
BY InitTyped, NextTyped, PTL DEF Spec

-----------------------------------------------------------------------------
(* The table of budgets                                                    *)

\* Every row that is stored, or that a request carries to the table, fits.
RowsFit == \A b \in Budgets : budgets[b] /= NoRow => Fits(budgets[b])
RequestsFit == \A u \in Users : requests[u].at \in {"insert", "write"} => Fits(requests[u].row)

\* A trip has one budget.
TripsOnce == \A b, other \in Budgets : budgets[b] /= NoRow /\ budgets[other] /= NoRow
                                       /\ budgets[b].trip = budgets[other].trip => b = other

TableInv == RowsFit /\ RequestsFit /\ TripsOnce

LEMMA InitTable == Init => TableInv
<1> SUFFICES ASSUME Init PROVE TableInv
  OBVIOUS
<1>1. \A b \in Budgets : budgets[b] /= NoRow => b \in DOMAIN Seeds /\ budgets[b] = Seeds[b]
  BY DEF Init
<1>2. RowsFit /\ TripsOnce
  BY <1>1, SeedAssumption DEF RowsFit, TripsOnce
<1>3. RequestsFit
  BY DEF Init, RequestsFit, Idle
<1> QED
  BY <1>2, <1>3 DEF TableInv

\* A request that goes on with a row that fits, or without one.
LEMMA BecomeTable ==
  ASSUME TypeOK, TableInv, NEW u \in Users, NEW q, Becomes(u, q), UNCHANGED budgets,
         q.at \in {"insert", "write"} => Fits(q.row)
  PROVE  TableInv'
<1>1. requests' = [requests EXCEPT ![u] = q]
  BY DEF Becomes
<1>2. RequestsFit'
  BY <1>1 DEF TypeOK, TableInv, RequestsFit
<1> QED
  BY <1>2 DEF TableInv, RowsFit, TripsOnce

\* A row that fits, for a trip that is free, is stored, or a row is deleted.
LEMMA StoreTable ==
  ASSUME TypeOK, TableInv, NEW u \in Users, NEW b \in Budgets, NEW row,
         budgets' = [budgets EXCEPT ![b] = row], Becomes(u, Idle),
         row = NoRow \/ (Fits(row) /\ TripFree(b, row.trip))
  PROVE  TableInv'
<1>1. requests' = [requests EXCEPT ![u] = Idle]
  BY DEF Becomes
<1>2. RequestsFit'
  BY <1>1 DEF TypeOK, TableInv, RequestsFit, Idle
<1>3. \A other \in Budgets : budgets'[other] = IF other = b THEN row ELSE budgets[other]
  BY DEF TypeOK
<1>4. RowsFit'
  BY <1>3 DEF TableInv, RowsFit
<1>5. TripsOnce'
  BY <1>3 DEF TableInv, TripsOnce, TripFree
<1> QED
  BY <1>2, <1>4, <1>5 DEF TableInv

LEMMA UpdateReadsTable ==
  ASSUME TypeOK, TableInv, NEW u \in Users, NEW b, NEW changes, NEW run,
         UpdateReads(u, b, changes, run)
  PROVE  TableInv'
<1> DEFINE row == Merge(budgets[b], changes)
           q == [at |-> "write", budget |-> b, row |-> row, run |-> run]
<1>1. Fits(row) /\ Becomes(u, q) /\ UNCHANGED budgets
  BY DEF UpdateReads
<1>2. q.at = "write" /\ q.row = row
  OBVIOUS
<1> HIDE DEF q, row
<1> QED
  BY <1>1, <1>2, BecomeTable

LEMMA UserStepTable ==
  ASSUME TypeOK, TableInv, NEW u \in Users, UserStep(u)
  PROVE  TableInv'
<1>1. ASSUME NEW b \in Budgets, NEW row \in Forms, CreateChecks(u, b, row) PROVE TableInv'
  BY <1>1, BecomeTable DEF CreateChecks
<1>2. ASSUME NEW b \in Budgets, NEW changes \in Edits, UserUpdates(u, b, changes) PROVE TableInv'
  BY <1>2, UpdateReadsTable DEF UserUpdates
<1>3. ASSUME NEW b \in Budgets, DeleteLooks(u, b) PROVE TableInv'
  BY <1>3, BecomeTable DEF DeleteLooks
<1>4. ASSUME NEW b \in Budgets, NEW r \in Runs, NEW ticked \in SUBSET shown[r],
             NEW amounts \in [ticked -> Money], ReviewReads(u, b, r, ticked, amounts)
      PROVE  TableInv'
  <2>1. PICK verdict : Becomes(u, [at |-> "decide", budget |-> b, run |-> r, verdict |-> verdict,
                                   kept |-> Edited(ticked, amounts)])
    BY <1>4 DEF ReviewReads
  <2> QED
    BY <1>4, <2>1, BecomeTable DEF ReviewReads
<1>5. CASE CreateInserts(u)
  <2>1. requests[u].budget \in Budgets /\ Fits(requests[u].row)
    BY <1>5, RequestTyped DEF CreateInserts, TableInv, RequestsFit
  <2> QED
    BY <1>5, <2>1, StoreTable DEF CreateInserts
<1>6. CASE UpdateWrites(u)
  <2>1. requests[u].budget \in Budgets /\ Fits(requests[u].row)
    BY <1>6, RequestTyped DEF UpdateWrites, TableInv, RequestsFit
  <2>2. CASE UNCHANGED budgets
    BY <1>6, <2>2, BecomeTable DEF UpdateWrites, Idle
  <2>3. CASE ~UNCHANGED budgets
    <3>1. /\ TripFree(requests[u].budget, requests[u].row.trip)
          /\ budgets' = [budgets EXCEPT ![requests[u].budget] = requests[u].row]
          /\ Becomes(u, Idle)
      BY <1>6, <2>3 DEF UpdateWrites
    <3> QED
      BY <2>1, <3>1, StoreTable
  <2> QED
    BY <2>2, <2>3
<1>7. CASE DeleteWrites(u)
  BY <1>7, RequestTyped, StoreTable DEF DeleteWrites
<1>8. CASE ReviewPosts(u) \/ ReviewUnheard(u)
  <2> DEFINE sent == [at |-> "apply", budget |-> requests[u].budget, run |-> requests[u].run]
  <2>1. UNCHANGED budgets /\ (Becomes(u, Idle) \/ Becomes(u, sent))
    BY <1>8 DEF ReviewPosts, ReviewUnheard
  <2>2. Idle.at = "idle" /\ sent.at = "apply"
    BY DEF Idle
  <2> HIDE DEF sent
  <2> QED
    BY <2>1, <2>2, BecomeTable
<1>9. CASE ApplyChecks(u)
  <2>1. PICK changes : Becomes(u, [at |-> "patch", budget |-> requests[u].budget,
                                   run |-> requests[u].run, changes |-> changes])
    BY <1>9 DEF ApplyChecks
  <2> QED
    BY <1>9, <2>1, BecomeTable DEF ApplyChecks
<1>10. CASE ApplyReads(u)
  BY <1>10, UpdateReadsTable DEF ApplyReads
<1>11. CASE Refuse(u)
  BY <1>11, BecomeTable DEF Refuse, Idle
<1> QED
  BY <1>1, <1>2, <1>3, <1>4, <1>5, <1>6, <1>7, <1>8, <1>9, <1>10, <1>11 DEF UserStep

\* A seed comes back only where neither its id nor its trip is taken.
LEMMA RestartTable ==
  ASSUME TypeOK, TableInv, Restarts
  PROVE  TableInv'
<1>1. \A b \in Budgets : \/ budgets'[b] = budgets[b]
                         \/ /\ b \in DOMAIN Seeds /\ budgets'[b] = Seeds[b]
                            /\ budgets[b] = NoRow /\ TripFree(b, Seeds[b].trip)
  BY DEF Restarts, Seeded
<1>2. RowsFit'
  BY <1>1, SeedAssumption DEF TableInv, RowsFit
<1>3. TripsOnce'
  <2> SUFFICES ASSUME NEW b \in Budgets, NEW other \in Budgets, budgets'[b] /= NoRow,
                      budgets'[other] /= NoRow, budgets'[b].trip = budgets'[other].trip
               PROVE  b = other
    BY DEF TripsOnce
  <2>1. CASE budgets'[b] = budgets[b] /\ budgets'[other] = budgets[other]
    BY <2>1 DEF TableInv, TripsOnce
  <2>2. CASE budgets'[b] = budgets[b] /\ budgets'[other] /= budgets[other]
    BY <1>1, <2>2 DEF TripFree
  <2>3. CASE budgets'[b] /= budgets[b] /\ budgets'[other] = budgets[other]
    BY <1>1, <2>3 DEF TripFree
  <2>4. CASE budgets'[b] /= budgets[b] /\ budgets'[other] /= budgets[other]
    BY <1>1, <2>4, SeedAssumption
  <2> QED
    BY <2>1, <2>2, <2>3, <2>4
<1>4. RequestsFit'
  <2>1. \A u \in Users : requests'[u] \in {Idle, requests[u]}
    BY DEF Restarts
  <2> QED
    BY <2>1 DEF TableInv, RequestsFit, Idle
<1> QED
  BY <1>2, <1>3, <1>4 DEF TableInv

LEMMA NextTable == TypeOK /\ TableInv /\ [Next]_vars => TableInv'
<1> SUFFICES ASSUME TypeOK, TableInv, [Next]_vars PROVE TableInv'
  OBVIOUS
<1>1. ASSUME NEW u \in Users, UserStep(u) PROVE TableInv'
  BY <1>1, UserStepTable
<1>2. ASSUME NEW r \in Runs, StartRun(r) \/ ServerWorks(r) PROVE TableInv'
  BY <1>2 DEF StartRun, ServerWorks, TableInv, RowsFit, RequestsFit, TripsOnce
<1>3. CASE Restarts
  BY <1>3, RestartTable
<1>4. CASE UNCHANGED vars
  BY <1>4 DEF vars, TableInv, RowsFit, RequestsFit, TripsOnce
<1> QED
  BY <1>1, <1>2, <1>3, <1>4 DEF Next

LEMMA TableInvSound == TableInv => BudgetsAreSound
BY DEF TableInv, RowsFit, TripsOnce, Fits, BudgetsAreSound

\* Whatever updates, reviewed changes, deletions and restarts overlap, the allocations
\* of every stored budget fit its total, and a trip has at most one budget.
THEOREM BudgetsStaySound == Spec => []BudgetsAreSound
BY BudgetsTyped, InitTable, NextTable, TableInvSound, PTL DEF Spec

-----------------------------------------------------------------------------
(* The approved changes of a run                                           *)

\* The requests that are on their way to write what a run's reviewer approved.
Applying(u, r) == requests[u].at \in {"apply", "patch", "write"} /\ requests[u].run = r

\* A run is applied by one request only, and only that of its one decision.
AppliedOnce ==
  \A r \in Runs :
    /\ applied[r] \in {0, 1}
    /\ applied[r] = 1 => phase[r] = "completed"
    /\ \A u \in Users : Applying(u, r) =>
         /\ applied[r] = 0 /\ phase[r] = "completed"
         /\ \A v \in Users : Applying(v, r) => u = v

AppliedAsAsked ==
  \A u \in Users : requests[u].at \in {"patch", "write"} /\ requests[u].run /= NoRun
    => /\ requests[u].budget = about[requests[u].run]
       /\ requests[u].at = "patch" =>
            requests[u].changes \in Allocations(approved[requests[u].run])

RunInv == AppliedOnce /\ AppliedAsAsked

LEMMA InitRuns == Init => RunInv
BY DEF Init, RunInv, AppliedOnce, AppliedAsAsked, Applying, Idle

\* The server carries out one decision of a run that waits for it, or works on one
\* that nobody can have decided; it leaves completed runs alone.
LEMMA ServerLeavesCompleted ==
  ASSUME ServerTyped, NEW r \in Runs,
         \/ Server!Create(r) \/ Server!Present(r) \/ Server!Fail(r)
         \/ \E verdict \in Verdict, kept \in SUBSET Changes : ServerDecides(r, verdict, kept)
  PROVE  /\ phase[r] /= "completed"
         /\ \A other \in Runs \ {r} : phase'[other] = phase[other] /\ approved'[other] = approved[other]
<1>1. /\ phase[r] \in {"none", "active", "awaiting"}
      /\ \E p : phase' = [phase EXCEPT ![r] = p]
      /\ approved' = approved \/ \E acts : approved' = [approved EXCEPT ![r] = acts]
  BY DEF ServerDecides, Server!Create, Server!Present, Server!Fail, Server!Approve,
         Server!AcceptPart, Server!Correct, Server!Reject, Server!Move, Server!Decide
<1> QED
  BY <1>1 DEF ServerTyped

LEMMA DecideCompletes ==
  ASSUME ServerTyped, NEW r \in Runs, NEW verdict, NEW kept, ServerDecides(r, verdict, kept)
  PROVE  phase'[r] = "completed" \/ approved'[r] = {}
BY DEF ServerTyped, ServerDecides, Server!Approve, Server!AcceptPart, Server!Correct,
       Server!Reject, Server!Move, Server!Decide

\* A request that does not bring another one on its way, while the runs stay.
LEMMA BecomeRuns ==
  ASSUME TypeOK, RunInv, NEW u \in Users, NEW q, Becomes(u, q), UNCHANGED <<server, about>>,
         q.at \in {"apply", "patch", "write"} /\ q.run /= NoRun
           => Applying(u, q.run) /\ UNCHANGED applied,
         q.at \in {"patch", "write"} /\ q.run /= NoRun
           => /\ q.budget = about[q.run]
              /\ q.at = "patch" => q.changes \in Allocations(approved[q.run]),
         \/ UNCHANGED applied
         \/ \E r \in Runs : Applying(u, r) /\ applied' = [applied EXCEPT ![r] = @ + 1]
  PROVE  RunInv'
<1>1. /\ \A v \in Users : requests'[v] = IF v = u THEN q ELSE requests[v]
      /\ UNCHANGED <<phase, approved, about>>
  BY DEF TypeOK, Becomes, server
<1>2. \A v \in Users, r \in Runs : Applying(v, r)' => Applying(v, r) /\ (v = u => UNCHANGED applied)
  BY <1>1, BudgetAssumption DEF Applying
<1>3. AppliedOnce'
  <2> SUFFICES ASSUME NEW r \in Runs
               PROVE  /\ applied'[r] \in {0, 1}
                      /\ applied'[r] = 1 => phase[r] = "completed"
                      /\ \A v \in Users : Applying(v, r)' =>
                           /\ applied'[r] = 0 /\ phase[r] = "completed"
                           /\ \A w \in Users : Applying(w, r)' => v = w
    BY <1>1 DEF AppliedOnce
  <2>1. CASE applied'[r] = applied[r]
    BY <1>2, <2>1 DEF RunInv, AppliedOnce
  <2>2. CASE applied'[r] /= applied[r]
    <3>1. Applying(u, r) /\ applied'[r] = applied[r] + 1
      BY <2>2 DEF TypeOK
    <3>2. applied[r] = 0 /\ phase[r] = "completed"
      BY <3>1 DEF RunInv, AppliedOnce
    <3>3. \A v \in Users : ~Applying(v, r)'
      BY <1>2, <2>2, <3>1 DEF RunInv, AppliedOnce
    <3> QED
      BY <3>1, <3>2, <3>3
  <2> QED
    BY <2>1, <2>2
<1>4. AppliedAsAsked'
  BY <1>1 DEF RunInv, AppliedAsAsked, Allocations
<1> QED
  BY <1>3, <1>4 DEF RunInv

\* A decision that is carried out: its request may go on, and there is no other.
LEMMA ReviewRuns ==
  ASSUME TypeOK, RunInv, NEW u \in Users, ReviewPosts(u) \/ ReviewUnheard(u)
  PROVE  RunInv'
<1> DEFINE r == requests[u].run
           sent == [at |-> "apply", budget |-> requests[u].budget, run |-> r]
<1>1. /\ requests[u].at = "decide"
      /\ ServerDecides(r, requests[u].verdict, requests[u].kept)
      /\ UNCHANGED <<about, applied>>
  BY DEF ReviewPosts, ReviewUnheard
<1>2. r \in Runs /\ requests[u].verdict \in Verdict /\ requests[u].kept \in SUBSET Changes
  BY <1>1, RequestTyped
<1>3. ServerTyped
  BY DEF TypeOK, ServerTyped
<1>4. /\ phase[r] /= "completed"
      /\ \A other \in Runs \ {r} : phase'[other] = phase[other] /\ approved'[other] = approved[other]
  BY <1>1, <1>2, <1>3, ServerLeavesCompleted
<1>5. phase'[r] = "completed" \/ approved'[r] = {}
  BY <1>1, <1>2, <1>3, DecideCompletes
<1>6. Idle.at = "idle" /\ sent.at = "apply" /\ sent.run = r
  BY DEF Idle
<1>7. PICK q \in {Idle, sent} :
        /\ \A v \in Users : requests'[v] = IF v = u THEN q ELSE requests[v]
        /\ q.at = "apply" => phase'[r] = "completed" /\ q.run = r
        /\ q.at \notin {"patch", "write"}
  <2>1. CASE Becomes(u, Idle)
    BY <1>6, <2>1 DEF Becomes, TypeOK
  <2>2. CASE ~Becomes(u, Idle)
    <3>1. approved'[r] /= {} /\ Becomes(u, sent)
      BY <2>2 DEF ReviewPosts, ReviewUnheard
    <3> HIDE DEF sent, r
    <3> QED
      BY <1>5, <1>6, <3>1 DEF Becomes, TypeOK
  <2> QED
    BY <2>1, <2>2
<1>8. ~Applying(u, r) /\ applied[r] = 0 /\ \A v \in Users : ~Applying(v, r)
  BY <1>2, <1>4 DEF RunInv, AppliedOnce
<1>9. ASSUME NEW v \in Users, NEW other \in Runs, Applying(v, other)'
      PROVE  \/ Applying(v, other) /\ other /= r /\ v /= u
             \/ v = u /\ other = r /\ phase'[r] = "completed"
  <2>1. CASE v = u
    <3>1. requests'[v] = q /\ q.at \notin {"patch", "write"}
      BY <1>7, <2>1
    <3>2. requests'[v].at \in {"apply", "patch", "write"} /\ requests'[v].run = other
      BY <1>9 DEF Applying
    <3>3. q.at = "apply" /\ q.run = other
      BY <3>1, <3>2
    <3>4. phase'[r] = "completed" /\ q.run = r
      BY <1>7, <3>3
    <3> QED
      BY <2>1, <3>3, <3>4
  <2>2. CASE v /= u
    BY <1>7, <1>8, <1>9, <2>2 DEF Applying
  <2> QED
    BY <2>1, <2>2
<1>10. AppliedOnce'
  <2> SUFFICES ASSUME NEW other \in Runs
               PROVE  /\ applied[other] \in {0, 1}
                      /\ applied[other] = 1 => phase'[other] = "completed"
                      /\ \A v \in Users : Applying(v, other)' =>
                           /\ applied[other] = 0 /\ phase'[other] = "completed"
                           /\ \A w \in Users : Applying(w, other)' => v = w
    BY <1>1 DEF AppliedOnce
  <2>1. CASE other = r
    BY <1>2, <1>8, <1>9, <2>1
  <2>2. CASE other /= r
    BY <1>4, <1>9, <2>2 DEF RunInv, AppliedOnce
  <2> QED
    BY <2>1, <2>2
<1>11. AppliedAsAsked'
  <2> SUFFICES ASSUME NEW v \in Users, requests'[v].at \in {"patch", "write"}, requests'[v].run /= NoRun
               PROVE  /\ requests'[v].budget = about[requests'[v].run]
                      /\ requests'[v].at = "patch" =>
                           requests'[v].changes \in Allocations(approved'[requests'[v].run])
    BY <1>1 DEF AppliedAsAsked, Allocations
  <2>1. v /= u /\ requests'[v] = requests[v]
    BY <1>7
  <2>2. requests[v].run \in Runs
    BY <2>1, RequestTyped
  <2>3. requests[v].run /= r
    BY <1>8, <2>1 DEF Applying
  <2>4. approved'[requests[v].run] = approved[requests[v].run]
    BY <1>4, <2>2, <2>3
  <2> QED
    BY <2>1, <2>4 DEF RunInv, AppliedAsAsked
<1> QED
  BY <1>10, <1>11 DEF RunInv

LEMMA UpdateReadsRuns ==
  ASSUME TypeOK, RunInv, NEW u \in Users, NEW b \in Budgets, NEW changes, NEW run,
         UpdateReads(u, b, changes, run),
         run /= NoRun => Applying(u, run) /\ b = about[run]
  PROVE  RunInv'
<1> DEFINE q == [at |-> "write", budget |-> b, row |-> Merge(budgets[b], changes), run |-> run]
<1>1. Becomes(u, q) /\ UNCHANGED <<server, about, applied>>
  BY DEF UpdateReads
<1>2. q.at = "write" /\ q.run = run /\ q.budget = b
  OBVIOUS
<1> HIDE DEF q
<1> QED
  BY <1>1, <1>2, BecomeRuns

LEMMA UserStepRuns ==
  ASSUME TypeOK, RunInv, NEW u \in Users, UserStep(u)
  PROVE  RunInv'
<1>0. Idle.at = "idle"
  BY DEF Idle
<1>1. ASSUME NEW b \in Budgets, NEW row \in Forms, CreateChecks(u, b, row) PROVE RunInv'
  BY <1>1, BecomeRuns DEF CreateChecks
<1>2. ASSUME NEW b \in Budgets, NEW changes \in Edits, UserUpdates(u, b, changes) PROVE RunInv'
  BY <1>2, UpdateReadsRuns DEF UserUpdates
<1>3. ASSUME NEW b \in Budgets, DeleteLooks(u, b) PROVE RunInv'
  BY <1>3, BecomeRuns DEF DeleteLooks
<1>4. ASSUME NEW b \in Budgets, NEW r \in Runs, NEW ticked \in SUBSET shown[r],
             NEW amounts \in [ticked -> Money], ReviewReads(u, b, r, ticked, amounts)
      PROVE  RunInv'
  <2>1. PICK verdict : Becomes(u, [at |-> "decide", budget |-> b, run |-> r, verdict |-> verdict,
                                   kept |-> Edited(ticked, amounts)])
    BY <1>4 DEF ReviewReads
  <2> QED
    BY <1>4, <2>1, BecomeRuns DEF ReviewReads
<1>5. CASE CreateInserts(u) \/ DeleteWrites(u) \/ Refuse(u)
  BY <1>0, <1>5, BecomeRuns DEF CreateInserts, DeleteWrites, Refuse
<1>6. CASE UpdateWrites(u)
  <2>1. requests[u].at = "write" /\ requests[u].run \in Runs \cup {NoRun}
    BY <1>6, RequestTyped DEF UpdateWrites
  <2>2. \/ UNCHANGED applied
        \/ requests[u].run /= NoRun /\ applied' = [applied EXCEPT ![requests[u].run] = @ + 1]
    BY <1>6 DEF UpdateWrites
  <2>3. \/ UNCHANGED applied
        \/ \E r \in Runs : Applying(u, r) /\ applied' = [applied EXCEPT ![r] = @ + 1]
    BY <2>1, <2>2 DEF Applying
  <2> QED
    BY <1>0, <1>6, <2>3, BecomeRuns DEF UpdateWrites
<1>7. CASE ReviewPosts(u) \/ ReviewUnheard(u)
  BY <1>7, ReviewRuns
<1>8. CASE ApplyChecks(u)
  <2>1. requests[u].at = "apply" /\ requests[u].run \in Runs /\ requests[u].budget = about[requests[u].run]
    BY <1>8, RequestTyped DEF ApplyChecks, Grounded
  <2>2. PICK changes \in Allocations(approved[requests[u].run]) :
          Becomes(u, [at |-> "patch", budget |-> requests[u].budget, run |-> requests[u].run,
                      changes |-> changes])
    BY <1>8 DEF ApplyChecks
  <2> DEFINE q == [at |-> "patch", budget |-> requests[u].budget, run |-> requests[u].run,
                   changes |-> changes]
  <2>3. q.at = "patch" /\ q.run = requests[u].run /\ q.budget = requests[u].budget /\ q.changes = changes
    OBVIOUS
  <2>4. Becomes(u, q) /\ UNCHANGED <<server, about, applied>>
    BY <1>8, <2>2 DEF ApplyChecks
  <2> HIDE DEF q
  <2>5. Applying(u, q.run)
    BY <2>1, <2>3 DEF Applying
  <2> QED
    BY <2>1, <2>2, <2>3, <2>4, <2>5, BecomeRuns
<1>9. CASE ApplyReads(u)
  <2>1. requests[u].at = "patch" /\ requests[u].run \in Runs /\ requests[u].budget \in Budgets
    BY <1>9, RequestTyped DEF ApplyReads
  <2>2. Applying(u, requests[u].run) /\ requests[u].budget = about[requests[u].run]
    BY <2>1, BudgetAssumption DEF Applying, RunInv, AppliedAsAsked
  <2> QED
    BY <1>9, <2>1, <2>2, UpdateReadsRuns DEF ApplyReads
<1> QED
  BY <1>1, <1>2, <1>3, <1>4, <1>5, <1>6, <1>7, <1>8, <1>9 DEF UserStep

LEMMA NextRuns == TypeOK /\ RunInv /\ [Next]_vars => RunInv'
<1> SUFFICES ASSUME TypeOK, RunInv, [Next]_vars PROVE RunInv'
  OBVIOUS
<1>1. ASSUME NEW u \in Users, UserStep(u) PROVE RunInv'
  BY <1>1, UserStepRuns
<1>2. ASSUME NEW r \in Runs, StartRun(r) \/ ServerWorks(r) PROVE RunInv'
  <2>1. /\ phase[r] /= "completed"
        /\ \A other \in Runs \ {r} : phase'[other] = phase[other]
        /\ UNCHANGED <<approved, about, requests, applied>>
    BY <1>2, ServerLeavesCompleted DEF TypeOK, ServerTyped, StartRun, ServerWorks, Server!Create,
       Server!Present, Server!Fail
  <2>2. AppliedOnce'
    BY <2>1 DEF RunInv, AppliedOnce, Applying
  <2>3. AppliedAsAsked'
    BY <2>1 DEF RunInv, AppliedAsAsked, Allocations
  <2> QED
    BY <2>2, <2>3 DEF RunInv
<1>3. CASE Restarts
  <2>1. /\ \A u \in Users : requests'[u] \in {Idle, requests[u]}
        /\ UNCHANGED <<phase, approved, about, applied>>
    BY <1>3 DEF Restarts, server
  <2>2. \A u \in Users, r \in Runs : Applying(u, r)' => Applying(u, r)
    BY <2>1 DEF Applying, Idle
  <2>3. AppliedOnce'
    BY <2>1, <2>2 DEF RunInv, AppliedOnce
  <2>4. AppliedAsAsked'
    BY <2>1 DEF RunInv, AppliedAsAsked, Allocations, Idle
  <2> QED
    BY <2>3, <2>4 DEF RunInv
<1>4. CASE UNCHANGED vars
  BY <1>4 DEF vars, server, RunInv, AppliedOnce, AppliedAsAsked, Applying, Allocations
<1> QED
  BY <1>1, <1>2, <1>3, <1>4 DEF Next

LEMMA RunInvSound == RunInv => AppliedAsApproved
<1> SUFFICES ASSUME RunInv PROVE AppliedAsApproved
  OBVIOUS
<1>1. ASSUME NEW r \in Runs
      PROVE  applied[r] + Cardinality({u \in Users : Applying(u, r)}) <= 1
  <2>1. CASE {u \in Users : Applying(u, r)} = {}
    BY <2>1, FS_EmptySet DEF RunInv, AppliedOnce
  <2>2. ASSUME NEW u \in Users, Applying(u, r)
        PROVE  applied[r] + Cardinality({v \in Users : Applying(v, r)}) <= 1
    <3>1. {v \in Users : Applying(v, r)} = {u} /\ applied[r] = 0
      BY <2>2 DEF RunInv, AppliedOnce
    <3> QED
      BY <3>1, FS_Singleton
  <2> QED
    BY <2>1, <2>2
<1>2. \A r \in Runs : applied[r] > 0 => phase[r] = "completed"
  BY DEF RunInv, AppliedOnce
<1> QED
  BY <1>1, <1>2 DEF RunInv, AppliedAsAsked, AppliedAsApproved, Applying

\* However reviews of a run overlap, through whichever budgets, and whatever answers
\* are lost: what was approved is written at most once, after the decision was
\* recorded, and only into the budget the run is about.
THEOREM ChangesAppliedAsApproved == Spec => []AppliedAsApproved
BY BudgetsTyped, InitRuns, NextRuns, RunInvSound, PTL DEF Spec

-----------------------------------------------------------------------------
(* What moves a row                                                        *)

RowMoved(b) ==
  budgets'[b] /= budgets[b] =>
    \/ budgets[b] = NoRow /\ b \in DOMAIN Seeds /\ budgets'[b] = Seeds[b]
    \/ \E u \in Users : /\ requests[u] /= Idle /\ requests'[u] = Idle
                        /\ requests[u].budget = b
                        /\ requests[u].at \in IF budgets[b] = NoRow THEN {"insert"}
                                              ELSE {"write", "delete"}

LEMMA NextMovesRows ==
  ASSUME TypeOK, [Next]_vars, NEW b \in Budgets
  PROVE  RowMoved(b)
<1> SUFFICES ASSUME budgets'[b] /= budgets[b] PROVE RowMoved(b)
  BY DEF RowMoved
<1>1. CASE Restarts
  BY <1>1 DEF Restarts, Seeded, RowMoved
<1>2. ASSUME NEW u \in Users, UserStep(u) PROVE RowMoved(b)
  <2>1. CreateInserts(u) \/ UpdateWrites(u) \/ DeleteWrites(u)
    BY <1>2 DEF UserStep, CreateChecks, UserUpdates, UpdateReads, DeleteLooks, ReviewReads,
       ReviewPosts, ReviewUnheard, ApplyChecks, ApplyReads, Refuse
  <2>2. requests[u].at \in {"insert", "write", "delete"} /\ requests[u].budget \in Budgets
    BY <2>1, RequestTyped DEF CreateInserts, UpdateWrites, DeleteWrites
  <2>3. requests[u] /= Idle /\ requests'[u] = Idle
    BY <2>1, <2>2 DEF CreateInserts, UpdateWrites, DeleteWrites, Becomes, TypeOK, Idle
  <2>4. requests[u].budget = b
    BY <2>1, <2>2 DEF CreateInserts, UpdateWrites, DeleteWrites, TypeOK
  <2>5. CASE CreateInserts(u)
    BY <2>3, <2>4, <2>5 DEF CreateInserts, RowMoved
  <2>6. CASE UpdateWrites(u)
    BY <2>3, <2>4, <2>6 DEF UpdateWrites, RowMoved
  <2>7. CASE DeleteWrites(u)
    <3>1. budgets'[b] = NoRow
      BY <2>4, <2>7 DEF DeleteWrites, TypeOK
    <3> QED
      BY <2>3, <2>4, <2>7, <3>1 DEF DeleteWrites, RowMoved
  <2> QED
    BY <2>1, <2>5, <2>6, <2>7
<1>3. ASSUME NEW r \in Runs, StartRun(r) \/ ServerWorks(r) PROVE FALSE
  BY <1>3 DEF StartRun, ServerWorks
<1> QED
  BY <1>1, <1>2, <1>3 DEF Next, vars

\* A row of a budget changes only in the last step of a request for it, and comes back
\* only when it is created: restarts seed nothing over what is there.
THEOREM BudgetRowsMoveOnRequest == Spec => RowsMoveOnRequest
<1> DEFINE Moved == \A b \in Budgets : RowMoved(b)
<1>1. TypeOK /\ [Next]_vars => [Moved]_vars
  BY NextMovesRows
<1>2. Spec => [][Moved]_vars
  BY <1>1, BudgetsTyped, PTL DEF Spec
<1> QED
  BY <1>2 DEF RowsMoveOnRequest, RowMoved

-----------------------------------------------------------------------------
(* Expenses                                                                *)

\* What a clerk's request has when it goes on.
LEMMA CallTyped ==
  ASSUME ExpensesTyped, NEW c \in Clerks
  PROVE  /\ calls[c] \in Call
         /\ calls[c].at \in {"insert", "check", "patch", "write", "delete"} => calls[c].expense \in Expenses
         /\ calls[c].at \in {"insert", "write"} => calls[c].row \in Fields
         /\ calls[c].at \in {"check", "patch"} => calls[c].change \in Change /\ calls[c].seen \in Fields
         /\ calls[c].at \in {"insert", "patch", "write"} => calls[c].room \in SUBSET Days
<1>1. calls[c] \in Call
  BY DEF ExpensesTyped
<1> QED
  BY <1>1 DEF Call, Done

LEMMA MergedTyped ==
  ASSUME NEW row \in Fields, NEW change \in Change
  PROVE  Merged(row, change) \in Fields
BY DEF Fields, Change, Merged

LEMMA CheckedTyped ==
  ASSUME ExpensesTyped, NEW row \in Fields, NEW reachable \in BOOLEAN
  PROVE  Checked(row, reachable) \in SUBSET Days
BY ExpenseAssumption DEF ExpensesTyped, Checked, Fields

\* A request that was checked carries a date inside the window it was checked with; an
\* update carries what it read.
CallSound(call) ==
  /\ call.at \in {"insert", "write"} => call.room = {} \/ call.row.date \in call.room
  /\ call.at = "patch" => call.room = {} \/ Merged(call.seen, call.change).date \in call.room

\* An expense that was checked lies inside the window it was checked with.
BasisSound == \A e \in Expenses :
  expenses[e] /= NoExpense => basis[e] = {} \/ expenses[e].date \in basis[e]

ExpenseInv == /\ ExpensesTyped
              /\ BasisSound
              /\ \A c \in Clerks : CallSound(calls[c])

LEMMA StartExpenses == Start => ExpenseInv
<1> SUFFICES ASSUME Start PROVE ExpenseInv
  OBVIOUS
<1>1. ExpensesTyped
  BY ExpenseAssumption DEF Start, ExpensesTyped, Call, Fields
<1>2. BasisSound
  BY ExpenseAssumption DEF Start, BasisSound
<1>3. \A c \in Clerks : CallSound(calls[c])
  BY DEF Start, CallSound, Done
<1> QED
  BY <1>1, <1>2, <1>3 DEF ExpenseInv

\* A request that goes on with a sound call.
LEMMA TurnExpenses ==
  ASSUME ExpenseInv, NEW c \in Clerks, NEW call \in Call, Turns(c, call), CallSound(call),
         UNCHANGED <<expenses, window, basis>>
  PROVE  ExpenseInv'
<1>1. calls' = [calls EXCEPT ![c] = call]
  BY DEF Turns
<1>2. ExpensesTyped'
  BY <1>1 DEF ExpenseInv, ExpensesTyped
<1>3. \A d \in Clerks : CallSound(calls'[d])
  BY <1>1 DEF ExpenseInv, ExpensesTyped
<1>4. BasisSound'
  BY DEF ExpenseInv, BasisSound
<1> QED
  BY <1>2, <1>3, <1>4 DEF ExpenseInv, CallSound

\* A row is stored with the window it was checked with, or removed.
LEMMA StoreExpenses ==
  ASSUME ExpenseInv, NEW c \in Clerks, NEW e \in Expenses, NEW row \in Fields \cup {NoExpense},
         NEW room \in SUBSET Days, expenses' = [expenses EXCEPT ![e] = row], Based(e, room),
         Turns(c, Done), row /= NoExpense => room = {} \/ row.date \in room
  PROVE  ExpenseInv'
<1>1. calls' = [calls EXCEPT ![c] = Done]
  BY DEF Turns
<1>2. ExpensesTyped'
  BY <1>1 DEF ExpenseInv, ExpensesTyped, Based, Call
<1>3. \A d \in Clerks : CallSound(calls'[d])
  BY <1>1 DEF ExpenseInv, ExpensesTyped, CallSound, Done
<1>4. \A other \in Expenses : expenses'[other] = IF other = e THEN row ELSE expenses[other]
  BY DEF ExpenseInv, ExpensesTyped
<1>5. \A other \in Expenses : basis'[other] = IF other = e THEN room ELSE basis[other]
  BY DEF ExpenseInv, ExpensesTyped, Based
<1>6. BasisSound'
  BY <1>4, <1>5 DEF ExpenseInv, BasisSound
<1> QED
  BY <1>2, <1>3, <1>6 DEF ExpenseInv, CallSound

LEMMA ClerkStepExpenses ==
  ASSUME ExpenseInv, NEW c \in Clerks, ClerkStep(c)
  PROVE  ExpenseInv'
<1>0. Done \in Call /\ CallSound(Done) /\ ExpensesTyped
  BY DEF Call, CallSound, Done, ExpenseInv
<1>1. ASSUME NEW e \in Expenses, NEW row \in Fields, NEW reachable \in BOOLEAN,
             ExpenseChecks(c, e, row, reachable)
      PROVE  ExpenseInv'
  <2> DEFINE call == [at |-> "insert", expense |-> e, row |-> row, room |-> Checked(row, reachable)]
  <2>1. call \in Call
    BY <1>0, CheckedTyped DEF Call
  <2>2. CallSound(call)
    BY <1>1 DEF CallSound, ExpenseChecks, Checked, Inside
  <2> QED
    BY <1>1, <2>1, <2>2, TurnExpenses DEF ExpenseChecks
<1>2. ASSUME NEW e \in Expenses, NEW change \in Change, RevisionReads(c, e, change)
      PROVE  ExpenseInv'
  <2> DEFINE call == [at |-> "check", expense |-> e, change |-> change, seen |-> expenses[e]]
  <2>1. expenses[e] \in Fields
    BY <1>0, <1>2 DEF RevisionReads, ExpensesTyped
  <2>2. call \in Call
    BY <2>1 DEF Call
  <2>3. CallSound(call)
    BY DEF CallSound
  <2> QED
    BY <1>2, <2>2, <2>3, TurnExpenses DEF RevisionReads
<1>3. ASSUME NEW e \in Expenses, OtherReads(c, e) PROVE ExpenseInv'
  <2> DEFINE call == [at |-> "write", expense |-> e, row |-> expenses[e], room |-> basis[e]]
  <2>1. expenses[e] \in Fields /\ basis[e] \in SUBSET Days
    BY <1>0, <1>3 DEF OtherReads, ExpensesTyped
  <2>2. call \in Call
    BY <2>1 DEF Call
  <2>3. basis[e] = {} \/ expenses[e].date \in basis[e]
    BY <1>3 DEF OtherReads, ExpenseInv, BasisSound
  <2>4. CallSound(call)
    BY <2>3 DEF CallSound
  <2> QED
    BY <1>3, <2>2, <2>4, TurnExpenses DEF OtherReads
<1>4. ASSUME NEW e \in Expenses, RemovalLooks(c, e) PROVE ExpenseInv'
  <2> DEFINE call == [at |-> "delete", expense |-> e]
  <2>1. call \in Call
    BY DEF Call
  <2>2. CallSound(call)
    BY DEF CallSound
  <2> QED
    BY <1>4, <2>1, <2>2, TurnExpenses DEF RemovalLooks
<1>5. ASSUME NEW reachable \in BOOLEAN, RevisionChecks(c, reachable) PROVE ExpenseInv'
  <2> DEFINE call == [at |-> "patch", expense |-> calls[c].expense, change |-> calls[c].change,
                      seen |-> calls[c].seen,
                      room |-> Checked(Merged(calls[c].seen, calls[c].change), reachable)]
  <2>1. calls[c].expense \in Expenses /\ calls[c].change \in Change /\ calls[c].seen \in Fields
    BY <1>0, <1>5, CallTyped DEF RevisionChecks
  <2>2. call \in Call
    BY <1>0, <2>1, MergedTyped, CheckedTyped DEF Call
  <2>3. CallSound(call)
    BY <1>5 DEF CallSound, RevisionChecks, Checked, Inside
  <2> QED
    BY <1>5, <2>2, <2>3, TurnExpenses DEF RevisionChecks
<1>6. CASE PatchReads(c)
  <2> DEFINE found == expenses[calls[c].expense]
             call == [at |-> "write", expense |-> calls[c].expense,
                      row |-> Merged(found, calls[c].change),
                      room |-> IF calls[c].seen = found THEN calls[c].room ELSE {}]
  <2>1. /\ calls[c].at = "patch" /\ calls[c].expense \in Expenses /\ calls[c].change \in Change
        /\ calls[c].room \in SUBSET Days
    BY <1>0, <1>6, CallTyped DEF PatchReads
  <2>2. found \in Fields
    BY <1>0, <1>6, <2>1 DEF PatchReads, ExpensesTyped
  <2>3. Merged(found, calls[c].change) \in Fields
    BY <2>1, <2>2, MergedTyped
  <2>4. call \in Call
    BY <2>1, <2>3 DEF Call
  <2>5. calls[c].seen = found => calls[c].room = {} \/ Merged(found, calls[c].change).date \in calls[c].room
    BY <2>1 DEF ExpenseInv, CallSound
  <2>6. CallSound(call)
    BY <2>5 DEF CallSound
  <2> QED
    BY <1>6, <2>4, <2>6, TurnExpenses DEF PatchReads
<1>7. CASE ExpenseInserts(c)
  <2>1. /\ calls[c].expense \in Expenses /\ calls[c].row \in Fields
        /\ calls[c].room \in SUBSET Days /\ calls[c].at = "insert"
    BY <1>0, <1>7, CallTyped DEF ExpenseInserts
  <2>2. calls[c].room = {} \/ calls[c].row.date \in calls[c].room
    BY <2>1 DEF ExpenseInv, CallSound
  <2> QED
    BY <1>7, <2>1, <2>2, StoreExpenses DEF ExpenseInserts
<1>8. CASE PatchWrites(c)
  <2>1. /\ calls[c].expense \in Expenses /\ calls[c].row \in Fields
        /\ calls[c].room \in SUBSET Days /\ calls[c].at = "write"
    BY <1>0, <1>8, CallTyped DEF PatchWrites
  <2>2. calls[c].room = {} \/ calls[c].row.date \in calls[c].room
    BY <2>1 DEF ExpenseInv, CallSound
  <2>3. CASE expenses[calls[c].expense] = NoExpense
    BY <1>0, <1>8, <2>3, TurnExpenses DEF PatchWrites
  <2>4. CASE expenses[calls[c].expense] /= NoExpense
    BY <1>8, <2>1, <2>2, <2>4, StoreExpenses DEF PatchWrites
  <2> QED
    BY <2>3, <2>4
<1>9. CASE RemovalWrites(c)
  <2>1. calls[c].expense \in Expenses
    BY <1>0, <1>9, CallTyped DEF RemovalWrites
  <2>2. {} \in SUBSET Days /\ NoExpense \in Fields \cup {NoExpense}
    OBVIOUS
  <2> QED
    BY <1>9, <2>1, <2>2, StoreExpenses DEF RemovalWrites
<1>10. CASE Declines(c)
  BY <1>0, <1>10, TurnExpenses DEF Declines
<1> QED
  BY <1>1, <1>2, <1>3, <1>4, <1>5, <1>6, <1>7, <1>8, <1>9, <1>10 DEF ClerkStep

LEMMA StepExpenses == ExpenseInv /\ [Step]_expenseVars => ExpenseInv'
<1> SUFFICES ASSUME ExpenseInv, [Step]_expenseVars PROVE ExpenseInv'
  OBVIOUS
<1>1. ASSUME NEW c \in Clerks, ClerkStep(c) PROVE ExpenseInv'
  BY <1>1, ClerkStepExpenses
<1>2. CASE StoreRestarts
  <2>1. \A c \in Clerks : calls'[c] \in {Done, calls[c]}
    BY <1>2 DEF StoreRestarts
  <2>2. ExpensesTyped'
    <3>1. calls' \in [Clerks -> Call]
      BY <1>2 DEF StoreRestarts, ExpenseInv, ExpensesTyped, Call
    <3>2. \A e \in DOMAIN Known : Known[e] \in Fields /\ Planned[Known[e].trip] \in SUBSET Days
      BY ExpenseAssumption DEF Fields
    <3>3. expenses' \in [Expenses -> Fields \cup {NoExpense}]
      BY <1>2, <3>2 DEF StoreRestarts, ExpenseInv, ExpensesTyped
    <3>4. basis' \in [Expenses -> SUBSET Days]
      BY <1>2, <3>2 DEF StoreRestarts, ExpenseInv, ExpensesTyped
    <3> QED
      BY <1>2, <3>1, <3>3, <3>4 DEF StoreRestarts, ExpenseInv, ExpensesTyped
  <2>3. BasisSound'
    BY <1>2, ExpenseAssumption DEF StoreRestarts, ExpenseInv, ExpensesTyped, BasisSound
  <2>4. \A c \in Clerks : CallSound(calls'[c])
    BY <2>1 DEF ExpenseInv, CallSound, Done
  <2> QED
    BY <2>2, <2>3, <2>4 DEF ExpenseInv, CallSound
<1>3. ASSUME NEW t \in Trips, NEW days \in Windows, TripMoves(t, days) PROVE ExpenseInv'
  BY <1>3 DEF TripMoves, ExpenseInv, ExpensesTyped, BasisSound, CallSound
<1>4. CASE UNCHANGED expenseVars
  BY <1>4 DEF expenseVars, ExpenseInv, ExpensesTyped, BasisSound, CallSound
<1> QED
  BY <1>1, <1>2, <1>3, <1>4 DEF Step

LEMMA ExpensesHold == ExpenseSpec => []ExpenseInv
BY StartExpenses, StepExpenses, PTL DEF ExpenseSpec

\* Both tables of the service, whose requests touch one table each: budgets fit, trips
\* have one budget, and a checked expense strays from its trip only once the trip has
\* another window than the one it was checked with.
THEOREM BooksStaySound == Spec /\ ExpenseSpec => []BooksAreSound
<1>1. TypeOK /\ BudgetsAreSound /\ ExpenseInv => BooksAreSound
  BY DEF ExpenseInv, BasisSound, StraysAreExcused, Inside, BooksAreSound
<1> QED
  BY <1>1, BudgetsTyped, BudgetsStaySound, ExpensesHold, PTL

ExpenseMoved(e) ==
  expenses[e] /= NoExpense /\ expenses'[e] /= expenses[e]
    => \E c \in Clerks : /\ calls[c].at \in {"write", "delete"} /\ calls[c].expense = e
                         /\ calls'[c] = Done

LEMMA StepMovesExpenses ==
  ASSUME ExpensesTyped, [Step]_expenseVars, NEW e \in Expenses
  PROVE  ExpenseMoved(e)
<1> SUFFICES ASSUME expenses[e] /= NoExpense, expenses'[e] /= expenses[e] PROVE ExpenseMoved(e)
  BY DEF ExpenseMoved
<1>1. CASE StoreRestarts
  BY <1>1 DEF StoreRestarts
<1>2. ASSUME NEW c \in Clerks, ClerkStep(c) PROVE ExpenseMoved(e)
  <2>1. ExpenseInserts(c) \/ PatchWrites(c) \/ RemovalWrites(c)
    BY <1>2 DEF ClerkStep, ExpenseChecks, RevisionReads, OtherReads, RemovalLooks, RevisionChecks,
       PatchReads, Declines
  <2>2. calls[c].at \in {"insert", "write", "delete"} /\ calls[c].expense \in Expenses
    BY <2>1, CallTyped DEF ExpenseInserts, PatchWrites, RemovalWrites
  <2>3. calls[c].expense = e /\ calls[c].at \in {"write", "delete"} /\ calls'[c] = Done
    BY <2>1, <2>2 DEF ExpenseInserts, PatchWrites, RemovalWrites, Turns, ExpensesTyped
  <2> QED
    BY <2>3 DEF ExpenseMoved
<1>3. ASSUME NEW t \in Trips, NEW days \in Windows, TripMoves(t, days) PROVE FALSE
  BY <1>3 DEF TripMoves
<1> QED
  BY <1>1, <1>2, <1>3 DEF Step, expenseVars

\* A row of either table changes only in the last step of a request for it: no restart
\* and no update of a row that is gone brings one back or changes one.
THEOREM ServiceMovesOnRequest == Spec /\ ExpenseSpec => TablesMoveOnRequest
<1> DEFINE Moved == \A e \in Expenses : ExpenseMoved(e)
<1>1. ExpenseInv /\ [Step]_expenseVars => [Moved]_expenseVars
  BY StepMovesExpenses DEF ExpenseInv
<1>2. ExpenseSpec => [][Moved]_expenseVars
  BY <1>1, ExpensesHold, PTL DEF ExpenseSpec
<1>3. ExpenseSpec => ExpensesMoveOnRequest
  BY <1>2 DEF ExpensesMoveOnRequest, ExpenseMoved
<1> QED
  BY <1>3, BudgetRowsMoveOnRequest DEF TablesMoveOnRequest
=============================================================================
