----------------------------- MODULE BudgetStore -----------------------------
(***************************************************************************)
(* Student 5's budgets: the backend's handlers over the calls its database *)
(* service offers, and the reviewed allocation changes of an agent run.    *)
(* The database updates a budget in two transactions: it reads the row,    *)
(* merges the request into it, and writes every column back.  Handlers run *)
(* in threads, so other requests fall between any two of their calls, and  *)
(* the database inserts its seed rows at every start.                      *)
(***************************************************************************)
EXTENDS Integers, FiniteSets, FiniteSetsExt

CONSTANTS Budgets, Trips, Categories, Runs, Users,
          MaxMoney,
          Forms,     \* the budgets and ...
          Edits,     \* ... the updates that users send
          Changes,   \* allocation changes a run may propose
          Seeds,     \* the seed rows by budget
          NoRow, NoTrip, NoRun

Money == 0..MaxMoney
Accounts == Categories \cup {"total"}
Row == [trip : Trips, money : [Accounts -> Money]]
Payload == [trip : Trips \cup {NoTrip}, money : UNION {[S -> Money] : S \in SUBSET Accounts}]

ASSUME BudgetAssumption ==
  /\ MaxMoney \in Nat
  /\ "total" \notin Categories
  /\ Forms \subseteq Row
  /\ Edits \subseteq Payload
  /\ Changes \subseteq [category : Categories, amount : Money]
  /\ DOMAIN Seeds \subseteq Budgets
  /\ \A b \in DOMAIN Seeds : Seeds[b] \in Row
  /\ NoRow \notin Row /\ NoTrip \notin Trips /\ NoRun \notin Runs

VARIABLES budgets,   \* the table: a row or NoRow for each id
          phase, shown, decision, approved,  \* the runs, RunLifecycle
          about,     \* the budget a run's answer names and its tools returned
          requests,  \* what each user's request does next
          applied    \* how often a run's approved changes were written

server == <<phase, shown, decision, approved>>
vars == <<budgets, phase, shown, decision, approved, about, requests, applied>>

Server == INSTANCE RunLifecycle WITH Actions <- Changes

Idle == [at |-> "idle"]
Verdict == {"approve", "partial", "correct", "reject"}
Request ==
  {Idle}
  \cup [at : {"insert"}, budget : Budgets, row : Forms]
  \cup [at : {"write"}, budget : Budgets, row : Row, run : Runs \cup {NoRun}]
  \cup [at : {"delete"}, budget : Budgets]
  \cup [at : {"decide"}, budget : Budgets, run : Runs, verdict : Verdict,
        kept : SUBSET Changes]
  \cup [at : {"apply"}, budget : Budgets, run : Runs]
  \cup [at : {"patch"}, budget : Budgets, run : Runs, changes : Payload]

Allocated(row) == MapThenSumSet(LAMBDA c : row.money[c], Categories)

\* allocations_must_fit_total.  Mutant: each allocation is compared alone.
Fits_Each(row) == \A c \in Categories : row.money[c] <= row.money["total"]

Fits(row) == Allocated(row) <= row.money["total"]

\* The rows of SEED_BUDGETS, one for each trip.
ASSUME SeedAssumption ==
  /\ \A b \in DOMAIN Seeds : Fits(Seeds[b])
  /\ \A b, other \in DOMAIN Seeds : Seeds[b].trip = Seeds[other].trip => b = other

\* trip_id is UNIQUE.
TripFree(b, trip) ==
  \A other \in Budgets \ {b} : budgets[other] /= NoRow => budgets[other].trip /= trip

\* The seeds that INSERT OR IGNORE adds: neither the id nor the trip is taken.
Seeded ==
  [b \in Budgets |->
     IF b \in DOMAIN Seeds /\ budgets[b] = NoRow /\ TripFree(b, Seeds[b].trip)
     THEN Seeds[b] ELSE budgets[b]]

Init == /\ budgets = [b \in Budgets |-> IF b \in DOMAIN Seeds THEN Seeds[b] ELSE NoRow]
        /\ Server!Init
        /\ about \in [Runs -> Budgets]
        /\ requests = [u \in Users |-> Idle]
        /\ applied = [r \in Runs |-> 0]

Becomes(u, request) == requests' = [requests EXCEPT ![u] = request]

-----------------------------------------------------------------------------
(* Budgets                                                                 *)

\* The backend asks Student 1 for the trip (an unreachable Student 1 is no
\* reason to refuse) and sends the row.
CreateChecks(u, b, row) ==
  /\ requests[u] = Idle
  /\ Fits(row)
  /\ Becomes(u, [at |-> "insert", budget |-> b, row |-> row])
  /\ UNCHANGED <<budgets, server, about, applied>>

CreateInserts(u) ==
  LET q == requests[u]
  IN  /\ q.at = "insert"
      /\ budgets[q.budget] = NoRow
      /\ TripFree(q.budget, q.row.trip)
      /\ budgets' = [budgets EXCEPT ![q.budget] = q.row]
      /\ Becomes(u, Idle)
      /\ UNCHANGED <<server, about, applied>>

\* Mutant: a trip that the request does not name is overwritten too.
Merge_Unset(row, changes) ==
  [trip |-> changes.trip,
   money |-> [a \in Accounts |-> IF a \in DOMAIN changes.money THEN changes.money[a]
                                                              ELSE row.money[a]]]

Merge(row, changes) ==
  [trip |-> IF changes.trip = NoTrip THEN row.trip ELSE changes.trip,
   money |-> [a \in Accounts |-> IF a \in DOMAIN changes.money THEN changes.money[a]
                                                              ELSE row.money[a]]]

\* update_budget: read the row in a transaction of its own, merge, validate.
UpdateReads(u, b, changes, run) ==
  /\ budgets[b] /= NoRow
  /\ changes /= [trip |-> NoTrip, money |-> <<>>]
  /\ Fits(Merge(budgets[b], changes))
  /\ Becomes(u, [at |-> "write", budget |-> b, row |-> Merge(budgets[b], changes),
                 run |-> run])
  /\ UNCHANGED <<budgets, server, about, applied>>

UserUpdates(u, b, changes) == requests[u] = Idle /\ UpdateReads(u, b, changes, NoRun)

\* Mutant: the row is put back when it was deleted meanwhile.
UpdateWrites_Upserts(u) ==
  LET q == requests[u]
  IN  /\ q.at = "write"
      /\ TripFree(q.budget, q.row.trip)
      /\ budgets' = [budgets EXCEPT ![q.budget] = q.row]
      /\ applied' = IF q.run = NoRun THEN applied ELSE [applied EXCEPT ![q.run] = @ + 1]
      /\ Becomes(u, Idle)
      /\ UNCHANGED <<server, about>>

\* ... and write every column in another; a row deleted meanwhile stays deleted.
UpdateWrites(u) ==
  LET q == requests[u]
  IN  /\ q.at = "write"
      /\ IF budgets[q.budget] = NoRow
         THEN UNCHANGED <<budgets, applied>>
         ELSE /\ TripFree(q.budget, q.row.trip)
              /\ budgets' = [budgets EXCEPT ![q.budget] = q.row]
              /\ applied' = IF q.run = NoRun THEN applied
                                             ELSE [applied EXCEPT ![q.run] = @ + 1]
      /\ Becomes(u, Idle)
      /\ UNCHANGED <<server, about>>

DeleteLooks(u, b) == /\ requests[u] = Idle
                     /\ budgets[b] /= NoRow
                     /\ Becomes(u, [at |-> "delete", budget |-> b])
                     /\ UNCHANGED <<budgets, server, about, applied>>

DeleteWrites(u) == /\ requests[u].at = "delete"
                   /\ budgets' = [budgets EXCEPT ![requests[u].budget] = NoRow]
                   /\ Becomes(u, Idle)
                   /\ UNCHANGED <<server, about, applied>>

\* The database service stops and starts: what it had read is lost.
Restarts == /\ budgets' = Seeded
            /\ requests' = [u \in Users |-> IF requests[u].at \in {"write", "delete"}
                                            THEN Idle ELSE requests[u]]
            /\ UNCHANGED <<server, about, applied>>

-----------------------------------------------------------------------------
(* POST /budgets/{budget_id}/agent-runs/{run_id}/review                    *)

StartRun(r) == Server!Create(r) /\ UNCHANGED <<budgets, about, requests, applied>>

ServerWorks(r) == /\ Server!Present(r) \/ Server!Fail(r)
                  /\ UNCHANGED <<budgets, about, requests, applied>>

\* What a ticked change becomes under the reviewer's amounts.
Edited(ticked, amounts) ==
  {[category |-> c.category, amount |-> amounts[c]] : c \in ticked}

\* The decision posted for a review of a run in which `proposed` was read and of
\* which the reviewer keeps `ticked` as `kept`; a corrected overview may always
\* turn it into a correction.
ReviewBodies(proposed, ticked, kept) ==
  {"reject", "correct"}
  \cup {v \in {"approve"} : kept = ticked /\ ticked = proposed}
  \cup {v \in {"partial"} : kept = ticked /\ ticked /= proposed /\ ticked /= {}}

\* The backend reads the budget and the run.
ReviewReads(u, b, r, ticked, amounts) ==
  /\ requests[u] = Idle
  /\ budgets[b] /= NoRow
  /\ phase[r] \in {"active", "awaiting"}
  /\ ticked \subseteq shown[r]
  /\ LET kept == Edited(ticked, amounts)
     IN  /\ kept \subseteq Changes
         /\ \E verdict \in ReviewBodies(shown[r], ticked, kept) :
              Becomes(u, [at |-> "decide", budget |-> b, run |-> r, verdict |-> verdict,
                          kept |-> kept])
  /\ UNCHANGED <<budgets, server, about, applied>>

ServerDecides(r, verdict, kept) ==
  \/ verdict = "approve" /\ Server!Approve(r)
  \/ verdict = "partial" /\ Server!AcceptPart(r) /\ approved'[r] = kept
  \/ verdict = "correct" /\ Server!Correct(r) /\ approved'[r] = kept
  \/ verdict = "reject" /\ Server!Reject(r)

\* Mutant: a conflict is taken for the decision of this review.
ReviewPosts_IgnoresConflict(u) ==
  LET q == requests[u]
  IN  /\ q.at = "decide"
      /\ IF phase[q.run] = "awaiting" THEN ServerDecides(q.run, q.verdict, q.kept)
                                      ELSE UNCHANGED server
      /\ Becomes(u, IF approved'[q.run] = {} THEN Idle
                    ELSE [at |-> "apply", budget |-> q.budget, run |-> q.run])
      /\ UNCHANGED <<budgets, about, applied>>

\* The POST of the decision is answered ...
ReviewPosts(u) ==
  LET q == requests[u]
  IN  /\ q.at = "decide"
      /\ ServerDecides(q.run, q.verdict, q.kept)
      /\ Becomes(u, IF approved'[q.run] = {} THEN Idle
                    ELSE [at |-> "apply", budget |-> q.budget, run |-> q.run])
      /\ UNCHANGED <<budgets, about, applied>>

\* ... or carried out without its answer being heard: nothing is applied.
ReviewUnheard(u) ==
  /\ requests[u].at = "decide"
  /\ ServerDecides(requests[u].run, requests[u].verdict, requests[u].kept)
  /\ Becomes(u, Idle)
  /\ UNCHANGED <<budgets, about, applied>>

\* allocation_changes: of two approved changes of one category the last counts.
Allocations(acts) ==
  {changes \in Payload :
     /\ changes.trip = NoTrip
     /\ DOMAIN changes.money = {act.category : act \in acts}
     /\ \A c \in DOMAIN changes.money : [category |-> c, amount |-> changes.money[c]] \in acts}

\* is_grounded.
Grounded(r, b) == about[r] = b

\* The changes must also fit the budget that was read before the decision; as the
\* database checks them against the row it finds, that can only refuse more.
ApplyChecks(u) ==
  LET q == requests[u]
  IN  /\ q.at = "apply"
      /\ Grounded(q.run, q.budget)
      /\ \E changes \in Allocations(approved[q.run]) :
           Becomes(u, [at |-> "patch", budget |-> q.budget, run |-> q.run,
                       changes |-> changes])
      /\ UNCHANGED <<budgets, server, about, applied>>

ApplyReads(u) == /\ requests[u].at = "patch"
                 /\ UpdateReads(u, requests[u].budget, requests[u].changes, requests[u].run)

\* An error answer, an apply_error, or a backend that stops.
Refuse(u) == /\ requests[u] /= Idle
             /\ Becomes(u, Idle)
             /\ UNCHANGED <<budgets, server, about, applied>>

-----------------------------------------------------------------------------
UserStep(u) ==
  \/ \E b \in Budgets :
       \/ \E row \in Forms : CreateChecks(u, b, row)
       \/ \E changes \in Edits : UserUpdates(u, b, changes)
       \/ DeleteLooks(u, b)
       \/ \E r \in Runs : \E ticked \in SUBSET shown[r] :
            \E amounts \in [ticked -> Money] : ReviewReads(u, b, r, ticked, amounts)
  \/ CreateInserts(u) \/ UpdateWrites(u) \/ DeleteWrites(u)
  \/ ReviewPosts(u) \/ ReviewUnheard(u) \/ ApplyChecks(u) \/ ApplyReads(u)
  \/ Refuse(u)

Next == \/ \E u \in Users : UserStep(u)
        \/ \E r \in Runs : StartRun(r) \/ ServerWorks(r)
        \/ Restarts

Spec == Init /\ [][Next]_vars
-----------------------------------------------------------------------------
\* The table, the runs and the requests in flight.
TypeOK ==
  /\ budgets \in [Budgets -> Row \cup {NoRow}]
  /\ phase \in [Runs -> {"none", "active", "awaiting", "completed", "rejected", "failed"}]
  /\ shown \in [Runs -> SUBSET Changes]
  /\ decision \in [Runs -> Verdict \cup {"none"}]
  /\ approved \in [Runs -> SUBSET Changes]
  /\ about \in [Runs -> Budgets]
  /\ requests \in [Users -> Request]
  /\ applied \in [Runs -> Nat]

\* budget-rules.md: "The sum of the five allocations must not exceed the total
\* budget", and a trip has at most one budget, whatever updates, reviewed changes
\* and restarts overlap: a stale row that is written back fits as a whole.
BudgetsAreSound ==
  /\ \A b \in Budgets : budgets[b] /= NoRow => Allocated(budgets[b]) <= budgets[b].money["total"]
  /\ \A b1, b2 \in Budgets : budgets[b1] /= NoRow /\ budgets[b2] /= NoRow
                            /\ budgets[b1].trip = budgets[b2].trip => b1 = b2

\* The approved changes of a run are written at most once, only after the decision
\* was recorded, and only into the budget the run is about, also when two people
\* review the run, through different budgets, or an answer is lost.
AppliedAsApproved ==
  /\ \A r \in Runs : applied[r] + Cardinality({u \in Users :
        requests[u].at \in {"apply", "patch", "write"} /\ requests[u].run = r}) <= 1
  /\ \A r \in Runs : applied[r] > 0 => phase[r] = "completed"
  /\ \A u \in Users : requests[u].at \in {"patch", "write"} /\ requests[u].run /= NoRun
       => /\ requests[u].budget = about[requests[u].run]
          /\ requests[u].at = "patch" =>
               requests[u].changes \in Allocations(approved[requests[u].run])

\* A stored row changes only in the last step of a request for it, and a deleted
\* row comes back only with a create or as a seed: neither a restart nor an
\* update that read the row before its deletion does either.
RowsMoveOnRequest ==
  [][\A b \in Budgets : budgets'[b] /= budgets[b] =>
       \/ budgets[b] = NoRow /\ b \in DOMAIN Seeds /\ budgets'[b] = Seeds[b]
       \/ \E u \in Users : /\ requests[u] /= Idle /\ requests'[u] = Idle
                           /\ requests[u].budget = b
                           /\ requests[u].at \in IF budgets[b] = NoRow THEN {"insert"}
                                                 ELSE {"write", "delete"}]_vars
=============================================================================
