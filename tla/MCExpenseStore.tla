---------------------------- MODULE MCExpenseStore ---------------------------
(***************************************************************************)
(* Student 5's service for TLC: one seeded trip, two allocations that fit  *)
(* the total of 1 only one at a time, and two days of which each trip has  *)
(* one, the other, or none once it is deleted.  No request touches both    *)
(* tables, so each behaviour works on one.                                 *)
(***************************************************************************)
EXTENDS ExpenseStore, TLC

CONSTANTS b1, b2, t1, t2, c1, c2, e1

VARIABLE table   \* the table a behaviour works on

Budget(t, total, m1, m2) == [trip |-> t, money |-> (c1 :> m1 @@ c2 :> m2 @@ "total" :> total)]
TheForms == {Budget(t1, 1, 0, 1), Budget(t2, 1, 0, 0)}
TheEdits == {[trip |-> t2, money |-> <<>>], [trip |-> NoTrip, money |-> (c1 :> 1)],
             [trip |-> NoTrip, money |-> (c2 :> 1 @@ c1 :> 0)],
             [trip |-> NoTrip, money |-> ("total" :> 0)]}
TheChanges == {[category |-> c1, amount |-> 1], [category |-> c2, amount |-> 1]}
TheSeeds == b1 :> Budget(t1, 1, 0, 0)
ThePlan == t1 :> {1} @@ t2 :> {2}
TheKnown == e1 :> [trip |-> t1, date |-> 1]

MCInit == Init /\ Start /\ table \in {"budgets", "expenses"}
MCNext == /\ \/ table = "budgets" /\ Next /\ UNCHANGED expenseVars
             \/ table = "expenses" /\ Step /\ UNCHANGED vars
          /\ UNCHANGED table
MCSpec == MCInit /\ [][MCNext]_<<vars, expenseVars, table>>

Symmetry == Permutations(Users) \cup Permutations(Clerks)
=============================================================================
