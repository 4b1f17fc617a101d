---------------------------- MODULE ExpenseStore ----------------------------
(***************************************************************************)
(* Student 5's expenses.  The backend checks an expense's date against the *)
(* trip in Student 1 and then calls its database; an update that names a   *)
(* trip or a date is checked with the other half read one call earlier,    *)
(* and merged one call later into the row the database finds.  When        *)
(* Student 1 cannot be reached the check is skipped, and Student 1 moves    *)
(* and deletes trips without a look at expenses.  It is the other half of  *)
(* the service in BudgetStore; no request touches both tables.             *)
(***************************************************************************)
EXTENDS BudgetStore

CONSTANTS Expenses, Days,
          Windows,    \* the days a trip may cover, {} once it is deleted
          Planned,    \* the window each trip starts with
          Clerks,     \* who records expenses
          Known,      \* the seed rows by expense
          NoExpense, Unset

Fields == [trip : Trips, date : Days]
Change == [trip : Trips \cup {Unset}, date : Days \cup {Unset}]
Untouched == [trip |-> Unset, date |-> Unset]

ASSUME ExpenseAssumption ==
  /\ Windows \subseteq SUBSET Days
  /\ Planned \in [Trips -> Windows]
  /\ DOMAIN Known \subseteq Expenses
  /\ \A e \in DOMAIN Known : Known[e] \in Fields /\ Known[e].date \in Planned[Known[e].trip]
  /\ NoExpense \notin Fields /\ Unset \notin Trips \cup Days

VARIABLES expenses,  \* the table: a row or NoExpense for each id
          calls,     \* what each clerk's request does next
          window,    \* the days of each trip in Student 1
          basis      \* the window each expense was checked with, {} if it was not, or
                     \* if another request changed it between check and merge

expenseVars == <<expenses, calls, window, basis>>

Inside(row) == row.date \in window[row.trip]

Done == [at |-> "done"]
Call ==
  {Done}
  \cup [at : {"insert"}, expense : Expenses, row : Fields, room : SUBSET Days]
  \cup [at : {"check"}, expense : Expenses, change : Change, seen : Fields]
  \cup [at : {"patch"}, expense : Expenses, change : Change, seen : Fields, room : SUBSET Days]
  \cup [at : {"write"}, expense : Expenses, row : Fields, room : SUBSET Days]
  \cup [at : {"delete"}, expense : Expenses]

Start == /\ expenses = [e \in Expenses |-> IF e \in DOMAIN Known THEN Known[e] ELSE NoExpense]
         /\ calls = [c \in Clerks |-> Done]
         /\ window = Planned
         /\ basis = [e \in Expenses |-> IF e \in DOMAIN Known THEN Planned[Known[e].trip] ELSE {}]

Turns(c, call) == calls' = [calls EXCEPT ![c] = call]

Merged(row, change) == [trip |-> IF change.trip = Unset THEN row.trip ELSE change.trip,
                        date |-> IF change.date = Unset THEN row.date ELSE change.date]

Based(e, room) == basis' = [basis EXCEPT ![e] = room] /\ UNCHANGED window

\* What a check leaves to go by: the window Student 1 tells, if it can be reached.
Checked(row, reachable) == IF reachable THEN window[row.trip] ELSE {}

-----------------------------------------------------------------------------
ExpenseChecks(c, e, row, reachable) ==
  /\ calls[c] = Done
  /\ reachable => Inside(row)
  /\ Turns(c, [at |-> "insert", expense |-> e, row |-> row,
               room |-> Checked(row, reachable)])
  /\ UNCHANGED <<expenses, window, basis>>

ExpenseInserts(c) ==
  /\ calls[c].at = "insert"
  /\ expenses[calls[c].expense] = NoExpense
  /\ expenses' = [expenses EXCEPT ![calls[c].expense] = calls[c].row]
  /\ Based(calls[c].expense, calls[c].room)
  /\ Turns(c, Done)

\* An update of a trip or a date reads the expense first.
RevisionReads(c, e, change) ==
  /\ calls[c] = Done
  /\ change /= Untouched
  /\ expenses[e] /= NoExpense
  /\ Turns(c, [at |-> "check", expense |-> e, change |-> change, seen |-> expenses[e]])
  /\ UNCHANGED <<expenses, window, basis>>

\* Mutant: a new trip is not checked against the date the expense has.
RevisionChecks_NewHalf(c, reachable) ==
  LET call == calls[c]
  IN  /\ call.at = "check"
      /\ reachable /\ call.change.date /= Unset => Inside(Merged(call.seen, call.change))
      /\ Turns(c, [at |-> "patch", expense |-> call.expense, change |-> call.change,
                   seen |-> call.seen,
                   room |-> Checked(Merged(call.seen, call.change), reachable)])
      /\ UNCHANGED <<expenses, window, basis>>

RevisionChecks(c, reachable) ==
  LET call == calls[c]
  IN  /\ call.at = "check"
      /\ reachable => Inside(Merged(call.seen, call.change))
      /\ Turns(c, [at |-> "patch", expense |-> call.expense, change |-> call.change,
                   seen |-> call.seen,
                   room |-> Checked(Merged(call.seen, call.change), reachable)])
      /\ UNCHANGED <<expenses, window, basis>>

\* Mutant: what the request does not name is overwritten too.
PatchReads_Unset(c) ==
  /\ calls[c].at = "patch"
  /\ expenses[calls[c].expense] /= NoExpense
  /\ Turns(c, [at |-> "write", expense |-> calls[c].expense, row |-> calls[c].change,
               room |-> IF calls[c].seen = expenses[calls[c].expense] THEN calls[c].room ELSE {}])
  /\ UNCHANGED <<expenses, window, basis>>

\* The database reads the row and merges the request into it.
PatchReads(c) ==
  LET call == calls[c]
      found == expenses[call.expense]
  IN  /\ call.at = "patch"
      /\ found /= NoExpense
      /\ Turns(c, [at |-> "write", expense |-> call.expense,
                   row |-> Merged(found, call.change),
                   room |-> IF call.seen = found THEN call.room ELSE {}])
      /\ UNCHANGED <<expenses, window, basis>>

\* An update of other fields is merged without a check.
OtherReads(c, e) ==
  /\ calls[c] = Done
  /\ expenses[e] /= NoExpense
  /\ Turns(c, [at |-> "write", expense |-> e, row |-> expenses[e], room |-> basis[e]])
  /\ UNCHANGED <<expenses, window, basis>>

\* Every column is written back in a later transaction, if the row still exists.
PatchWrites(c) ==
  LET call == calls[c]
  IN  /\ call.at = "write"
      /\ IF expenses[call.expense] = NoExpense
         THEN UNCHANGED <<expenses, window, basis>>
         ELSE /\ expenses' = [expenses EXCEPT ![call.expense] = call.row]
              /\ Based(call.expense, call.room)
      /\ Turns(c, Done)

RemovalLooks(c, e) == /\ calls[c] = Done
                     /\ expenses[e] /= NoExpense
                     /\ Turns(c, [at |-> "delete", expense |-> e])
                     /\ UNCHANGED <<expenses, window, basis>>

RemovalWrites(c) == /\ calls[c].at = "delete"
                   /\ expenses' = [expenses EXCEPT ![calls[c].expense] = NoExpense]
                   /\ Based(calls[c].expense, {})
                   /\ Turns(c, Done)

\* Mutant: INSERT OR REPLACE.
StoreRestarts_Replaces ==
  /\ expenses' = [e \in Expenses |-> IF e \in DOMAIN Known THEN Known[e] ELSE expenses[e]]
  /\ calls' = [c \in Clerks |-> IF calls[c].at \in {"write", "delete"} THEN Done ELSE calls[c]]
  /\ UNCHANGED <<window, basis>>

\* The database service stops and starts, and inserts the seed rows that are missing.
StoreRestarts ==
  /\ expenses' = [e \in Expenses |-> IF e \in DOMAIN Known /\ expenses[e] = NoExpense
                                     THEN Known[e] ELSE expenses[e]]
  /\ calls' = [c \in Clerks |-> IF calls[c].at \in {"write", "delete"} THEN Done ELSE calls[c]]
  /\ basis' = [e \in Expenses |-> IF e \in DOMAIN Known /\ expenses[e] = NoExpense
                                  THEN Planned[Known[e].trip] ELSE basis[e]]
  /\ UNCHANGED window

\* Student 1 moves a trip, deletes it, or gives its id to a new one, whatever was
\* spent on it.
TripMoves(t, days) == /\ days /= window[t]
                      /\ window' = [window EXCEPT ![t] = days]
                      /\ UNCHANGED <<expenses, calls, basis>>

Declines(c) == calls[c] /= Done /\ Turns(c, Done) /\ UNCHANGED <<expenses, window, basis>>

ClerkStep(c) ==
  \/ \E e \in Expenses :
       \/ \E row \in Fields, reachable \in BOOLEAN : ExpenseChecks(c, e, row, reachable)
       \/ \E change \in Change : RevisionReads(c, e, change)
       \/ OtherReads(c, e) \/ RemovalLooks(c, e)
  \/ \E reachable \in BOOLEAN : RevisionChecks(c, reachable)
  \/ ExpenseInserts(c) \/ PatchReads(c) \/ PatchWrites(c) \/ RemovalWrites(c) \/ Declines(c)

Step == \/ \E c \in Clerks : ClerkStep(c)
        \/ StoreRestarts
        \/ \E t \in Trips, days \in Windows : TripMoves(t, days)

ExpenseSpec == Start /\ [][Step]_expenseVars

-----------------------------------------------------------------------------
\* The table and the requests in flight.
ExpensesTyped == /\ expenses \in [Expenses -> Fields \cup {NoExpense}]
                 /\ calls \in [Clerks -> Call]
                 /\ window \in [Trips -> Windows]
                 /\ basis \in [Expenses -> SUBSET Days]

\* budget-rules.md: "an expense date must fall within the trip's start and end
\* dates".  What is kept of it: an expense that was checked lies inside its trip as
\* long as the trip has the window it was checked with.  It strays only if Student 1
\* could not be reached, if another request changed it between check and merge, or
\* if its trip was moved or deleted since.
StraysAreExcused == \A e \in Expenses :
  expenses[e] /= NoExpense /\ basis[e] /= {} /\ basis[e] = window[expenses[e].trip]
    => Inside(expenses[e])

\* Both tables are sound after any overlap of edits, reviews and restarts.
BooksAreSound == TypeOK /\ ExpensesTyped /\ BudgetsAreSound /\ StraysAreExcused

\* A restart of the database changes no expense that is stored: only a request in
\* its last step does.
ExpensesMoveOnRequest ==
  [][\A e \in Expenses : expenses[e] /= NoExpense /\ expenses'[e] /= expenses[e]
       => \E c \in Clerks : /\ calls[c].at \in {"write", "delete"} /\ calls[c].expense = e
                            /\ calls'[c] = Done]_expenseVars

\* No restart, no stale update and no lost answer moves a row of either table.
TablesMoveOnRequest == RowsMoveOnRequest /\ ExpensesMoveOnRequest
=============================================================================
