SPECIFICATION MCSpec
CONSTANTS
  b1 = b1
  b2 = b2
  t1 = t1
  t2 = t2
  c1 = c1
  c2 = c2
  e1 = e1
  Budgets = {b1, b2}
  Trips = {t1, t2}
  Categories = {c1, c2}
  Runs = {r1}
  Users = {u1, u2}
  MaxMoney = 1
  Forms <- TheForms
  Edits <- TheEdits
  Changes <- TheChanges
  Seeds <- TheSeeds
  NoRow = NoRow
  NoTrip = NoTrip
  NoRun = NoRun
  Expenses = {e1}
  Windows = {{}, {1}, {2}}
  Planned <- ThePlan
  Known <- TheKnown
  Days = {1, 2}
  Clerks = {k1, k2}
  NoExpense = NoExpense
  Unset = Unset
SYMMETRY Symmetry
CHECK_DEADLOCK FALSE
INVARIANTS BooksAreSound AppliedAsApproved
PROPERTIES TablesMoveOnRequest
