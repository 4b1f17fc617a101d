SPECIFICATION Spec
CONSTANTS
  Runs = {r1}
  Listings = {l1, l2}
  Reviewers = {u1}
  Callers = {c1}
  MaxResult = 2
  MaxSuggestions = 2
  MaxProposed = 2
  NoAnswer = NoAnswer
INVARIANTS AddedAsTicked AnswersTellAll
SYMMETRY Interchangeable
CHECK_DEADLOCK FALSE
