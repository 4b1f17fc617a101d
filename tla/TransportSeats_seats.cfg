SPECIFICATION WatchedSpec
CONSTANTS
  Trips = {t1, t2, t3}
  Options = {o1}
  Clients = {c1, c2}
  MaxSeats = 2
  MaxParty = 2
  Outages = TRUE
CONSTRAINT Overlap
SYMMETRY Symmetry
INVARIANTS SeatsAreSound PinsNameOptionsAlone
PROPERTIES SelectionsFitAlone
