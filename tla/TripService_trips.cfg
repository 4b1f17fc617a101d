SPECIFICATION ServiceSpec
CONSTANTS
  Trips = {t1}
  Items = {i1}
  Activities = {a1}
  Accommodations = {s1}
  LastDay = 2
  MaxDays = 2
  LastTime = 1
  Requests = {q1, q2}
SYMMETRY RequestSymmetry
INVARIANTS TripsAreSound
