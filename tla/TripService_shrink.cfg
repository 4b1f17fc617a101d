SPECIFICATION ServiceSpec
CONSTANTS
  Trips = {t1}
  Items = {}
  Activities = {}
  Accommodations = {s1}
  LastDay = 3
  MaxDays = 3
  LastTime = 1
  Requests = {q1}
ACTION_CONSTRAINT TripsStay
INVARIANTS StaysInWindow
