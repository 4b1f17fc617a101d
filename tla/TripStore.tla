------------------------------ MODULE TripStore ------------------------------
(***************************************************************************)
(* Student 1's database service (repository.py): trips and what is planned *)
(* on them.  Every write runs in one BEGIN IMMEDIATE transaction, so each  *)
(* action is atomic, reads what it validates inside the transaction, and   *)
(* changes nothing when a check fails.                                     *)
(*                                                                         *)
(* A date is a day number and 0 stands for an absent date or time.  Names, *)
(* notes, statuses and itinerary times do not take part in the rules below *)
(* and are left out; transport pins are in TransportSeats.                 *)
(***************************************************************************)
EXTENDS Integers

CONSTANTS Trips,           \* trip ids; a client may choose one, also a freed one
          Items,           \* itinerary item ids
          Activities,      \* student 4's activity ids
          Accommodations,  \* student 2's accommodation ids
          LastDay,         \* the calendar is 1..LastDay
          LastTime         \* the times of a day are 1..LastTime

ASSUME CalendarAssumption == LastDay \in Nat /\ LastTime \in Nat

VARIABLES trips,       \* table trips: the window of each trip
          items,       \* table itinerary_items
          activities,  \* table trip_activities
          stays        \* table trip_accommodations

tables == <<trips, items, activities, stays>>

Days == 1..LastDay
Times == 0..LastTime          \* 0: none
Window == [start : Days, end : Days]
NoTrip == [start |-> 0, end |-> 0]
Live(t) == trips[t] /= NoTrip

\* A PATCH body: 0 for a date it leaves alone.
Change == [start : Days \cup {0}, end : Days \cup {0}]
Merge(window, change) ==
  [start |-> IF change.start = 0 THEN window.start ELSE change.start,
   end   |-> IF change.end = 0 THEN window.end ELSE change.end]

ItemRow == [id : Items, trip : Trips, date : Days]
ActivityRow == [trip : Trips, activity : Activities, date : Days]
StayRow == [trip : Trips, stay : Accommodations, date : Days, out : Days \cup {0},
            inTime : Times, outTime : Times]

Inside(window, day) == window.start <= day /\ day <= window.end
Covers(window, t, rows) == \A row \in rows : row.trip = t => Inside(window, row.date)

StoreInit == /\ trips = [t \in Trips |-> NoTrip]
             /\ items = {}
             /\ activities = {}
             /\ stays = {}

-----------------------------------------------------------------------------
CreateTrip(t, window) ==
  /\ ~Live(t)
  /\ window.start <= window.end
  /\ trips' = [trips EXCEPT ![t] = window]
  /\ UNCHANGED <<items, activities, stays>>

\* Mutant: the backend's check of the items is taken to be enough.
UpdateTrip_TrustsBackend(t, change) ==
  LET merged == Merge(trips[t], change)
  IN  /\ Live(t)
      /\ merged.start <= merged.end
      /\ Covers(merged, t, activities)
      /\ trips' = [trips EXCEPT ![t] = merged]
      /\ UNCHANGED <<items, activities, stays>>

UpdateTrip(t, change) ==
  LET merged == Merge(trips[t], change)
  IN  /\ Live(t)
      /\ merged.start <= merged.end
      /\ Covers(merged, t, items)
      /\ Covers(merged, t, activities)
      /\ trips' = [trips EXCEPT ![t] = merged]
      /\ UNCHANGED <<items, activities, stays>>

\* Mutant: itinerary items are not deleted with their trip.
DeleteTrip_LeavesItems(t) ==
  /\ Live(t)
  /\ trips' = [trips EXCEPT ![t] = NoTrip]
  /\ activities' = {row \in activities : row.trip /= t}
  /\ stays' = {row \in stays : row.trip /= t}
  /\ UNCHANGED items

\* The foreign keys cascade.
DeleteTrip(t) ==
  /\ Live(t)
  /\ trips' = [trips EXCEPT ![t] = NoTrip]
  /\ items' = {row \in items : row.trip /= t}
  /\ activities' = {row \in activities : row.trip /= t}
  /\ stays' = {row \in stays : row.trip /= t}

-----------------------------------------------------------------------------
CreateItem(row) ==
  /\ Live(row.trip)
  /\ Inside(trips[row.trip], row.date)
  /\ \A other \in items : other.id /= row.id
  /\ items' = items \cup {row}
  /\ UNCHANGED <<trips, activities, stays>>

UpdateItem(id, date) ==
  \E row \in items :
    /\ row.id = id
    /\ Inside(trips[row.trip], date)
    /\ items' = (items \ {row}) \cup {[row EXCEPT !.date = date]}
    /\ UNCHANGED <<trips, activities, stays>>

DeleteItem(id) ==
  /\ \E row \in items : row.id = id
  /\ items' = {row \in items : row.id /= id}
  /\ UNCHANGED <<trips, activities, stays>>

-----------------------------------------------------------------------------
\* Mutant: a second pin of the same activity is a second row.
AddTripActivity_Duplicates(row) ==
  /\ Live(row.trip)
  /\ Inside(trips[row.trip], row.date)
  /\ activities' = activities \cup {row}
  /\ UNCHANGED <<trips, items, stays>>

\* INSERT ... ON CONFLICT (trip_id, activity_id) DO UPDATE
AddTripActivity(row) ==
  /\ Live(row.trip)
  /\ Inside(trips[row.trip], row.date)
  /\ activities' = {other \in activities : \/ other.trip /= row.trip
                                           \/ other.activity /= row.activity} \cup {row}
  /\ UNCHANGED <<trips, items, stays>>

RemoveTripActivity(t, activity) ==
  /\ \E row \in activities : row.trip = t /\ row.activity = activity
  /\ activities' = {row \in activities : row.trip /= t \/ row.activity /= activity}
  /\ UNCHANGED <<trips, items, stays>>

\* The request model checks the order of the two dates; nothing checks the stay
\* against the trip's window here.
AddTripAccommodation(row) ==
  /\ Live(row.trip)
  /\ row.out = 0 \/ row.out >= row.date
  /\ stays' = {other \in stays : \/ other.trip /= row.trip
                                 \/ other.stay /= row.stay} \cup {row}
  /\ UNCHANGED <<trips, items, activities>>

RemoveTripAccommodation(t, stay) ==
  /\ \E row \in stays : row.trip = t /\ row.stay = stay
  /\ stays' = {row \in stays : row.trip /= t \/ row.stay /= stay}
  /\ UNCHANGED <<trips, items, activities>>

-----------------------------------------------------------------------------
StoreNext ==
  \/ \E t \in Trips : \/ \E window \in Window : CreateTrip(t, window)
                      \/ \E change \in Change : UpdateTrip(t, change)
                      \/ DeleteTrip(t)
                      \/ \E a \in Activities : RemoveTripActivity(t, a)
                      \/ \E s \in Accommodations : RemoveTripAccommodation(t, s)
  \/ \E row \in ItemRow : CreateItem(row)
  \/ \E id \in Items : DeleteItem(id) \/ \E date \in Days : UpdateItem(id, date)
  \/ \E row \in ActivityRow : AddTripActivity(row)
  \/ \E row \in StayRow : AddTripAccommodation(row)

-----------------------------------------------------------------------------
\* The rows each table holds, with its keys.
TablesOK ==
  /\ trips \in [Trips -> Window \cup {NoTrip}]
  /\ items \subseteq ItemRow
  /\ activities \subseteq ActivityRow
  /\ stays \subseteq StayRow
  /\ \A r1, r2 \in items : r1.id = r2.id => r1 = r2
  /\ \A r1, r2 \in activities : r1.trip = r2.trip /\ r1.activity = r2.activity => r1 = r2
  /\ \A r1, r2 \in stays : r1.trip = r2.trip /\ r1.stay = r2.stay => r1 = r2

\* Itinerary items and activities fall inside their trip's window, whichever of
\* the window and the date was written last (_ensure_trip_window_covers_items,
\* _ensure_trip_window_covers_activities, _validate_item_record).
DatesInWindow ==
  /\ \A row \in items : Inside(trips[row.trip], row.date)
  /\ \A row \in activities : Inside(trips[row.trip], row.date)

\* Nothing is planned on a trip that does not exist, also when a trip is deleted
\* while a request adds to it, or its id is used again.
NothingOutlivesItsTrip ==
  \A row \in items \cup activities \cup stays : Live(row.trip)
=============================================================================
