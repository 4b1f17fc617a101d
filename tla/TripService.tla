----------------------------- MODULE TripService -----------------------------
(***************************************************************************)
(* Student 1's backend (service.py, trip_rules.py) over its database       *)
(* service.  A handler reads through the database API, validates what it   *)
(* read, and forwards the write: one HTTP call at a time, with no version  *)
(* and no lock, so other requests run between any two of its calls.        *)
(***************************************************************************)
EXTENDS TripStore

CONSTANTS Requests,  \* requests the backend serves at the same time
          MaxDays    \* MAX_TRIP_DURATION_DAYS

ASSUME DurationAssumption == MaxDays \in Nat

VARIABLE requests    \* what each request in flight has read and will write

vars == <<trips, items, activities, stays, requests>>

Idle == [at |-> "idle"]
Request ==
  {Idle}
  \cup [at : {"list_items", "list_activities"}, trip : Trips, change : Change, merged : Window]
  \cup [at : {"update_trip"}, trip : Trips, change : Change]
  \cup [at : {"create_item"}, row : ItemRow]
  \cup [at : {"get_items_trip"}, id : Items, trip : Trips, date : Days]
  \cup [at : {"update_item"}, id : Items, date : Days]
  \cup [at : {"add_activity"}, row : ActivityRow]
  \cup [at : {"add_stay"}, row : StayRow]

ServiceInit == StoreInit /\ requests = [q \in Requests |-> Idle]

Begins(q, request) == /\ requests[q] = Idle
                      /\ requests' = [requests EXCEPT ![q] = request]
                      /\ UNCHANGED tables
Continues(q, at) == requests[q].at = at
Becomes(q, request) == requests' = [requests EXCEPT ![q] = request]
Writes(q, at) == Continues(q, at) /\ Becomes(q, Idle)

-----------------------------------------------------------------------------
\* validate_trip_window
ValidWindow(window) == /\ window.start <= window.end
                       /\ window.end - window.start + 1 <= MaxDays

\* Mutant: no look at the times of a same-day stay.
ValidStay_IgnoresTimes(window, row) ==
  /\ Inside(window, row.date)
  /\ row.out = 0 \/ Inside(window, row.out)

\* validate_stay_window
ValidStay(window, row) ==
  /\ Inside(window, row.date)
  /\ row.out = 0 \/ Inside(window, row.out)
  /\ ~(row.out = row.date /\ row.inTime /= 0 /\ row.outTime /= 0 /\ row.outTime <= row.inTime)

\* POST, and the DELETEs, are one database call each.
PostTrip(t, window) == /\ ValidWindow(window)
                       /\ CreateTrip(t, window)
                       /\ UNCHANGED requests

Delete == /\ \/ \E t \in Trips : \/ DeleteTrip(t)
                                 \/ \E a \in Activities : RemoveTripActivity(t, a)
                                 \/ \E s \in Accommodations : RemoveTripAccommodation(t, s)
             \/ \E id \in Items : DeleteItem(id)
          /\ UNCHANGED requests

-----------------------------------------------------------------------------
\* PATCH a trip: read it, merge, check the window; read its items, check them;
\* read its activities, check them; forward the PATCH body, which the database
\* merges into the trip it finds.
PatchReadsTrip(q, t, change) ==
  /\ Live(t)
  /\ ValidWindow(Merge(trips[t], change))
  /\ Begins(q, [at |-> "list_items", trip |-> t, change |-> change,
                merged |-> Merge(trips[t], change)])

PatchReadsItems(q) ==
  /\ Continues(q, "list_items")
  /\ Live(requests[q].trip)
  /\ Covers(requests[q].merged, requests[q].trip, items)
  /\ Becomes(q, [requests[q] EXCEPT !.at = "list_activities"])
  /\ UNCHANGED tables

PatchReadsActivities(q) ==
  /\ Continues(q, "list_activities")
  /\ Live(requests[q].trip)
  /\ Covers(requests[q].merged, requests[q].trip, activities)
  /\ Becomes(q, [at |-> "update_trip", trip |-> requests[q].trip,
                 change |-> requests[q].change])
  /\ UNCHANGED tables

PatchWrites(q) ==
  /\ Writes(q, "update_trip")
  /\ UpdateTrip(requests[q].trip, requests[q].change)

-----------------------------------------------------------------------------
ItemReadsTrip(q, row) ==
  /\ Live(row.trip)
  /\ Inside(trips[row.trip], row.date)
  /\ Begins(q, [at |-> "create_item", row |-> row])

ItemWrites(q) == Writes(q, "create_item") /\ CreateItem(requests[q].row)

\* PATCH an item: read it, read the trip it was on, check, forward.
PatchReadsItem(q, row, date) ==
  Begins(q, [at |-> "get_items_trip", id |-> row.id, trip |-> row.trip, date |-> date])

PatchReadsItemsTrip(q) ==
  /\ Continues(q, "get_items_trip")
  /\ Live(requests[q].trip)
  /\ Inside(trips[requests[q].trip], requests[q].date)
  /\ Becomes(q, [at |-> "update_item", id |-> requests[q].id, date |-> requests[q].date])
  /\ UNCHANGED tables

PatchWritesItem(q) ==
  Writes(q, "update_item") /\ UpdateItem(requests[q].id, requests[q].date)

\* PUT an activity or a stay: an absent date becomes the trip's first day.
ActivityReadsTrip(q, t, a, date) ==
  LET day == IF date = 0 THEN trips[t].start ELSE date
  IN  /\ Live(t)
      /\ Inside(trips[t], day)
      /\ Begins(q, [at |-> "add_activity", row |-> [trip |-> t, activity |-> a, date |-> day]])

ActivityWrites(q) == Writes(q, "add_activity") /\ AddTripActivity(requests[q].row)

StayReadsTrip(q, t, s, date, out, inTime, outTime) ==
  LET row == [trip |-> t, stay |-> s, date |-> IF date = 0 THEN trips[t].start ELSE date,
              out |-> out, inTime |-> inTime, outTime |-> outTime]
  IN  /\ Live(t)
      /\ ValidStay(trips[t], row)
      /\ Begins(q, [at |-> "add_stay", row |-> row])

StayWrites(q) == Writes(q, "add_stay") /\ AddTripAccommodation(requests[q].row)

\* The request is answered with an error before its write: a check or a lookup
\* failed, or a call to the database timed out.
Refuse(q) == /\ requests[q] /= Idle
             /\ Becomes(q, Idle)
             /\ UNCHANGED tables

-----------------------------------------------------------------------------
\* A PATCH without a date leaves what is modelled alone.
DatedChange == {change \in Change : change.start /= 0 \/ change.end /= 0}

Serve(q) ==
  \/ \E t \in Trips : \E change \in DatedChange : PatchReadsTrip(q, t, change)
  \/ PatchReadsItems(q) \/ PatchReadsActivities(q) \/ PatchWrites(q)
  \/ \E row \in ItemRow : ItemReadsTrip(q, row)
  \/ ItemWrites(q)
  \/ \E row \in items, date \in Days : PatchReadsItem(q, row, date)
  \/ PatchReadsItemsTrip(q) \/ PatchWritesItem(q)
  \/ \E t \in Trips, a \in Activities, date \in Days \cup {0} : ActivityReadsTrip(q, t, a, date)
  \/ ActivityWrites(q)
  \/ \E t \in Trips, s \in Accommodations, date, out \in Days \cup {0},
        inTime, outTime \in Times : StayReadsTrip(q, t, s, date, out, inTime, outTime)
  \/ StayWrites(q)
  \/ Refuse(q)

ServiceNext == \/ \E q \in Requests : Serve(q)
               \/ \E t \in Trips, window \in Window : PostTrip(t, window)
               \/ Delete

ServiceSpec == ServiceInit /\ [][ServiceNext]_vars

-----------------------------------------------------------------------------
\* The requests in flight.
TypeOK == TablesOK /\ requests \in [Requests -> Request]

\* Every stored stay can be read back: TripAccommodationRecord, which every
\* listing goes through, refuses a stay that ends before it begins.  One such
\* row would fail every later read of its trip.
StaysReadable ==
  \A row \in stays : row.out /= 0 =>
    /\ row.out >= row.date
    /\ row.out = row.date /\ row.inTime /= 0 /\ row.outTime /= 0 => row.outTime > row.inTime

\* What the four tables promise each other, whichever requests overlap: rows name
\* trips there are, dated ones lie inside them, and every stay can be read back.
TripsAreSound == TypeOK /\ DatesInWindow /\ NothingOutlivesItsTrip /\ StaysReadable

\* trip_rules.py:72-73: "nothing on a trip may fall outside the trip's own dates".
StaysInWindow ==
  \A row \in stays : /\ Inside(trips[row.trip], row.date)
                     /\ row.out /= 0 => Inside(trips[row.trip], row.out)
=============================================================================
