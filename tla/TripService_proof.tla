-------------------------- MODULE TripService_proof --------------------------
(***************************************************************************)
(* TLAPS proofs about TripService: what the database's transactions keep   *)
(* true (StoreInv) survives any number of concurrent requests, because     *)
(* the backend changes a table only through them.                          *)
(***************************************************************************)
EXTENDS TripService, TLAPS

StoreInv == TablesOK /\ DatesInWindow /\ NothingOutlivesItsTrip

LEMMA StoreInitial == StoreInit => StoreInv
BY DEF StoreInit, StoreInv, TablesOK, DatesInWindow, NothingOutlivesItsTrip

\* A window a PATCH merges is one the calendar has.
LEMMA MergeType ==
  ASSUME NEW window \in Window, NEW change \in Change
  PROVE  Merge(window, change) \in Window
BY DEF Merge, Window, Change

LEMMA NoTripNoWindow == NoTrip \notin Window
BY DEF NoTrip, Window, Days

-----------------------------------------------------------------------------
(* One transaction.                                                        *)

LEMMA TripWrites ==
  ASSUME StoreInv, NEW t \in Trips, NEW window \in Window,
         trips' = [trips EXCEPT ![t] = window],
         UNCHANGED <<items, activities, stays>>,
         Covers(window, t, items), Covers(window, t, activities)
  PROVE  StoreInv'
BY NoTripNoWindow
   DEF StoreInv, TablesOK, DatesInWindow, NothingOutlivesItsTrip, Covers, Inside, Live,
       ItemRow, ActivityRow, StayRow

LEMMA StoreStep == StoreInv /\ StoreNext => StoreInv'
<1> SUFFICES ASSUME StoreInv, StoreNext PROVE StoreInv'
  OBVIOUS
<1> USE DEF StoreInv
<1>1. ASSUME NEW t \in Trips, NEW window \in Window, CreateTrip(t, window) PROVE StoreInv'
  <2>1. Covers(window, t, items) /\ Covers(window, t, activities)
    BY <1>1 DEF CreateTrip, Covers, NothingOutlivesItsTrip
  <2> QED
    BY <1>1, <2>1, TripWrites DEF CreateTrip
<1>2. ASSUME NEW t \in Trips, NEW change \in Change, UpdateTrip(t, change) PROVE StoreInv'
  <2>1. trips[t] \in Window
    BY <1>2 DEF UpdateTrip, Live, TablesOK
  <2>2. Merge(trips[t], change) \in Window
    BY <2>1, MergeType
  <2> QED
    BY <1>2, <2>2, TripWrites DEF UpdateTrip
<1>3. ASSUME NEW t \in Trips, DeleteTrip(t) PROVE StoreInv'
  BY <1>3 DEF DeleteTrip, TablesOK, DatesInWindow, NothingOutlivesItsTrip, Live, ItemRow,
              ActivityRow, StayRow
<1>4. ASSUME NEW t \in Trips, NEW a \in Activities, RemoveTripActivity(t, a) PROVE StoreInv'
  BY <1>4 DEF RemoveTripActivity, TablesOK, DatesInWindow, NothingOutlivesItsTrip, Live
<1>5. ASSUME NEW t \in Trips, NEW s \in Accommodations, RemoveTripAccommodation(t, s)
      PROVE  StoreInv'
  BY <1>5 DEF RemoveTripAccommodation, TablesOK, DatesInWindow, NothingOutlivesItsTrip, Live
<1>6. ASSUME NEW row \in ItemRow, CreateItem(row) PROVE StoreInv'
  BY <1>6 DEF CreateItem, TablesOK, DatesInWindow, NothingOutlivesItsTrip, Live
<1>7. ASSUME NEW id \in Items, DeleteItem(id) PROVE StoreInv'
  BY <1>7 DEF DeleteItem, TablesOK, DatesInWindow, NothingOutlivesItsTrip, Live
<1>8. ASSUME NEW id \in Items, NEW date \in Days, UpdateItem(id, date) PROVE StoreInv'
  <2>1. PICK row \in items : /\ row.id = id
                             /\ Inside(trips[row.trip], date)
                             /\ items' = (items \ {row}) \cup {[row EXCEPT !.date = date]}
    BY <1>8 DEF UpdateItem
  <2>2. UNCHANGED <<trips, activities, stays>>
    BY <1>8 DEF UpdateItem
  <2> DEFINE new == [row EXCEPT !.date = date]
  <2>3. new \in ItemRow /\ new.id = row.id /\ new.trip = row.trip /\ new.date = date
    BY DEF TablesOK, ItemRow
  <2> HIDE DEF new
  <2>4. items' = (items \ {row}) \cup {new}
    BY <2>1 DEF new
  <2> QED
    BY <2>1, <2>2, <2>3, <2>4 DEF TablesOK, DatesInWindow, NothingOutlivesItsTrip, Live
<1>9. ASSUME NEW row \in ActivityRow, AddTripActivity(row) PROVE StoreInv'
  BY <1>9 DEF AddTripActivity, TablesOK, DatesInWindow, NothingOutlivesItsTrip, Live
<1>10. ASSUME NEW row \in StayRow, AddTripAccommodation(row) PROVE StoreInv'
  BY <1>10 DEF AddTripAccommodation, TablesOK, DatesInWindow, NothingOutlivesItsTrip, Live
<1> QED
  BY <1>1, <1>2, <1>3, <1>4, <1>5, <1>6, <1>7, <1>8, <1>9, <1>10 DEF StoreNext

-----------------------------------------------------------------------------
(* The requests.                                                           *)

\* A stay whose times the backend has accepted: same-day stays end after they
\* begin.  The order of the dates is left to the database.
TimesOK(row) ==
  row.out = row.date /\ row.inTime /= 0 /\ row.outTime /= 0 => row.outTime > row.inTime

RequestInv == /\ requests \in [Requests -> Request]
              /\ \A q \in Requests : requests[q].at = "add_stay" => TimesOK(requests[q].row)

ServiceInv == StoreInv /\ StaysReadable /\ RequestInv

LEMMA ServiceInitial == ServiceInit => ServiceInv
BY StoreInitial
   DEF ServiceInit, StoreInit, ServiceInv, RequestInv, StaysReadable, Request, Idle

\* What a request carries to its write.
LEMMA Carried ==
  ASSUME NEW request \in Request
  PROVE  /\ request.at = "list_items" =>
              /\ request.trip \in Trips /\ request.change \in Change
              /\ request.merged \in Window
         /\ request.at = "list_activities" => request.trip \in Trips /\ request.change \in Change
         /\ request.at = "update_trip" => request.trip \in Trips /\ request.change \in Change
         /\ request.at = "create_item" => request.row \in ItemRow
         /\ request.at = "get_items_trip" =>
              request.id \in Items /\ request.trip \in Trips /\ request.date \in Days
         /\ request.at = "update_item" => request.id \in Items /\ request.date \in Days
         /\ request.at = "add_activity" => request.row \in ActivityRow
         /\ request.at = "add_stay" => request.row \in StayRow
BY DEF Request, Idle

\* The backend reaches the tables only through the database's transactions.
LEMMA StepsOfTheStore ==
  RequestInv /\ ServiceNext => StoreNext \/ UNCHANGED tables
<1> SUFFICES ASSUME RequestInv, ServiceNext PROVE StoreNext \/ UNCHANGED tables
  OBVIOUS
<1>1. ASSUME NEW q \in Requests, Serve(q) PROVE StoreNext \/ UNCHANGED tables
  <2>1. requests[q] \in Request
    BY DEF RequestInv
  <2>2. CASE PatchWrites(q)
    BY <2>1, <2>2, Carried DEF PatchWrites, Writes, Continues, StoreNext
  <2>3. CASE ItemWrites(q)
    BY <2>1, <2>3, Carried DEF ItemWrites, Writes, Continues, StoreNext
  <2>4. CASE PatchWritesItem(q)
    BY <2>1, <2>4, Carried DEF PatchWritesItem, Writes, Continues, StoreNext
  <2>5. CASE ActivityWrites(q)
    BY <2>1, <2>5, Carried DEF ActivityWrites, Writes, Continues, StoreNext
  <2>6. CASE StayWrites(q)
    BY <2>1, <2>6, Carried DEF StayWrites, Writes, Continues, StoreNext
  <2> QED
    BY <1>1, <2>2, <2>3, <2>4, <2>5, <2>6
       DEF Serve, PatchReadsTrip, PatchReadsItems, PatchReadsActivities, ItemReadsTrip,
           PatchReadsItem, PatchReadsItemsTrip, ActivityReadsTrip, StayReadsTrip, Refuse, Begins
<1>2. ASSUME NEW t \in Trips, NEW window \in Window, PostTrip(t, window)
      PROVE  StoreNext
  BY <1>2 DEF PostTrip, StoreNext
<1>3. CASE Delete
  BY <1>3 DEF Delete, StoreNext
<1> QED
  BY <1>1, <1>2, <1>3 DEF ServiceNext

LEMMA Settles ==
  ASSUME RequestInv, NEW q \in Requests, Becomes(q, Idle)
  PROVE  RequestInv'
BY DEF RequestInv, Becomes, Request, Idle

\* A request that goes on carries what its next call needs.
LEMMA GoesOn ==
  ASSUME RequestInv, NEW q \in Requests, NEW request \in Request, Becomes(q, request),
         request.at = "add_stay" => TimesOK(request.row)
  PROVE  RequestInv'
BY DEF RequestInv, Becomes

LEMMA RequestStep ==
  StoreInv /\ RequestInv /\ ServiceNext => RequestInv'
<1> SUFFICES ASSUME StoreInv, RequestInv, ServiceNext PROVE RequestInv'
  OBVIOUS
<1>1. ASSUME NEW q \in Requests, Serve(q) PROVE RequestInv'
  <2> DEFINE request == requests[q]
  <2>1. request \in Request
    BY DEF RequestInv
  <2>2. ASSUME NEW t \in Trips, NEW change \in DatedChange, PatchReadsTrip(q, t, change)
        PROVE  RequestInv'
    <3>1. change \in Change /\ trips[t] \in Window
      BY <2>2 DEF DatedChange, PatchReadsTrip, Live, StoreInv, TablesOK
    <3>2. Merge(trips[t], change) \in Window
      BY <3>1, MergeType
    <3> DEFINE new == [at |-> "list_items", trip |-> t, change |-> change,
                       merged |-> Merge(trips[t], change)]
    <3>3. new \in Request /\ new.at = "list_items"
      BY <3>1, <3>2 DEF Request
    <3>4. Becomes(q, new)
      BY <2>2 DEF PatchReadsTrip, Begins, Becomes
    <3> HIDE DEF new
    <3> QED
      BY <3>3, <3>4, GoesOn
  <2>3. CASE PatchReadsItems(q)
    <3> DEFINE new == [request EXCEPT !.at = "list_activities"]
    <3>1. request.at = "list_items" /\ Becomes(q, new)
      BY <2>3 DEF PatchReadsItems, Continues
    <3>2. new \in Request /\ new.at = "list_activities"
      BY <2>1, <3>1 DEF Request, Idle
    <3> HIDE DEF new, request
    <3> QED
      BY <3>1, <3>2, GoesOn
  <2>4. CASE PatchReadsActivities(q)
    <3> DEFINE new == [at |-> "update_trip", trip |-> request.trip, change |-> request.change]
    <3>1. request.at = "list_activities" /\ Becomes(q, new)
      BY <2>4 DEF PatchReadsActivities, Continues
    <3>2. new \in Request /\ new.at = "update_trip"
      BY <2>1, <3>1, Carried DEF Request
    <3> HIDE DEF new, request
    <3> QED
      BY <3>1, <3>2, GoesOn
  <2>5. ASSUME NEW row \in ItemRow, ItemReadsTrip(q, row) PROVE RequestInv'
    <3> DEFINE new == [at |-> "create_item", row |-> row]
    <3>1. new \in Request /\ new.at = "create_item"
      BY DEF Request
    <3>2. Becomes(q, new)
      BY <2>5 DEF ItemReadsTrip, Begins, Becomes
    <3> HIDE DEF new
    <3> QED
      BY <3>1, <3>2, GoesOn
  <2>6. ASSUME NEW row \in items, NEW date \in Days, PatchReadsItem(q, row, date)
        PROVE  RequestInv'
    <3> DEFINE new == [at |-> "get_items_trip", id |-> row.id, trip |-> row.trip,
                       date |-> date]
    <3>1. row.id \in Items /\ row.trip \in Trips
      BY DEF StoreInv, TablesOK, ItemRow
    <3>2. new \in Request /\ new.at = "get_items_trip"
      BY <3>1 DEF Request
    <3>3. Becomes(q, new)
      BY <2>6 DEF PatchReadsItem, Begins, Becomes
    <3> HIDE DEF new
    <3> QED
      BY <3>2, <3>3, GoesOn
  <2>7. CASE PatchReadsItemsTrip(q)
    <3> DEFINE new == [at |-> "update_item", id |-> request.id, date |-> request.date]
    <3>1. request.at = "get_items_trip" /\ Becomes(q, new)
      BY <2>7 DEF PatchReadsItemsTrip, Continues
    <3>2. new \in Request /\ new.at = "update_item"
      BY <2>1, <3>1, Carried DEF Request
    <3> HIDE DEF new, request
    <3> QED
      BY <3>1, <3>2, GoesOn
  <2>8. ASSUME NEW t \in Trips, NEW a \in Activities, NEW date \in Days \cup {0},
               ActivityReadsTrip(q, t, a, date)
        PROVE  RequestInv'
    <3> DEFINE day == IF date = 0 THEN trips[t].start ELSE date
               new == [at |-> "add_activity",
                       row |-> [trip |-> t, activity |-> a, date |-> day]]
    <3>1. day \in Days
      BY <2>8 DEF ActivityReadsTrip, Live, StoreInv, TablesOK, Window
    <3>2. Becomes(q, new)
      BY <2>8 DEF ActivityReadsTrip, Begins, Becomes
    <3> HIDE DEF day
    <3>3. new \in Request /\ new.at = "add_activity"
      BY <3>1 DEF Request, ActivityRow
    <3> HIDE DEF new
    <3> QED
      BY <3>2, <3>3, GoesOn
  <2>9. ASSUME NEW t \in Trips, NEW s \in Accommodations, NEW date \in Days \cup {0},
               NEW out \in Days \cup {0}, NEW inTime \in Times, NEW outTime \in Times,
               StayReadsTrip(q, t, s, date, out, inTime, outTime)
        PROVE  RequestInv'
    <3> DEFINE day == IF date = 0 THEN trips[t].start ELSE date
               stay == [trip |-> t, stay |-> s, date |-> day, out |-> out,
                        inTime |-> inTime, outTime |-> outTime]
               new == [at |-> "add_stay", row |-> stay]
    <3>1. day \in Days
      BY <2>9 DEF StayReadsTrip, Live, StoreInv, TablesOK, Window
    <3>2. Becomes(q, new) /\ ValidStay(trips[t], stay)
      BY <2>9 DEF StayReadsTrip, Begins, Becomes
    <3> HIDE DEF day
    <3>3. stay \in StayRow
      BY <3>1 DEF StayRow
    <3>4. TimesOK(stay)
      BY <3>2 DEF ValidStay, TimesOK, Times
    <3> HIDE DEF stay
    <3>5. new \in Request /\ new.at = "add_stay" /\ new.row = stay
      BY <3>3 DEF Request
    <3> HIDE DEF new
    <3> QED
      BY <3>2, <3>4, <3>5, GoesOn
  <2>10. CASE PatchWrites(q) \/ ItemWrites(q) \/ PatchWritesItem(q) \/ ActivityWrites(q)
              \/ StayWrites(q) \/ Refuse(q)
    BY <2>10, Settles
       DEF PatchWrites, ItemWrites, PatchWritesItem, ActivityWrites, StayWrites, Refuse, Writes
  <2> QED
    BY <1>1, <2>2, <2>3, <2>4, <2>5, <2>6, <2>7, <2>8, <2>9, <2>10 DEF Serve
<1>2. ASSUME UNCHANGED requests PROVE RequestInv'
  BY <1>2 DEF RequestInv
<1> QED
  BY <1>1, <1>2 DEF ServiceNext, PostTrip, Delete

-----------------------------------------------------------------------------
(* The stays.                                                              *)

LEMMA StaysStep ==
  StoreInv /\ StaysReadable /\ RequestInv /\ ServiceNext => StaysReadable'
<1> SUFFICES ASSUME StoreInv, StaysReadable, RequestInv, ServiceNext PROVE StaysReadable'
  OBVIOUS
<1>1. ASSUME NEW q \in Requests, StayWrites(q) PROVE StaysReadable'
  <2> DEFINE row == requests[q].row
  <2>1. TimesOK(row)
    BY <1>1 DEF StayWrites, Writes, Continues, RequestInv
  <2>2. AddTripAccommodation(row)
    BY <1>1 DEF StayWrites
  <2> HIDE DEF row
  <2> QED
    BY <2>1, <2>2 DEF AddTripAccommodation, TimesOK, StaysReadable
<1>2. ASSUME stays' \subseteq stays PROVE StaysReadable'
  BY <1>2 DEF StaysReadable
<1>3. ASSUME NEW q \in Requests, Serve(q), ~StayWrites(q) PROVE stays' = stays
  BY <1>3
     DEF Serve, PatchReadsTrip, PatchReadsItems, PatchReadsActivities, PatchWrites,
         ItemReadsTrip, ItemWrites, PatchReadsItem, PatchReadsItemsTrip, PatchWritesItem,
         ActivityReadsTrip, ActivityWrites, StayReadsTrip, Refuse, Begins, tables,
         UpdateTrip, CreateItem, UpdateItem, AddTripActivity
<1>4. ASSUME NEW t \in Trips, NEW window \in Window, PostTrip(t, window)
      PROVE  stays' = stays
  BY <1>4 DEF PostTrip, CreateTrip
<1>5. ASSUME Delete PROVE stays' \subseteq stays
  BY <1>5 DEF Delete, DeleteTrip, RemoveTripActivity, RemoveTripAccommodation, DeleteItem
<1> QED
  BY <1>1, <1>2, <1>3, <1>4, <1>5 DEF ServiceNext

-----------------------------------------------------------------------------
LEMMA Invariance == ServiceSpec => []ServiceInv
<1>1. ServiceInv /\ ServiceNext => ServiceInv'
  <2> SUFFICES ASSUME ServiceInv, ServiceNext PROVE ServiceInv'
    OBVIOUS
  <2>1. StoreInv'
    <3>1. CASE StoreNext
      BY <3>1, StoreStep DEF ServiceInv
    <3>2. CASE UNCHANGED tables
      BY <3>2 DEF ServiceInv, StoreInv, TablesOK, DatesInWindow, NothingOutlivesItsTrip,
                  Live, tables
    <3> QED
      BY <3>1, <3>2, StepsOfTheStore DEF ServiceInv
  <2> QED
    BY <2>1, RequestStep, StaysStep DEF ServiceInv
<1>2. ServiceInv /\ UNCHANGED vars => ServiceInv'
  BY DEF ServiceInv, StoreInv, TablesOK, DatesInWindow, NothingOutlivesItsTrip, Live,
         StaysReadable, RequestInv, vars
<1> QED
  BY <1>1, <1>2, ServiceInitial, PTL DEF ServiceSpec

\* Keys stay unique and every request in flight carries what its write needs,
\* whatever the requests do in between.
THEOREM TypeCorrect == ServiceSpec => []TypeOK
<1>1. ServiceInv => TypeOK
  BY DEF ServiceInv, StoreInv, RequestInv, TypeOK
<1> QED
  BY <1>1, Invariance, PTL

\* A PATCH that moves a trip's window and a write that dates an item or an
\* activity never leave one outside the other, in whichever order the checks
\* and the writes of any number of requests run.
THEOREM DatesStayInside == ServiceSpec => []DatesInWindow
<1>1. ServiceInv => DatesInWindow
  BY DEF ServiceInv, StoreInv
<1> QED
  BY <1>1, Invariance, PTL

\* A write that was validated against a trip deleted since then adds nothing.
THEOREM NothingIsOrphaned == ServiceSpec => []NothingOutlivesItsTrip
<1>1. ServiceInv => NothingOutlivesItsTrip
  BY DEF ServiceInv, StoreInv
<1> QED
  BY <1>1, Invariance, PTL

\* No accepted stay makes its trip unreadable: the backend orders the times of
\* a same-day stay and the database orders the dates.
THEOREM EveryStayReads == ServiceSpec => []StaysReadable
<1>1. ServiceInv => StaysReadable
  BY DEF ServiceInv
<1> QED
  BY <1>1, Invariance, PTL

\* The four tables keep all of their promises, for any number of overlapping requests.
THEOREM TripsStaySound == ServiceSpec => []TripsAreSound
BY TypeCorrect, DatesStayInside, NothingIsOrphaned, EveryStayReads, PTL DEF TripsAreSound
=============================================================================
