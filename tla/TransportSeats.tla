---------------------------- MODULE TransportSeats ----------------------------
(***************************************************************************)
(* Student 3's transport options and the selections Student 1 stores for   *)
(* them.  Student 3 decides (is there a seat, may the option be deleted)   *)
(* from what it reads of Student 1, one HTTP call at a time; Student 1     *)
(* stores what it is told.                                                 *)
(***************************************************************************)
EXTENDS Integers, FiniteSets, Functions

CONSTANTS Trips, Options,
          Clients,      \* each has at most one request in flight
          MaxSeats,     \* largest capacity of an option
          MaxParty,     \* largest traveller_count of a selection
          Outages       \* whether Student 1 may be unreachable for the guard of a deletion

ASSUME SeatsAssumption == /\ IsFiniteSet(Trips) /\ IsFiniteSet(Clients)
                          /\ MaxSeats \in Nat \ {0}
                          /\ MaxParty \in Nat \ {0}
                          /\ Outages \in BOOLEAN

VARIABLES options,   \* student 3's table transport_options
          live,      \* the trips student 1 has
          pins,      \* student 1's table trip_transport
          requests

vars == <<options, live, pins, requests>>

\* open: availability_status is neither sold_out nor cancelled
Option == [capacity : 1..MaxSeats, open : BOOLEAN]
NoOption == [capacity |-> 0, open |-> FALSE]

\* active: plan_status is not cancelled
Pin == [party : 1..MaxParty, active : BOOLEAN]
NoPin == [party |-> 0, active |-> FALSE]
Seats(pin) == IF pin.active THEN pin.party ELSE 0

Idle == [at |-> "idle"]
Request ==
  {Idle}
  \cup [at : {"list_trips"}, trip : Trips, option : Options, ask : Pin, capacity : 1..MaxSeats]
  \cup [at : {"read_trips"}, trip : Trips, option : Options, ask : Pin, capacity : 1..MaxSeats,
        left : SUBSET Trips, taken : Nat]
  \cup [at : {"delete"}, option : Options, asked : BOOLEAN]

Init == /\ options \in [Options -> Option \cup {NoOption}]
        /\ live = {}
        /\ pins = [t \in Trips |-> [o \in Options |-> NoPin]]
        /\ requests = [c \in Clients |-> Idle]

Free(c) == requests[c] = Idle
Becomes(c, request) == requests' = [requests EXCEPT ![c] = request]
Pinning(t, o, pin) == pins' = [pins EXCEPT ![t][o] = pin]
Holding(o) == {t \in Trips : pins[t][o] /= NoPin}

-----------------------------------------------------------------------------
(* add_to_itinerary                                                        *)

\* Mutant: only the party itself is compared with the capacity.
Fits_Alone(request) == request.ask.party <= request.capacity

\* ensure_seats_available; a cancelled selection is counted here too.
Fits(request) == request.ask.party <= request.capacity - request.taken

AddReadsOption(c, t, o, ask) ==
  /\ Free(c)
  /\ options[o].open
  /\ Becomes(c, [at |-> "list_trips", trip |-> t, option |-> o, ask |-> ask,
                 capacity |-> options[o].capacity])
  /\ UNCHANGED <<options, live, pins>>

\* Mutant: the running total is kept by the service, not by the request.
AddListsTrips_OneTotal(c) ==
  LET request == requests[c]
  IN  /\ request.at = "list_trips"
      /\ requests' = [d \in Clients |->
           IF d = c THEN [at |-> "read_trips", trip |-> request.trip, option |-> request.option,
                          ask |-> request.ask, capacity |-> request.capacity,
                          left |-> Holding(request.option), taken |-> 0]
           ELSE IF requests[d].at = "read_trips" THEN [requests[d] EXCEPT !.taken = 0]
           ELSE requests[d]]
      /\ UNCHANGED <<options, live, pins>>

AddListsTrips(c) ==
  LET request == requests[c]
  IN  /\ request.at = "list_trips"
      /\ Becomes(c, [at |-> "read_trips", trip |-> request.trip, option |-> request.option,
                     ask |-> request.ask, capacity |-> request.capacity,
                     left |-> Holding(request.option), taken |-> 0])
      /\ UNCHANGED <<options, live, pins>>

\* Mutant: the seats of the trip read last, not of all of them.
AddReadsTrip_LastOnly(c, t) ==
  LET request == requests[c]
      seats == IF t = request.trip THEN 0 ELSE Seats(pins[t][request.option])
  IN  /\ request.at = "read_trips"
      /\ t \in request.left \cap live
      /\ Becomes(c, [request EXCEPT !.left = @ \ {t}, !.taken = seats])
      /\ UNCHANGED <<options, live, pins>>

\* The selections of each trip in the list, one call a trip; the trip the
\* selection is for does not count against itself.
AddReadsTrip(c, t) ==
  LET request == requests[c]
      seats == IF t = request.trip THEN 0 ELSE Seats(pins[t][request.option])
  IN  /\ request.at = "read_trips"
      /\ t \in request.left \cap live
      /\ Becomes(c, [request EXCEPT !.left = @ \ {t}, !.taken = @ + seats])
      /\ UNCHANGED <<options, live, pins>>

\* Student 1's PUT: the trip must exist, the selection replaces the trip's own.
AddWrites(c) ==
  LET request == requests[c]
  IN  /\ request.at = "read_trips"
      /\ request.left = {}
      /\ Fits(request)
      /\ request.trip \in live
      /\ Pinning(request.trip, request.option, request.ask)
      /\ Becomes(c, Idle)
      /\ UNCHANGED <<options, live>>

Remove(c, t, o) == /\ Free(c)
                   /\ pins[t][o] /= NoPin
                   /\ Pinning(t, o, NoPin)
                   /\ UNCHANGED <<options, live, requests>>

-----------------------------------------------------------------------------
(* The catalogue                                                           *)

CreateOption(c, o, option) == /\ Free(c)
                              /\ options[o] = NoOption
                              /\ options' = [options EXCEPT ![o] = option]
                              /\ UNCHANGED <<live, pins, requests>>

UpdateOption(c, o, option) == /\ Free(c)
                              /\ options[o] \notin {NoOption, option}
                              /\ options' = [options EXCEPT ![o] = option]
                              /\ UNCHANGED <<live, pins, requests>>

\* Mutant: a cancelled selection is not one that holds the option.
DeleteLooks_ActiveOnly(c, o, asked) ==
  /\ Free(c)
  /\ asked => \A t \in Holding(o) : ~pins[t][o].active
  /\ Becomes(c, [at |-> "delete", option |-> o, asked |-> asked])
  /\ UNCHANGED <<options, live, pins>>

\* No trip may hold the option; when Student 1 cannot be asked the deletion
\* goes on.
DeleteLooks(c, o, asked) ==
  /\ Free(c)
  /\ asked => Holding(o) = {}
  /\ Becomes(c, [at |-> "delete", option |-> o, asked |-> asked])
  /\ UNCHANGED <<options, live, pins>>

DeleteWrites(c) ==
  /\ requests[c].at = "delete"
  /\ options[requests[c].option] /= NoOption
  /\ options' = [options EXCEPT ![requests[c].option] = NoOption]
  /\ Becomes(c, Idle)
  /\ UNCHANGED <<live, pins>>

\* The request is answered with an error before its write.
Refuse(c) == /\ ~Free(c)
             /\ Becomes(c, Idle)
             /\ UNCHANGED <<options, live, pins>>

-----------------------------------------------------------------------------
(* Student 1's trips                                                       *)

CreateTrip(t) == /\ t \notin live
                 /\ live' = live \cup {t}
                 /\ UNCHANGED <<options, pins, requests>>

\* Mutant: the selections stay when their trip is deleted.
DeleteTrip_LeavesPins(t) == /\ t \in live
                            /\ live' = live \ {t}
                            /\ UNCHANGED <<options, pins, requests>>

DeleteTrip(t) == /\ t \in live
                 /\ live' = live \ {t}
                 /\ pins' = [pins EXCEPT ![t] = [o \in Options |-> NoPin]]
                 /\ UNCHANGED <<options, requests>>

ClientStep(c) ==
  \/ \E t \in Trips, o \in Options, ask \in Pin : AddReadsOption(c, t, o, ask)
  \/ AddListsTrips(c)
  \/ \E t \in Trips : AddReadsTrip(c, t)
  \/ AddWrites(c)
  \/ \E t \in Trips, o \in Options : Remove(c, t, o)
  \/ \E o \in Options, option \in Option : \/ CreateOption(c, o, option)
                                           \/ UpdateOption(c, o, option)
  \/ \E o \in Options, asked \in {TRUE, ~Outages} : DeleteLooks(c, o, asked)
  \/ DeleteWrites(c)
  \/ Refuse(c)

Next == \/ \E c \in Clients : ClientStep(c)
        \/ \E t \in Trips : CreateTrip(t) \/ DeleteTrip(t)

Spec == Init /\ [][Next]_vars

-----------------------------------------------------------------------------
Taken(o) == SumFunction([t \in Trips |-> Seats(pins[t][o])])

\* The tables and the requests; only a trip that exists holds selections.
TypeOK == /\ options \in [Options -> Option \cup {NoOption}]
          /\ live \subseteq Trips
          /\ pins \in [Trips -> [Options -> Pin \cup {NoPin}]]
          /\ requests \in [Clients -> Request]
          /\ \A o \in Options : Holding(o) \subseteq live

\* delete_transport_option: "otherwise deleting an option would leave Student 1
\* with rows pointing at something that no longer exists".
PinsNameOptions == \A o \in Options : Holding(o) /= {} => options[o] /= NoOption

\* How far concurrent requests can oversell: each check reads every selection
\* written before it began, so only requests in flight together add up.
OversellBounded == \A o \in Options : Taken(o) <= Cardinality(Clients) * MaxSeats

\* Each pin is of a trip there is, and a table of seats is oversold no further than that.
SeatsAreSound == TypeOK /\ OversellBounded
=============================================================================
