------------------------------ MODULE TripPicker -------------------------------
(***************************************************************************)
(* The tick-list of trips in which a traveller puts a stay, a journey or an   *)
(* activity.  Student 1 holds the trips and what is pinned to them; the        *)
(* backend of the kind asks it for all trips, for the trips that hold this     *)
(* listing, and for the rows of each of those.  A tick or an untick writes     *)
(* first and then answers with the whole list, read anew.                      *)
(***************************************************************************)
EXTENDS Naturals, FiniteSets

CONSTANTS AllTrips,
          Details,      \* dates or travellers of a pin
          MaxVisits,    \* requests to the backend
          MaxMoves      \* what others do to the trips in all

VARIABLES trips,        \* the trips there are
          pinned,       \* [AllTrips -> the details of this listing's pin, or None]
          picker,       \* the request being served
          visits, moves,
          moments       \* history: what was pinned since the request began or wrote

PickerVars == <<trips, pinned, picker, visits, moves, moments>>

None == 0
ListingKinds == {"stay", "transport", "activity"}
Holders == {t \in trips : pinned[t] /= None}
NoPicker == [kind |-> "stay", at |-> "idle", listed |-> {}, holders |-> {}, left |-> {"list", "holders"},
             rows |-> [t \in AllTrips |-> None], wrote |-> {}]

PickerInit == /\ trips \in SUBSET AllTrips \ {{}}
              /\ pinned \in {p \in [AllTrips -> Details \cup {None}] :
                               \A t \in AllTrips : p[t] /= None => t \in trips}
              /\ picker = NoPicker /\ visits = 0 /\ moves = 0 /\ moments = {}

Free == picker.at \in {"idle", "shown", "failed"} /\ visits < MaxVisits
Starts(kind, written) ==
  [NoPicker EXCEPT !.kind = kind, !.at = "reading", !.wrote = written]
PickerGoes(next) == picker' = next /\ UNCHANGED <<trips, pinned, visits, moves, moments>>

\* Mutant: the rows of the last request are kept.
Opens_Cached(kind) ==
  /\ Free /\ visits' = visits + 1
  /\ picker' = [Starts(kind, {}) EXCEPT !.rows = picker.rows] /\ moments' = {pinned}
  /\ UNCHANGED <<trips, pinned, moves>>

Opens(kind) ==
  /\ Free /\ visits' = visits + 1
  /\ picker' = Starts(kind, {}) /\ moments' = {pinned}
  /\ UNCHANGED <<trips, pinned, moves>>

\* Mutant: who holds the listing is asked before it is put in the trip.
Writes_AskedBefore(kind, t, d) ==
  /\ Free /\ visits' = visits + 1
  /\ t \in trips /\ (d = None => pinned[t] /= None)
  /\ pinned' = [pinned EXCEPT ![t] = d]
  /\ picker' = [Starts(kind, {<<t, d>>}) EXCEPT !.holders = Holders, !.left = {"list"}]
  /\ moments' = {pinned'}
  /\ UNCHANGED <<trips, moves>>

\* A tick with its details, or an untick: Student 1's answer comes first.
Writes(kind, t, d) ==
  /\ Free /\ visits' = visits + 1
  /\ t \in trips /\ (d = None => pinned[t] /= None)
  /\ pinned' = [pinned EXCEPT ![t] = d]
  /\ picker' = Starts(kind, {<<t, d>>}) /\ moments' = {pinned'}
  /\ UNCHANGED <<trips, moves>>
\* There is no such trip or nothing to untick; or the write is made and its answer
\* lost.  The traveller is told of an error either way.
WriteFails(kind, t, d) ==
  /\ Free /\ visits' = visits + 1
  /\ pinned' \in {pinned, IF t \in trips THEN [pinned EXCEPT ![t] = d] ELSE pinned}
  /\ picker' = [Starts(kind, {}) EXCEPT !.at = "failed"] /\ moments' = {pinned'}
  /\ UNCHANGED <<trips, moves>>

\* Students 2 and 3 list the trips and then ask who holds; student 4 does both at once.
ReadsTrips ==
  /\ picker.at = "reading" /\ "list" \in picker.left
  /\ PickerGoes([picker EXCEPT !.listed = trips, !.left = @ \ {"list"}])

\* Mutant: for a journey every trip is asked for its rows, whoever holds it.
ReadsHolders_EachTrip ==
  /\ picker.at = "reading" /\ "holders" \in picker.left
  /\ "list" \in picker.left => picker.kind = "activity"
  /\ PickerGoes([picker EXCEPT !.holders = IF picker.kind = "transport" THEN trips ELSE Holders,
                               !.left = @ \ {"holders"}])

ReadsHolders ==
  /\ picker.at = "reading" /\ "holders" \in picker.left
  /\ "list" \in picker.left => picker.kind = "activity"
  /\ PickerGoes([picker EXCEPT !.holders = Holders, !.left = @ \ {"holders"}])

\* Then the rows of each holder, all at once or (student 3) one after the other.
AsksRows == /\ picker.at = "reading" /\ picker.left = {}
            /\ PickerGoes([picker EXCEPT !.at = "rows", !.left = picker.holders])
ReadsRow(t) ==
  /\ picker.at = "rows" /\ t \in picker.left
  /\ t \in trips
  /\ PickerGoes([picker EXCEPT !.rows[t] = pinned[t], !.left = @ \ {t}])

\* A call fails, or its trip is gone.  A stay's dates are a bonus, and shown without;
\* the other two kinds give up, whatever they have written.
LookupFails ==
  /\ picker.at \in {"reading", "rows"} /\ picker.left /= {}
  /\ \/ picker.at = "rows" /\ picker.kind = "stay"
        /\ \E t \in picker.left : PickerGoes([picker EXCEPT !.left = @ \ {t}])
     \/ ~(picker.at = "rows" /\ picker.kind = "stay")
        /\ PickerGoes([picker EXCEPT !.at = "failed"])

ShowsList == /\ picker.at = "rows" /\ picker.left = {}
         /\ PickerGoes([picker EXCEPT !.at = "shown"])

\* Others pin, unpin, make and delete trips.
Others(pins, now) ==
  /\ picker.at \in {"reading", "rows"} /\ moves < MaxMoves /\ moves' = moves + 1
  /\ pinned' = pins /\ trips' = now /\ moments' = moments \cup {pins}
  /\ UNCHANGED <<picker, visits>>
OthersPin(t, d) == t \in trips /\ pinned[t] /= d /\ Others([pinned EXCEPT ![t] = d], trips)
TripGoes(t) == t \in trips /\ Others([pinned EXCEPT ![t] = None], trips \ {t})
TripComes(t) == t \notin trips /\ Others(pinned, trips \cup {t})

PickerNext ==
  \/ \E k \in ListingKinds : \/ Opens(k)
                      \/ \E t \in AllTrips, d \in Details \cup {None} : Writes(k, t, d) \/ WriteFails(k, t, d)
  \/ ReadsTrips \/ ReadsHolders \/ AsksRows \/ LookupFails \/ ShowsList
  \/ \E t \in AllTrips : \/ ReadsRow(t) \/ TripGoes(t) \/ TripComes(t)
                         \/ \E d \in Details \cup {None} : OthersPin(t, d)

PickerSpec == PickerInit /\ [][PickerNext]_PickerVars

-----------------------------------------------------------------------------
\* A tick: what the holders' answer says, but the rows themselves for a journey.
Ticked == {t \in picker.listed \cap picker.holders :
             picker.kind = "transport" => picker.rows[t] /= None}

\* "a tick can never disagree with what student 1 stored" (student 2's
\* routers/itinerary.py:5): a trip's tick, and the dates or travellers beside it, are
\* each what the trip held at some moment since the request began (since its write,
\* when it wrote); a trip without a tick held nothing at some such moment.
PickerShowsTruth ==
  picker.at = "shown" => \A t \in picker.listed :
    /\ t \in Ticked => /\ \E p \in moments : p[t] /= None
                       /\ picker.rows[t] /= None => \E p \in moments : p[t] = picker.rows[t]
    /\ t \notin Ticked => \E p \in moments : p[t] = None

\* Although each trip is asked by itself, the ticks are of one moment: some instant
\* had all of them at once.
TickedTogether ==
  picker.at = "shown" => \E p \in moments : \A t \in Ticked : p[t] /= None

\* The answer to a tick shows it, and to an untick does not, unless somebody else
\* changed that trip before it was read.
OwnWriteShows ==
  picker.at = "shown" => \A w \in picker.wrote :
    \/ \E p \in moments : p[w[1]] /= w[2]
    \/ w[1] \notin picker.listed
    \/ /\ w[1] \in Ticked <=> w[2] /= None
       /\ picker.rows[w[1]] \in {w[2], None}

\* What a tick-list shows was so, its ticks at one moment, and after what it answers.
PickerIsTrue == PickerShowsTruth /\ TickedTogether /\ OwnWriteShows
================================================================================
