------------------------------ MODULE MCServices -------------------------------
(***************************************************************************)
(* The parts of the system that share no state with one another, side by   *)
(* side: a behaviour is about one of them, and the others stand still.     *)
(***************************************************************************)
EXTENDS PlaceNames, WebPages, AgentPages, TripSuggestions, TripPicker,
        StayCatalogue, TLC

VARIABLE part  \* what this behaviour is about

TripSite == INSTANCE TripPages
TransportSite == INSTANCE TransportPages
StaySite == INSTANCE StayPages
BudgetSite == INSTANCE BudgetPages
ActivitySite == INSTANCE ActivityPages

MCRoutes == [trips |-> TripSite!Routes, transport |-> TransportSite!Routes,
             stays |-> StaySite!Routes, budgets |-> BudgetSite!Routes,
             activities |-> ActivitySite!Routes]
MCContents == [trips |-> TripSite!Things, transport |-> TransportSite!Things,
               stays |-> StaySite!Things, budgets |-> BudgetSite!Things,
               activities |-> ActivitySite!Things]
MCWithin == {<<"item", "trip">>, <<"stay", "trip">>}

MCAskedKeys == {CountryKey(1), CityKey(1, 1), CityKey(2, 1)}
               \cup {[kind |-> "currency", country |-> c, name |-> n] :
                       c \in {1, 2}, n \in {1, 2}}
MCSoughtPlaces == {CountryKey(1), CityKey(3, 3)}

\* A trip over the three days 1 to 3, of which suggestions are asked for day 2.
MCEntryOf ==
  [i1 |-> [kind |-> "items", day |-> 2, from |-> 1, to |-> 2, name |-> "walk", order |-> 1],
   i2 |-> [kind |-> "items", day |-> 2, from |-> NoTime, to |-> NoTime, name |-> "lunch", order |-> 2],
   s1 |-> [kind |-> "stays", day |-> 1, until |-> 3, order |-> 1],
   a1 |-> [kind |-> "activities", day |-> 1, from |-> 3, lasts |-> 2, order |-> 1],
   a2 |-> [kind |-> "activities", day |-> 2, from |-> 2, lasts |-> 1, order |-> 2],
   t1 |-> [kind |-> "transport", departs |-> 5, arrives |-> 9, status |-> "pending", order |-> 1],
   t2 |-> [kind |-> "transport", departs |-> 11, arrives |-> 9, status |-> "confirmed", order |-> 2],
   t3 |-> [kind |-> "transport", departs |-> 8, arrives |-> 12, status |-> "cancelled", order |-> 3]]
MCTrips == {{"i2", "s1", "a2", "t3"} \cup t : t \in SUBSET {"i1", "a1", "t1", "t2"}}
MCDraft(day, from, to, name) == [day |-> day, from |-> from, to |-> to, name |-> name]
MCDrafts == {MCDraft(2, 0, 1, "walk"), MCDraft(2, 1, 3, "walk"), MCDraft(2, NoTime, NoTime, "lunch"),
             MCDraft(1, 0, 1, "walk"), MCDraft(2, 2, 3, "swim")}
MCMaxContext == [items |-> 2, stays |-> 1, activities |-> 2, transport |-> 1]

MCNewStay == [price |-> 1, country |-> 1, city |-> 11]
MCStayBodies == {[price |-> 2], [country |-> 2, city |-> 21], [country |-> 2], "beds" :> 2,
                 [rooms |-> 1, price |-> 1], [city |-> 12, country |-> 1]}
MCStayQueries == {[match |-> "city" :> 11, least |-> Gone, rooms |-> FALSE],
                  [match |-> Gone, least |-> "beds" :> 1, rooms |-> FALSE],
                  [match |-> Gone, least |-> Gone, rooms |-> TRUE],
                  [match |-> Gone, least |-> Gone, rooms |-> FALSE]}
MCCountryOf == 11 :> 1 @@ 12 :> 1 @@ 21 :> 2

PlaceLimit == part = "places" =>
    /\ Cardinality({c \in Creators : creates[c] # NoCreate}) <= 1
    /\ \A c \in Creators : creates[c].key \in {NoKey, CountryKey(1)}

\* A part that stands still is in one state.
AgentSleeps == run = [status |-> "none", byOthers |-> FALSE] /\ panel = Form("stays")
PageSleeps == rows = <<>> /\ visit = [Visit("trips", "dashboard", FALSE) EXCEPT !.at = "shown"]
SuggestionSleeps == trip = {} /\ request = NoRequest /\ kept = {} /\ changes = 0
PickerSleeps == /\ trips = {} /\ pinned = [t \in AllTrips |-> None] /\ picker = NoPicker
                /\ visits = 0 /\ moves = 0 /\ moments = {}
StaysSleep == /\ stays = [id \in StayIds |-> Gone] /\ jobs = [e \in Clients |-> NoEdit]
              /\ search = NoSearch /\ requests = 0 /\ deleted = {} /\ unsure = {}
Init == /\ PlaceInit
        /\ part \in {"places", "reference", "pages", "agents", "suggestions", "picker", "stays"}
        /\ IF part = "pages" THEN PageInit ELSE PageSleeps
        /\ IF part = "agents" THEN AgentInit ELSE AgentSleeps
        /\ IF part = "suggestions" THEN SuggestionInit ELSE SuggestionSleeps
        /\ IF part = "picker" THEN PickerInit ELSE PickerSleeps
        /\ IF part = "stays" THEN StayInit ELSE StaysSleep
Next == UNCHANGED part /\
    \/ part = "reference" /\ RefNext
         /\ UNCHANGED <<known, seeks, PageVars, AgentVars, SuggestionVars, PickerVars, StayVars>>
    \/ part = "places" /\ PlaceNext /\ UNCHANGED <<PageVars, AgentVars, SuggestionVars, PickerVars, StayVars>>
    \/ part = "pages" /\ PageNext /\ UNCHANGED <<PlaceVars, AgentVars, SuggestionVars, PickerVars, StayVars>>
    \/ part = "agents" /\ AgentNext /\ UNCHANGED <<PlaceVars, PageVars, SuggestionVars, PickerVars, StayVars>>
    \/ part = "suggestions" /\ SuggestionNext /\ UNCHANGED <<PlaceVars, PageVars, AgentVars, PickerVars, StayVars>>
    \/ part = "picker" /\ PickerNext /\ UNCHANGED <<PlaceVars, PageVars, AgentVars, SuggestionVars, StayVars>>
    \/ part = "stays" /\ StayNext /\ UNCHANGED <<PlaceVars, PageVars, AgentVars, SuggestionVars, PickerVars>>
vars == <<part, PlaceVars, PageVars, AgentVars, SuggestionVars, PickerVars, StayVars>>
Spec == Init /\ [][Next]_vars
================================================================================
