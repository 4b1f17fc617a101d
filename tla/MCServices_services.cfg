SPECIFICATION Spec
CONSTANTS
 Creators = {a, b}
 Places = {1, 2, 3}
 SeedCountries = {2, 3}
 MaxRows = 9
 Seekers = {s, t}
 PageSize = 2
 AskedKeys <- MCAskedKeys
 SoughtPlaces <- MCSoughtPlaces
 SiteRoutes <- MCRoutes
 Contents <- MCContents
 Within <- MCWithin
 MaxChanges = 2
 Entries = {"i1", "i2", "s1", "a1", "a2", "t1", "t2", "t3"}
 Trips <- MCTrips
 EntryOf <- MCEntryOf
 Hours = 4
 RequestedDay = 2
 FirstDay = 1
 LastDay = 3
 MaxContext <- MCMaxContext
 PromptLimit = 13
 Goals = {0, 4}
 MaxAsks = 2
 Drafts <- MCDrafts
 MaxTripChanges = 1
 AllTrips = {1, 2}
 Details = {1, 2}
 MaxVisits = 2
 MaxMoves = 2
 StayIds = {1, 2}
 Clients = {c1, c2}
 Bodies <- MCStayBodies
 NewStay <- MCNewStay
 CountryOf <- MCCountryOf
 Queries <- MCStayQueries
 Page = 1
 MaxRequests = 3
INVARIANTS PlacesAreTrue  NotOfferedTwice SuggestionsAreSound PickerIsTrue
 StaysAreTrue
PROPERTIES QuietPagesHaveReason OnlySentColumnsChange
CHECK_DEADLOCK FALSE
CONSTRAINT PlaceLimit
