------------------------------ MODULE PlaceNames -------------------------------
(***************************************************************************)
(* The name-to-id client of the accommodation backend over the shared      *)
(* reference service: both place lists held in memory, fetched page by     *)
(* page, and fetched again on a miss.  Several requests of one backend     *)
(* share the cache and may be loading it at once, each into lists of its   *)
(* own; every page is an await.  A page's answer is two statements of the  *)
(* database (repository._paginate): the count, then the window of rows.    *)
(***************************************************************************)
EXTENDS SharedReference, SequencesExt

CONSTANTS Seekers, PageSize,
          SoughtPlaces  \* bound: the places that requests name

VARIABLES known,     \* the cache: whether it was ever loaded, and the places in it
          seeks      \* each request's search for one place

PlaceVars == <<reference, creates, known, seeks>>

ASSUME PlaceAssumption ==
    /\ PageSize \in Nat \ {0}
    /\ SoughtPlaces \subseteq {k \in RefKey : k.kind \in {"country", "city"}}

\* ORDER BY name, id: the rows of one kind in the order a page windows them, each
\* in the place that the number of rows before it gives.
Precedes(a, b) == a.name < b.name \/ (a.name = b.name /\ a.country < b.country)
InOrder(kind) ==
    LET rows == {k \in KeysOf(reference) : k.kind = kind}
        Before(k) == {j \in rows : Precedes(j, k)}
    IN  [i \in 1..Cardinality(rows) |-> CHOOSE k \in rows : Cardinality(Before(k)) = i - 1]

\* A mutated load that asks for every page of a list from the same offset as
\* the one before it, and stops at the count.
Window_NoOffset(kind, offset) ==
    LET rows == InOrder(kind)
    IN  SubSeq(rows, 1, IF PageSize < Len(rows) THEN PageSize ELSE Len(rows))

\* LIMIT PageSize OFFSET n.
Window(kind, offset) ==
    LET rows == InOrder(kind)
    IN  SubSeq(rows, offset + 1, IF offset + PageSize < Len(rows) THEN offset + PageSize
                                                                  ELSE Len(rows))

--------------------------------------------------------------------------------
(* One request *)

SeekSteps == {"idle", "count", "rows", "done"}

Waiting == [at |-> "idle", place |-> NoKey, kind |-> "country", got |-> <<>>, total |-> 0,
            countries |-> <<>>, loads |-> 0, answer |-> "none", began |-> {}, torn |-> FALSE]

\* _load: the countries first, each list from offset 0.
Loading(seek) == [seek EXCEPT !.at = "count", !.kind = "country", !.got = <<>>,
                              !.countries = <<>>, !.loads = @ - 1]

\* _lookup: the country by name, then the city within it.
Knows(places, place) == {CountryKey(place.country), place} \subseteq places

\* ids: a miss is an answer only when no load is left to this request.
Settled(seek, places) ==
    IF Knows(places, seek.place) THEN [seek EXCEPT !.at = "done", !.answer = "found"]
    ELSE IF seek.loads > 0 THEN Loading(seek)
    ELSE [seek EXCEPT !.at = "done", !.answer = "no such place"]

\* A cold cache may be loaded twice by one request, a warm one once.
LoadsAllowed(cache) == IF cache.loaded THEN 1 ELSE 2

AskPlace(s, place) ==
    /\ seeks[s].at \in {"idle", "done"}
    /\ seeks' = [seeks EXCEPT ![s] =
         Settled([Waiting EXCEPT !.place = place, !.began = KeysOf(reference),
                                 !.loads = LoadsAllowed(known)], known.places)]
    /\ UNCHANGED <<reference, creates, known>>

\* The count a page's answer carries, read before its rows.
CountsRows(s) ==
    /\ seeks[s].at = "count"
    /\ seeks' = [seeks EXCEPT ![s].at = "rows",
                              ![s].total = Len(InOrder(seeks[s].kind))]
    /\ UNCHANGED <<reference, creates, known>>

\* _all: one more page, until as many rows as the last count came or a page is empty.
TakesPage(s) ==
    LET seek == seeks[s]
        page == Window(seek.kind, Len(seek.got))
        got == seek.got \o page
        complete == Len(got) >= seek.total \/ page = <<>>
        torn == seek.torn \/ seek.total # Len(InOrder(seek.kind))
    IN  /\ seek.at = "rows"
        /\ IF ~complete THEN
              /\ seeks' = [seeks EXCEPT ![s].at = "count", ![s].got = got, ![s].torn = torn]
              /\ UNCHANGED known
           ELSE IF seek.kind = "country" THEN
              /\ seeks' = [seeks EXCEPT ![s].at = "count", ![s].kind = "city",
                             ![s].countries = got, ![s].got = <<>>, ![s].torn = torn]
              /\ UNCHANGED known
           ELSE
              /\ known' = [loaded |-> TRUE, places |-> ToSet(seek.countries) \cup ToSet(got)]
              /\ seeks' = [seeks EXCEPT ![s] =
                    [Settled([seek EXCEPT !.torn = torn], known'.places)
                       EXCEPT !.got = <<>>, !.countries = <<>>]]
        /\ UNCHANGED <<reference, creates>>

PlaceInit == /\ RefInit
             /\ known = [loaded |-> FALSE, places |-> {}]
             /\ seeks = [s \in Seekers |-> Waiting]

PlaceNext ==
    \/ RefNext /\ UNCHANGED <<known, seeks>>
    \/ \E s \in Seekers :
         \/ \E place \in SoughtPlaces : AskPlace(s, place)
         \/ CountsRows(s)
         \/ TakesPage(s)

--------------------------------------------------------------------------------
(* Properties *)

\* "no such place" is told only of a place that was missing when its request
\* began, whatever was inserted meanwhile and whoever replaced the cache --
\* unless an insert fell between the two statements of one page's answer, when
\* the count is one short and the loop stops a row early.
MissingPlaceWasMissing ==
    \A s \in Seekers :
      seeks[s].at = "done" /\ seeks[s].answer = "no such place" /\ ~seeks[s].torn
        => ~({CountryKey(seeks[s].place.country), seeks[s].place} \subseteq seeks[s].began)

\* Creations and lookups answer with what is so, and no race breaks the rows themselves.
PlacesAreTrue ==
  RefTypeOK /\ RowsAreWhole /\ OneCurrencyEach /\ AnswersAreTrue /\ MissingPlaceWasMissing
================================================================================
