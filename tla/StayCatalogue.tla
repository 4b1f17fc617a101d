----------------------------- MODULE StayCatalogue -----------------------------
(***************************************************************************)
(* Student 2's accommodation database behind its backend: rows in three       *)
(* tables (a stay, its place, its rooms), jobs that merge into the row as     *)
(* they read it, deletion, search in pages, and the seeding at a start.  A     *)
(* request reads outside of any transaction and writes in one.                *)
(***************************************************************************)
EXTENDS Naturals, FiniteSets, FiniteSetsExt

CONSTANTS StayIds,     \* numbers; the order of names too
          Clients,
          Bodies,      \* jobs that the backend's validators let pass
          NewStay,     \* the row that a create request makes
          CountryOf,   \* [cities -> countries], of the shared service
          Queries,     \* searches: [match: columns, least: columns, rooms: mentioned]
          Page,        \* the limit of a page
          MaxRequests

VARIABLES stays,       \* [StayIds -> a row, or Gone]
          jobs,       \* [Clients -> the request being served]
          search,      \* the search being served
          requests,    \* made so far
          deleted,        \* history: ids of deleted rows
          unsure       \* history: ids whose place was named by halves, or by two jobs at once

StayVars == <<stays, jobs, search, requests, deleted, unsure>>

\* A row has its columns and, when it has room details, theirs; 0 is null.
StayColumns == {"price"}
PlaceColumns == {"country", "city"}
RoomColumns == {"rooms", "beds"}
Gone == [c \in {} |-> 0]
Lives(id) == stays[id] /= Gone
HasRooms(row) == RoomColumns \subseteq DOMAIN row
Only(columns, row) == [c \in DOMAIN row \cap columns |-> row[c]]
Plus(row, columns) == [c \in DOMAIN row \cup DOMAIN columns |->
                         IF c \in DOMAIN columns THEN columns[c] ELSE row[c]]

\* Whole rows: all columns but those of the rooms, which come together.
Whole(row) == /\ StayColumns \cup PlaceColumns \subseteq DOMAIN row
              /\ RoomColumns \cap DOMAIN row /= {} => HasRooms(row)
AllColumns == StayColumns \cup PlaceColumns \cup RoomColumns
IsRow(row) == DOMAIN row \subseteq AllColumns /\ row \in [DOMAIN row -> Nat]

\* What the backend lets pass: a stay is created whole, a city comes with its country
\* (_city_needs_country) and is looked up there, and a minimum is a value, not a null.
ASSUME StaysAssumption ==
  /\ StayIds \in SUBSET Nat /\ IsFiniteSet(StayIds) /\ Page \in Nat
  /\ IsRow(NewStay) /\ Whole(NewStay) /\ CountryOf[NewStay.city] = NewStay.country
  /\ \A body \in Bodies :
       /\ IsRow(body)
       /\ "city" \in DOMAIN body => /\ "country" \in DOMAIN body
                                    /\ CountryOf[body.city] = body.country
  /\ \A q \in Queries : /\ DOMAIN q.match \cup DOMAIN q.least \subseteq AllColumns
                          /\ \A c \in DOMAIN q.least : q.least[c] \in Nat \ {0}

NoEdit == [at |-> "idle", id |-> 0, body |-> Gone, seen |-> Gone, left |-> {},
           alone |-> TRUE, answer |-> Gone]
NoSearch == [at |-> "idle", query |-> 0, total |-> 0, shown |-> {}, quiet |-> TRUE]

StayInit == /\ stays \in [StayIds -> {Gone, NewStay}] /\ jobs = [e \in Clients |-> NoEdit]
            /\ search = NoSearch /\ requests = 0 /\ deleted = {} /\ unsure = {}

\* Everybody else who is at work on a row sees that it was written.
Tell(id, writer, next) ==
  /\ jobs' = [e \in Clients |-> IF e = writer THEN next
                                 ELSE IF jobs[e].id = id THEN [jobs[e] EXCEPT !.alone = FALSE]
                                 ELSE jobs[e]]
  /\ search' = [search EXCEPT !.quiet = FALSE]
Turns(e, next) == /\ jobs' = [jobs EXCEPT ![e] = next]
                 /\ UNCHANGED <<stays, search, requests, deleted, unsure>>

-----------------------------------------------------------------------------
(* Create, edit, delete                                                    *)

May(e) == jobs[e].at \in {"idle", "done"} /\ requests < MaxRequests

Create(e, id) ==
  /\ May(e) /\ ~Lives(id) /\ id \notin deleted
  /\ \A f \in Clients : jobs[f].id /= id
  /\ stays' = [stays EXCEPT ![id] = NewStay]
  /\ Tell(id, e, NoEdit) /\ requests' = requests + 1 /\ UNCHANGED <<deleted, unsure>>

\* update_accommodation: get_or_404 ...
Change(e, id, body) ==
  /\ May(e) /\ Lives(id)
  /\ jobs' = [jobs EXCEPT ![e] = [NoEdit EXCEPT !.at = "load", !.id = id, !.body = body,
       !.seen = Only(StayColumns, stays[id]),
       !.left = {s \in {PlaceColumns, RoomColumns} : s \cap DOMAIN body /= {}}]]
  /\ requests' = requests + 1 /\ UNCHANGED <<stays, search, deleted, unsure>>
\* ... then, one query each, the tables that the body has something for.
Load(e, section) ==
  /\ jobs[e].at = "load" /\ section \in jobs[e].left
  /\ Turns(e, IF ~Lives(jobs[e].id) /\ section = PlaceColumns
             THEN NoEdit
             ELSE [jobs[e] EXCEPT !.left = @ \ {section},
                     !.seen = Plus(@, Only(section, stays[jobs[e].id]))])

\* Mutant: room details that exist are replaced, not merged into.
ColumnsWritten_NewRooms(body, seen) ==
  [c \in {d \in DOMAIN body : d \notin DOMAIN seen \/ body[d] /= seen[d]}
         \cup IF DOMAIN body \cap RoomColumns /= {} THEN RoomColumns ELSE {}
     |-> IF c \in DOMAIN body THEN body[c] ELSE 0]

\* Mutant: the city's id gets lost on the way to the database.
ColumnsWritten_NoCity(body, seen) ==
  [c \in {d \in DOMAIN body \ {"city"} : d \notin DOMAIN seen \/ body[d] /= seen[d]}
         \cup IF DOMAIN body \cap RoomColumns /= {} /\ ~HasRooms(seen) THEN RoomColumns ELSE {}
     |-> IF c \in DOMAIN body THEN body[c] ELSE 0]
\* Mutant: room details are made once and never edited.
ColumnsWritten_RoomsOnce(body, seen) ==
  [c \in {d \in DOMAIN body : d \notin DOMAIN seen \/ (d \notin RoomColumns /\ body[d] /= seen[d])}
         \cup IF DOMAIN body \cap RoomColumns /= {} /\ ~HasRooms(seen) THEN RoomColumns ELSE {}
     |-> IF c \in DOMAIN body THEN body[c] ELSE 0]

\* update_from, and what the unit of work makes of it: the columns that differ from
\* what was read; a row of room details when there was none.
ColumnsWritten(body, seen) ==
  [c \in {d \in DOMAIN body : d \notin DOMAIN seen \/ body[d] /= seen[d]}
         \cup IF DOMAIN body \cap RoomColumns /= {} /\ ~HasRooms(seen) THEN RoomColumns ELSE {}
     |-> IF c \in DOMAIN body THEN body[c] ELSE 0]

\* The row is deleted, or has got room details since (UNIQUE): nothing is written.
Refuses(e, written) ==
  /\ DOMAIN written /= {}
  /\ \/ ~Lives(jobs[e].id)
     \/ RoomColumns \cap DOMAIN written /= {} /\ ~HasRooms(jobs[e].seen) /\ HasRooms(stays[jobs[e].id])

Commit(e) ==
  /\ jobs[e].at = "load" /\ jobs[e].left = {}
  /\ LET id == jobs[e].id  body == jobs[e].body  written == ColumnsWritten(body, jobs[e].seen)  IN
     IF Refuses(e, written) THEN Turns(e, NoEdit)
     ELSE /\ stays' = IF DOMAIN written = {} THEN stays
                      ELSE [stays EXCEPT ![id] = Plus(@, written)]
          /\ unsure' = IF \/ "country" \in DOMAIN body /\ "city" \notin DOMAIN body
                          \/ DOMAIN body \cap PlaceColumns /= {} /\ ~jobs[e].alone
                       THEN unsure \cup {id} ELSE unsure
          /\ Tell(id, e, [jobs[e] EXCEPT !.at = "saved"])
          /\ UNCHANGED <<requests, deleted>>
\* The answer is read after the commit; the names of its place may not be had then.
ReadsBack(e) ==
  /\ jobs[e].at = "saved"
  /\ Turns(e, IF Lives(jobs[e].id) THEN [jobs[e] EXCEPT !.at = "done", !.answer = stays[jobs[e].id]]
             ELSE NoEdit)
Unnamed(e) == jobs[e].at = "saved" /\ Turns(e, NoEdit)

\* delete_accommodation: get_or_404, then the rows, whether or not they are there still.
StartsDelete(e, id) ==
  /\ May(e) /\ Lives(id)
  /\ jobs' = [jobs EXCEPT ![e] = [NoEdit EXCEPT !.at = "delete", !.id = id]]
  /\ requests' = requests + 1 /\ UNCHANGED <<stays, search, deleted, unsure>>
Deletes(e) ==
  /\ jobs[e].at = "delete"
  /\ stays' = [stays EXCEPT ![jobs[e].id] = Gone] /\ deleted' = deleted \cup {jobs[e].id}
  /\ Tell(jobs[e].id, e, NoEdit) /\ UNCHANGED <<requests, unsure>>

\* Mutant: a sample that is missing comes back at every start.
Restart_EachSample(id) ==
  /\ \E e \in Clients : jobs[e].at \in {"load", "saved", "delete"}
  /\ stays' = IF ~Lives(id) THEN [stays EXCEPT ![id] = NewStay] ELSE stays
  /\ jobs' = [e \in Clients |-> NoEdit] /\ search' = NoSearch
  /\ UNCHANGED <<requests, deleted, unsure>>

\* A stop anywhere; the samples come at the next start if there is no row at all.
Restart(id) ==
  /\ \E e \in Clients : jobs[e].at \in {"load", "saved", "delete"}
  /\ id \notin deleted
  /\ stays' = IF \A i \in StayIds : ~Lives(i) THEN [stays EXCEPT ![id] = NewStay] ELSE stays
  /\ jobs' = [e \in Clients |-> NoEdit] /\ search' = NoSearch
  /\ UNCHANGED <<requests, deleted, unsure>>

-----------------------------------------------------------------------------
(* Search                                                                  *)

\* Mutant: the rooms are joined whatever is asked.
Joined_Always(q, row) == HasRooms(row)

\* _join_for: rows without room details go when rooms are asked about.
Joined(q, row) ==
  (q.rooms \/ (DOMAIN q.match \cup DOMAIN q.least) \cap RoomColumns /= {}) => HasRooms(row)
\* _equalities and _bounds; a null column satisfies none of them.
Matches(q, row) ==
  /\ Joined(q, row)
  /\ \A c \in DOMAIN q.match : c \in DOMAIN row /\ row[c] = q.match[c]
  /\ \A c \in DOMAIN q.least : c \in DOMAIN row /\ row[c] /= 0 /\ row[c] >= q.least[c]
Found(q) == {id \in StayIds : Lives(id) /\ Matches(q, stays[id])}

\* _paginate: the count, and then the rows in a second query.
Count(q) ==
  /\ search.at = "idle" /\ requests < MaxRequests /\ requests' = requests + 1
  /\ search' = [NoSearch EXCEPT !.at = "rows", !.query = q, !.total = Cardinality(Found(q))]
  /\ UNCHANGED <<stays, jobs, deleted, unsure>>
Rows == /\ search.at = "rows"
        /\ search' = [search EXCEPT !.at = "done",
             !.shown = {id \in Found(search.query) :
                          Cardinality({i \in Found(search.query) : i < id}) < Page}]
        /\ UNCHANGED <<stays, jobs, requests, deleted, unsure>>

StayNext ==
  \/ \E e \in Clients :
       \/ \E id \in StayIds : \/ Create(e, id) \/ StartsDelete(e, id)
                              \/ \E b \in Bodies : Change(e, id, b)
       \/ \E s \in {PlaceColumns, RoomColumns} : Load(e, s)
       \/ Commit(e) \/ ReadsBack(e) \/ Unnamed(e) \/ Deletes(e)
  \/ \E id \in StayIds : Restart(id)
  \/ Rows \/ \E q \in Queries : Count(q)

-----------------------------------------------------------------------------
\* "one names exactly one place" (database schemas.py:134): the city of a stored row
\* lies in its country, unless an edit named a country alone, which overwrites the
\* country and keeps the city, or two edits of the place overlapped.
PlaceIsOne ==
  \A id \in StayIds : Lives(id) => CountryOf[stays[id].city] = stays[id].country \/ id \in unsure

\* What an edit answers has every value that it sent, unless somebody else wrote the
\* row while the edit was served: PUT merges and never drops a field on the way.
AnswerHasWhatWasSent ==
  \A e \in Clients : jobs[e].at = "done" /\ jobs[e].alone =>
    \A c \in DOMAIN jobs[e].body : jobs[e].answer[c] = jobs[e].body[c]

\* A search finds exactly the rows that satisfy it -- one without room details is
\* missing only from a search that asks about rooms -- and a page holds as many as
\* the total promises, unless somebody wrote meanwhile.
SearchIsExact ==
  search.at = "done" /\ search.quiet =>
    LET q == search.query
        fits == {id \in StayIds :
                   /\ Lives(id) /\ DOMAIN q.match \cup DOMAIN q.least \subseteq DOMAIN stays[id]
                   /\ \A c \in DOMAIN q.match : stays[id][c] = q.match[c]
                   /\ \A c \in DOMAIN q.least : stays[id][c] >= q.least[c]}
        rest == {id \in fits : q.rooms => HasRooms(stays[id])}
    IN  /\ search.total = Cardinality(rest) /\ search.shown \subseteq rest
        /\ Cardinality(search.shown) = IF search.total < Page THEN search.total ELSE Page

\* What is stored, what an edit answers and what a search finds, under overlapping edits.
StaysAreTrue == PlaceIsOne /\ AnswerHasWhatWasSent /\ SearchIsExact

\* A column of a stored row changes only by an edit that sent it, to what it sent
\* or, when the edit is the first to tell of rooms, from nothing to null; and a deleted
\* stay is not made again, by an edit that had read it before or by a start.
OnlySentColumnsChange ==
  [][/\ \A id \in deleted : ~Lives(id)'
     /\ \A id \in StayIds : Lives(id) /\ Lives(id)' =>
          \A c \in DOMAIN stays'[id] :
            \/ c \in DOMAIN stays[id] /\ stays'[id][c] = stays[id][c]
            \/ c \notin DOMAIN stays[id] /\ stays'[id][c] = 0
            \/ \E e \in Clients : /\ jobs[e].id = id /\ c \in DOMAIN jobs[e].body
                                  /\ stays'[id][c] = jobs[e].body[c]]_stays
================================================================================
