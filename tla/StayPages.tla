------------------------------- MODULE StayPages -------------------------------
(***************************************************************************)
(* The routes of the accommodation frontend (student 2): one page whose    *)
(* list, modals and panels HTMX fills in.  A save answers with an empty    *)
(* modal and a header that makes the filter form fetch the list again.     *)
(***************************************************************************)
EXTENDS PageRoutes

Things == {"place", "stay"}

\* What a deployment has switched on: read for the page, and guessed if it fails.
index == Shows(<<Reads("features"), ReadsAll("place"), Reads("place")>>)
results == Shows(<<NeedsAll("place")>>)
detail == Shows(<<Needs("place")>>)
new_accommodation == Shows(<<>>)
edit_accommodation == Shows(<<Needs("place")>>)

\* _form again with what was typed, or _saved.
create_accommodation ==
    [Submits("create", "place") EXCEPT !.typed = TRUE, !.back = "form",
                                       !.inline = "never", !.lands = "results"]
update_accommodation ==
    [Submits("change", "place") EXCEPT !.typed = TRUE, !.back = "form",
                                       !.inline = "never", !.lands = "results"]
delete_accommodation ==
    [Submits("delete", "place") EXCEPT !.inline = "never", !.lands = "results"]

\* The form of a stay is drawn around the listing and the trips, both read again
\* whenever it is drawn.
stay == Shows(<<Needs("place"), NeedsAll("trips")>>)
add_to_itinerary ==
    [Submits("put", "stay") EXCEPT !.typed = TRUE, !.back = "form",
                                   !.onError = <<Needs("place"), NeedsAll("trips")>>]

\* A question that becomes a search answers with the rows; a question to the guide
\* or the assistant answers under the box.  An error stands in for the rows.
ai_search == [Asks EXCEPT !.typed = FALSE, !.back = "error"]
ask == [Asks EXCEPT !.typed = FALSE, !.back = "error"]

agents_form == Shows(<<ReadsAll("trips"), Reads("features")>>)
health == Shows(<<Reads("backend")>>)

Routes ==
    [health |-> health, index |-> index, results |-> results, detail |-> detail,
     new_accommodation |-> new_accommodation, edit_accommodation |-> edit_accommodation,
     create_accommodation |-> create_accommodation,
     update_accommodation |-> update_accommodation,
     delete_accommodation |-> delete_accommodation, stay |-> stay,
     add_to_itinerary |-> add_to_itinerary, ai_search |-> ai_search, ask |-> ask,
     agents_form |-> agents_form]
================================================================================
