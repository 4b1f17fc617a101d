------------------------------- MODULE TripPages -------------------------------
(***************************************************************************)
(* The routes of the trip frontend (student 1).  A trip's own page shows   *)
(* its items and stays, so writing one of those changes what that page     *)
(* shows.  A browser with HTMX is answered in place; one without is sent   *)
(* to a page.                                                              *)
(***************************************************************************)
EXTENDS PageRoutes

Things == {"trip", "item", "stay"}

\* The screen around every form and error: the trip list, empty if unreadable.
dashboard == Shows(<<NeedsAll("trip"), NeedsFirst("trip")>>)
new_trip_form == Shows(<<ReadsAll("trip")>>)
view_trip == Shows(<<ReadsAll("trip"), Needs("trip")>>)
view_trip_day == Shows(<<ReadsAll("trip"), Needs("trip")>>)
edit_trip_form == Shows(<<ReadsAll("trip"), Needs("trip")>>)
delete_trip_confirmation == Shows(<<ReadsAll("trip"), Needs("trip")>>)
new_item_form == Shows(<<ReadsAll("trip"), Needs("trip")>>)
review_ai_item_form == Shows(<<ReadsAll("trip"), Needs("trip")>>)
edit_item_form == Shows(<<ReadsAll("trip"), Needs("item"), Needs("trip")>>)
delete_item_confirmation == Shows(<<ReadsAll("trip"), Needs("item")>>)
remove_accommodation_confirmation == Shows(<<ReadsAll("trip"), Needs("trip")>>)

\* The two probes: the backend read, and nothing lost when it cannot be.
health == Shows(<<Reads("backend")>>)
ready == Shows(<<Reads("backend")>>)

create_trip ==
    [Submits("create", "trip") EXCEPT
        !.typed = TRUE, !.onError = <<ReadsAll("trip")>>, !.back = "form",
        !.onDone = <<ReadsAll("trip")>>, !.inline = "htmx", !.lands = "view_trip"]

update_trip ==
    [Submits("change", "trip") EXCEPT
        !.typed = TRUE, !.onError = <<ReadsAll("trip")>>, !.back = "form",
        !.onDone = <<ReadsAll("trip")>>, !.inline = "htmx", !.lands = "view_trip"]

\* On to the first trip that is left, or to the empty home page.
delete_trip ==
    [Submits("delete", "trip") EXCEPT
        !.onError = <<ReadsAll("trip")>>, !.back = "confirm",
        !.onDone = <<ReadsAll("trip"), NeedsFirst("trip")>>,
        !.inline = "htmx", !.lands = "dashboard"]

\* A mutated form that is drawn from an empty item after an error.
create_item_Blank ==
    [Submits("create", "item") EXCEPT
        !.moves = {"item", "trip"}, !.typed = TRUE,
        !.onError = <<ReadsAll("trip"), Needs("trip")>>, !.back = "page",
        !.onDone = <<ReadsAll("trip"), Needs("trip")>>,
        !.inline = "htmx", !.lands = "view_trip_day"]

\* The item form needs its trip, so an error may lose what was typed.
create_item ==
    [Submits("create", "item") EXCEPT
        !.moves = {"item", "trip"}, !.typed = TRUE,
        !.onError = <<ReadsAll("trip"), Needs("trip")>>, !.back = "form",
        !.onDone = <<ReadsAll("trip"), Needs("trip")>>,
        !.inline = "htmx", !.lands = "view_trip_day"]

update_item ==
    [Submits("change", "item") EXCEPT
        !.moves = {"item", "trip"}, !.typed = TRUE,
        !.onError = <<ReadsAll("trip"), Needs("trip")>>, !.back = "form",
        !.onDone = <<ReadsAll("trip"), Needs("trip")>>,
        !.inline = "htmx", !.lands = "view_trip_day"]

delete_item ==
    [Submits("delete", "item") EXCEPT
        !.moves = {"item", "trip"}, !.back = "confirm",
        !.onError = <<ReadsAll("trip"), Reads("trip")>>,
        !.onDone = <<ReadsAll("trip"), Needs("trip")>>,
        !.inline = "htmx", !.lands = "view_trip_day"]

remove_accommodation ==
    [Submits("delete", "stay") EXCEPT
        !.moves = {"stay", "trip"}, !.onError = <<ReadsAll("trip")>>,
        !.inline = "never", !.lands = "view_trip"]

\* The answer or the error is shown in the trip's page, reloaded either way.
generate_ai_suggestions ==
    [Asks EXCEPT !.reads = <<ReadsAll("trip")>>,
                 !.onError = <<Needs("trip")>>, !.onDone = <<Needs("trip")>>]

\* HTMX swaps the panel alone.
rag_query == [Asks EXCEPT !.plain = <<ReadsAll("trip"), Needs("trip")>>]
mcp_options == [Asks EXCEPT !.plain = <<ReadsAll("trip"), Needs("trip")>>]

Routes ==
    [health |-> health, ready |-> ready, dashboard |-> dashboard, new_trip_form |-> new_trip_form, view_trip |-> view_trip,
     view_trip_day |-> view_trip_day, edit_trip_form |-> edit_trip_form,
     delete_trip_confirmation |-> delete_trip_confirmation,
     new_item_form |-> new_item_form, review_ai_item_form |-> review_ai_item_form,
     edit_item_form |-> edit_item_form, delete_item_confirmation |-> delete_item_confirmation,
     remove_accommodation_confirmation |-> remove_accommodation_confirmation,
     create_trip |-> create_trip, update_trip |-> update_trip, delete_trip |-> delete_trip,
     create_item |-> create_item, update_item |-> update_item, delete_item |-> delete_item,
     remove_accommodation |-> remove_accommodation,
     generate_ai_suggestions |-> generate_ai_suggestions,
     rag_query |-> rag_query, mcp_options |-> mcp_options]
================================================================================
