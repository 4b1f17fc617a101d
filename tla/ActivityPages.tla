----------------------------- MODULE ActivityPages -----------------------------
(***************************************************************************)
(* The routes of the activity frontend (student 4), the planner's apart.   *)
(* Two reads of one page are asked for at once (asyncio.gather); their     *)
(* order is not fixed, and one failing does not stop the other.            *)
(***************************************************************************)
EXTENDS PageRoutes

Things == {"activity", "slot"}

\* catalogue_context: each part of the page stands or falls alone.
index == Shows(<<ReadsAll("categories"), ReadsAll("activity"), ReadsAll("trips")>>)
results == Shows(<<ReadsAll("categories"), ReadsAll("activity")>>)
manage == Shows(<<ReadsAll("activity"), ReadsAll("categories")>>)
detail == Shows(<<ReadsAll("categories"), Needs("activity")>>)
\* The picker is drawn with an error in it when either read fails.
itinerary_picker == Shows(<<Needs("activity"), NeedsAll("slot")>>)
itinerary_dialog == Shows(<<Needs("activity"), NeedsAll("slot")>>)

\* The form, empty or filled in, with the categories or a note that they are missing.
new_activity == Shows(<<ReadsAll("categories")>>)
edit_activity == Shows(<<Needs("activity"), ReadsAll("categories")>>)
delete_confirmation == Shows(<<Needs("activity")>>)

\* _form_response: what was typed is drawn again, whether it failed here or there.
\* HTMX answers with a refresh of the page it is on.
saves(write) ==
    [Submits(write, "activity") EXCEPT
        !.typed = TRUE, !.onError = <<ReadsAll("categories")>>, !.back = "form",
        !.inline = "never", !.lands = "index"]
create_activity == saves("create")
replace_activity == saves("change")

delete_activity ==
    [Submits("delete", "activity") EXCEPT !.inline = "never", !.lands = "index"]

\* Whether the activity is active is read first, and for one that is not, whether
\* the trip already holds it; the answer to the write is the picker itself, with the
\* date and the time typed in it, or a banner in its place.
put_itinerary ==
    [Submits("put", "slot") EXCEPT
        !.reads = <<Needs("activity"), ReadsAll("slot")>>, !.typed = TRUE]
remove_itinerary ==
    [Submits("delete", "slot") EXCEPT !.reads = <<Needs("activity")>>]

\* The suggestion box: the assistant's or the guide's answer, or its error.
suggestion_ask == [Asks EXCEPT !.typed = FALSE, !.back = "error"]
health == Shows(<<Reads("backend")>>)
ready == Shows(<<Reads("backend")>>)

Routes ==
    [health |-> health, ready |-> ready, index |-> index, results |-> results, manage |-> manage, detail |-> detail,
     itinerary_picker |-> itinerary_picker, itinerary_dialog |-> itinerary_dialog,
     new_activity |-> new_activity, edit_activity |-> edit_activity,
     delete_confirmation |-> delete_confirmation, create_activity |-> create_activity,
     replace_activity |-> replace_activity, delete_activity |-> delete_activity,
     put_itinerary |-> put_itinerary, remove_itinerary |-> remove_itinerary,
     suggestion_ask |-> suggestion_ask]
================================================================================
