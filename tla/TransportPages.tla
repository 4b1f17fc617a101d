---------------------------- MODULE TransportPages -----------------------------
(***************************************************************************)
(* The routes of the transport frontend (student 3): HTMX and plain        *)
(* requests take the same path.  An option's page shows the trips that     *)
(* hold it (`seat`) and how many seats that leaves, so ticking a trip      *)
(* changes what the option shows.                                          *)
(***************************************************************************)
EXTENDS PageRoutes

Things == {"option", "seat"}

browse == Shows(<<NeedsAll("option")>>)
compare == Shows(<<ReadsAll("option"), Reads("option")>>)
new_option_form == Shows(<<ReadsAll("option")>>)
\* Losing the list of trips is not a reason to lose the page.
view_option == Shows(<<ReadsAll("option"), Needs("option"), ReadsAll("seat")>>)
edit_option_form == Shows(<<ReadsAll("option"), Needs("option")>>)
delete_option_confirmation == Shows(<<ReadsAll("option"), Needs("option"), ReadsAll("seat")>>)
trip_transport == Shows(<<ReadsAll("option"), NeedsAll("seat")>>)

create_option ==
    [Submits("create", "option") EXCEPT
        !.typed = TRUE, !.onError = <<ReadsAll("option")>>, !.back = "form",
        !.inline = "never", !.lands = "view_option"]

update_option ==
    [Submits("change", "option") EXCEPT
        !.typed = TRUE, !.onError = <<ReadsAll("option")>>, !.back = "form",
        !.inline = "never", !.lands = "view_option"]

delete_option ==
    [Submits("delete", "option") EXCEPT
        !.onError = <<ReadsAll("option")>>, !.back = "confirm",
        !.inline = "never", !.lands = "browse"]

\* A mutated handler that draws the option it read before the change.
selection_change_Stale(write) ==
    [Submits(write, "seat") EXCEPT
        !.reads = <<ReadsAll("option"), Needs("option")>>, !.moves = {"seat", "option"},
        !.onError = <<ReadsAll("seat")>>, !.back = "page"]

\* The change is answered in place: the option is read before it, to have a page
\* to answer with, and again after it, for the seats that it leaves.  The answer
\* to the write lists the trips.
selection_change(write) ==
    [Submits(write, "seat") EXCEPT
        !.reads = <<ReadsAll("option"), Needs("option")>>, !.moves = {"seat", "option"},
        !.onError = <<ReadsAll("seat")>>, !.back = "page", !.onDone = <<Reads("option")>>]

add_to_itinerary == selection_change("put")
remove_from_itinerary == selection_change("delete")

ai_form == Shows(<<ReadsAll("option"), ReadsAll("trips")>>)
ai_suggest == [Asks EXCEPT !.reads = <<ReadsAll("option"), ReadsAll("trips")>>]
rag_guide == Shows(<<ReadsAll("option")>>)
rag_ask == [Asks EXCEPT !.onError = <<ReadsAll("option")>>, !.onDone = <<ReadsAll("option")>>]
mcp_tools == Shows(<<ReadsAll("option"), ReadsAll("trips")>>)
mcp_run == [Asks EXCEPT !.onError = <<ReadsAll("option"), ReadsAll("trips")>>,
                        !.onDone = <<ReadsAll("option"), ReadsAll("trips")>>]
agents_form == Shows(<<ReadsAll("option"), ReadsAll("trips")>>)
health == Shows(<<Reads("backend")>>)
ready == Shows(<<Reads("backend")>>)

Routes ==
    [health |-> health, ready |-> ready, browse |-> browse, compare |-> compare, new_option_form |-> new_option_form,
     view_option |-> view_option, edit_option_form |-> edit_option_form,
     delete_option_confirmation |-> delete_option_confirmation,
     trip_transport |-> trip_transport, create_option |-> create_option,
     update_option |-> update_option, delete_option |-> delete_option,
     add_to_itinerary |-> add_to_itinerary, remove_from_itinerary |-> remove_from_itinerary,
     ai_form |-> ai_form, ai_suggest |-> ai_suggest, rag_guide |-> rag_guide,
     rag_ask |-> rag_ask, mcp_tools |-> mcp_tools, mcp_run |-> mcp_run,
     agents_form |-> agents_form]
================================================================================
