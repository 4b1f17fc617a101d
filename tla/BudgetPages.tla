------------------------------ MODULE BudgetPages ------------------------------
(***************************************************************************)
(* The routes of the budget frontend (student 5).  A budget's page shows   *)
(* its summary, which every expense changes.  The two deletions are not    *)
(* guarded: a refusal leaves as a bare 500.  edit_budget is a handler that *)
(* no route reaches (its decorator is missing), so the form that           *)
(* update_budget is submitted from is only ever drawn by update_budget     *)
(* itself.                                                                 *)
(***************************************************************************)
EXTENDS PageRoutes

Things == {"budget", "expense"}

\* trip_context: the trips' names, or an error in their place.
list_reads == <<NeedsAll("budget"), ReadsAll("trips")>>
\* render_detail: the budget and its expenses, then the summary if it can be had.
detail_reads == <<NeedsAll("budget"), Needs("budget"), NeedsAll("expense"),
                  Reads("budget"), ReadsAll("trips")>>

browse == Shows(list_reads)
new_budget == Shows(list_reads)
budget_detail == Shows(detail_reads)
confirm_budget_delete == Shows(<<NeedsAll("budget"), Needs("budget")>>)
new_expense == Shows(<<NeedsAll("budget"), Needs("budget")>>)
edit_expense == Shows(<<NeedsAll("budget"), Needs("budget"), Needs("expense")>>)
confirm_expense_delete == Shows(<<NeedsAll("budget"), Needs("expense")>>)

create_budget ==
    [Submits("create", "budget") EXCEPT
        !.typed = TRUE, !.onError = <<ReadsAll("budget")>>, !.back = "form",
        !.inline = "never", !.lands = "budget_detail"]

update_budget ==
    [Submits("change", "budget") EXCEPT
        !.typed = TRUE, !.onError = <<ReadsAll("budget")>>, !.back = "form",
        !.inline = "never", !.lands = "budget_detail"]

\* The form survives even when neither the budgets nor the budget can be read.
create_expense ==
    [Submits("create", "expense") EXCEPT
        !.moves = {"expense", "budget"}, !.typed = TRUE,
        !.onError = <<ReadsAll("budget"), Reads("budget")>>, !.back = "form",
        !.inline = "never", !.lands = "budget_detail"]

update_expense ==
    [Submits("change", "expense") EXCEPT
        !.moves = {"expense", "budget"}, !.typed = TRUE,
        !.onError = <<ReadsAll("budget"), Reads("budget")>>, !.back = "form",
        !.inline = "never", !.lands = "budget_detail"]

delete_budget ==
    [Submits("delete", "budget") EXCEPT !.back = "crash", !.inline = "never",
                                        !.lands = "browse"]

delete_expense ==
    [Submits("delete", "expense") EXCEPT
        !.moves = {"expense", "budget"}, !.back = "crash",
        !.inline = "never", !.lands = "budget_detail"]

\* HTMX swaps the panel alone; the analysis is never more than its panel.
rag_query == [Asks EXCEPT !.plain = list_reads]
budget_mcp_action == [Asks EXCEPT !.typed = FALSE, !.back = "page", !.plain = detail_reads]
budget_analysis == Asks

Routes ==
    [browse |-> browse, new_budget |-> new_budget, budget_detail |-> budget_detail,
     confirm_budget_delete |-> confirm_budget_delete, new_expense |-> new_expense,
     edit_expense |-> edit_expense, confirm_expense_delete |-> confirm_expense_delete,
     create_budget |-> create_budget, update_budget |-> update_budget,
     create_expense |-> create_expense, update_expense |-> update_expense,
     delete_budget |-> delete_budget, delete_expense |-> delete_expense,
     rag_query |-> rag_query, budget_mcp_action |-> budget_mcp_action,
     budget_analysis |-> budget_analysis]
================================================================================
