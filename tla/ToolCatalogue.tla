----------------------------- MODULE ToolCatalogue -----------------------------
(***************************************************************************)
(* The MCP server between AI-Mode and the students' services.  A read may be   *)
(* repeated, and its failure says so.  A write goes out once: refused, done,    *)
(* or, when the acknowledgement is missing or not as it should be, unknown.     *)
(***************************************************************************)
EXTENDS Naturals, Sequences, FiniteSets

CONSTANTS Ids,          \* of listings
          OwnerOf,      \* [Ids -> the service that stores it]
          MaxMeanwhile  \* changes that others make to the listings

VARIABLES listed,         \* [Ids -> "open", "full" (cannot be planned) or "gone"]
          call,         \* the tool call being served
          meanwhile     \* changes by others so far

CatalogueTools == {"search", "get", "create", "update", "delete"}
WriteTools == {"create", "update", "delete"}
\* Only student 4's listings can be written through a tool.
MayCall(tool, id) == tool \in WriteTools => OwnerOf[id] = "student-4"

NoCall == [at |-> "none", tool |-> "get", id |-> 0, reply |-> "none", ids |-> {}, applied |-> FALSE]

\* What a write makes of a row, and whether it can.
Possible(tool, id) == IF tool = "create" THEN listed[id] = "gone" ELSE tool = "search" \/ listed[id] /= "gone"
WrittenAs(tool) == CASE tool = "create" -> "open" [] tool = "update" -> "full" [] OTHER -> "gone"
ReplyIds(tool, id) == IF tool = "search" THEN {i \in Ids : OwnerOf[i] = OwnerOf[id] /\ listed[i] /= "gone"}
                      ELSE {id}

SendsCall(tool, id) ==
  /\ call.at = "none" /\ MayCall(tool, id)
  /\ call' = [NoCall EXCEPT !.at = "sent", !.tool = tool, !.id = id]
  /\ UNCHANGED <<listed, meanwhile>>

\* The service does it; refuses (400, 404, 409, 422); or breaks or is not heard of
\* again, before a write or after it.
Serves(reply, applied) ==
  /\ call.at = "sent"
  /\ reply = "done" => Possible(call.tool, call.id)
  /\ applied => call.tool \in WriteTools /\ Possible(call.tool, call.id) /\ reply /= "refused"
  /\ reply = "done" /\ call.tool \in WriteTools => applied
  /\ listed' = IF applied THEN [listed EXCEPT ![call.id] = WrittenAs(call.tool)] ELSE listed
  /\ call' = [call EXCEPT !.at = "served", !.reply = reply, !.applied = applied,
                !.ids = IF reply = "done" THEN ReplyIds(call.tool, call.id) ELSE {}]
  /\ UNCHANGED meanwhile

\* Mutant: a write that breaks answers as a read does.
Envelope_OneForAll(c) ==
  IF c.reply = "done" THEN [ok |-> TRUE, code |-> "none", ids |-> c.ids]
  ELSE [ok |-> FALSE, ids |-> {},
        code |-> IF c.reply = "refused" THEN "REFUSED" ELSE "PROVIDER_UNAVAILABLE"]

\* ProviderClient.read and write, and what the tools make of them.
Envelope(c) ==
  IF c.reply = "done" THEN [ok |-> TRUE, code |-> "none", ids |-> c.ids]
  ELSE [ok |-> FALSE, ids |-> {},
        code |-> CASE c.reply = "refused" -> "REFUSED"
                   [] c.tool \in WriteTools -> "WRITE_OUTCOME_UNKNOWN"
                   [] OTHER -> "PROVIDER_UNAVAILABLE"]

OthersChange(id, content) ==
  /\ meanwhile < MaxMeanwhile /\ meanwhile' = meanwhile + 1
  /\ listed' = [listed EXCEPT ![id] = content] /\ UNCHANGED call
================================================================================
