---------------------------- MODULE GroundedAnswers ----------------------------
(***************************************************************************)
(* The assistants of students 1 to 4.  Each has AI-Mode's model look things    *)
(* up with the MCP server's tools and shows its answer with the calls that it   *)
(* made: student 1 only options that a call returned, student 3 and 4 the       *)
(* stored records behind them, student 2 the words alone.                       *)
(***************************************************************************)
EXTENDS ToolCatalogue

CONSTANTS Tools,         \* those of the catalogue that the model calls
          MaxToolCalls,  \* of one run of the model
          AtFirst        \* what the listings may hold at first

VARIABLES made,    \* the calls of the run, as AI-Mode tells them
          assist,   \* the question being served
          past,     \* history: every write call made for it, and whether it was applied
          there,    \* history: the listings that there were since the question
          since     \* history: [Ids -> what they held since the model's answer]

AnswerVars == <<listed, call, meanwhile, made, assist, past, there, since>>

Assistants == {"trips", "stays", "transport", "activities"}
NoAssist == [who |-> "trips", at |-> "idle", attempt |-> 1, answer |-> {}, left |-> {},
             shown |-> {}, told |-> {}]
Contents == {"open", "full", "gone"}
Never == [id \in Ids |-> {}]
Here == {id \in Ids : listed[id] /= "gone"}

ASSUME ToolsAreKnown == Tools \subseteq CatalogueTools
ASSUME ListingsAreKnown == AtFirst \subseteq [Ids -> Contents]

AnswerInit == /\ listed \in AtFirst /\ call = NoCall /\ meanwhile = 0
              /\ made = {} /\ assist = NoAssist /\ past = {}
              /\ there = {} /\ since = Never
Notes == /\ there' = there \cup Here'
         /\ since' = IF assist.at = "answered" THEN [id \in Ids |-> since[id] \cup {listed'[id]}] ELSE since
Assists(next) == assist' = next /\ UNCHANGED <<listed, call, meanwhile, past, there, since>>
\* The assistant's answer, with the calls that it tells of.
Ends(at, shown, told) ==
  /\ Assists([assist EXCEPT !.at = at, !.shown = shown, !.told = told, !.answer = {}, !.left = {}])
  /\ made' = {}

\* Student 3 asks no model when nothing on the route could be planned.
Questioned(who) ==
  /\ assist.at = "idle"
  /\ who = "transport" => \E id \in Ids : OwnerOf[id] = "student-3" /\ listed[id] = "open"
  /\ assist' = [assist EXCEPT !.who = who, !.at = "running"]
  /\ there' = Here /\ UNCHANGED <<listed, call, meanwhile, made, past, since>>

-----------------------------------------------------------------------------
(* The model's run                                                         *)

ModelCalls(tool, id) == /\ assist.at = "running" /\ Cardinality(made) < MaxToolCalls
                        /\ SendsCall(tool, id)
                        /\ UNCHANGED <<made, assist, past, there, since>>
ServiceServes(reply, applied) == Serves(reply, applied) /\ Notes /\ UNCHANGED <<made, assist, past>>

\* A call as AI-Mode tells it: by its envelope once it returned; as an error, made or
\* not, when the run ended during it.
TraceOf(c, envelope) ==
  [tool |-> c.tool, id |-> c.id, attempt |-> assist.attempt,
   ok |-> envelope.ok, code |-> envelope.code, ids |-> envelope.ids]
Returned(c) == TraceOf(c, Envelope(c))
Unfinished(c) == TraceOf(c, [ok |-> FALSE, code |-> "INVALID_OR_UNAVAILABLE_RESULT", ids |-> {}])
Remembers(c, entry) ==
  past' = IF c.tool \in WriteTools THEN past \cup {[entry |-> entry, applied |-> c.applied]} ELSE past

CallReturns ==
  /\ call.at = "served"
  /\ IF assist.at = "running" THEN made' = made \cup {Returned(call)} /\ Remembers(call, Returned(call))
                              ELSE UNCHANGED made /\ Remembers(call, Unfinished(call))
  /\ call' = NoCall /\ UNCHANGED <<listed, meanwhile, assist, there, since>>

\* The model answers, naming listings that it looked up or made up.
ModelAnswers(ids) ==
  /\ assist.at = "running" /\ call.at = "none"
  /\ assist.who = "stays" => ids = {}
  /\ since' = [id \in Ids |-> {listed[id]}]
  /\ assist' = [assist EXCEPT !.at = "answered", !.answer = ids, !.left = ids]
  /\ UNCHANGED <<listed, call, meanwhile, made, past, there>>

\* An error that has the calls in it: students 2 and 4 pass them on, 1 and 3 do not.
PassedOn(entries) == IF assist.who \in {"stays", "activities"} THEN entries ELSE {}

\* AI-Mode ends the run with an error, between two calls or during one (a timeout, or
\* the deadline of the run), which then goes on without it.
RunFails ==
  /\ assist.at = "running"
  /\ Ends("failed", {}, PassedOn(made \cup (IF call.at = "none" THEN {} ELSE {Unfinished(call)})))
\* A result above the limit ends the run, and is left out of its calls.
ResultTooLarge ==
  /\ assist.at = "running" /\ call.at = "served"
  /\ LET entry == [Returned(call) EXCEPT !.code = "RESULT_TOO_LARGE", !.ids = {}]
     IN  /\ assist' = [assist EXCEPT !.at = "failed", !.told = PassedOn(made \cup {entry})]
         /\ Remembers(call, entry)
  /\ made' = {} /\ call' = NoCall /\ UNCHANGED <<listed, meanwhile, there, since>>
\* The backend stops waiting; the run goes on without it.
GivesUp == assist.at = "running" /\ Ends("unheard", {}, {})

-----------------------------------------------------------------------------
(* What the assistants make of it                                          *)

Succeeded(t) == {c \in t : c.ok}
\* Mutant: the ids that the model passed to a tool count as looked up.
LookedUp_Arguments(who, t) ==
  {c.id : c \in t} \cup UNION {c.ids : c \in Succeeded(t)}
\* _result_ids of student 1: every one; of students 3 and 4: their own.
LookedUp(who, t) ==
  {id \in UNION {c.ids : c \in Succeeded(t)} :
     /\ who = "transport" => OwnerOf[id] = "student-3"
     /\ who = "activities" => OwnerOf[id] = "student-4"}

\* Mutant: another attempt when nothing was looked up, whatever was written.
TriesAgain_NoLookup ==
  /\ assist.at = "answered" /\ assist.who = "trips" /\ assist.attempt = 1
  /\ \A c \in Succeeded(made) : c.tool \in WriteTools
  /\ assist' = [assist EXCEPT !.at = "running", !.attempt = 2] /\ made' = {}
  /\ UNCHANGED <<listed, call, meanwhile, past, there, since>>

\* Student 1: a model that answered from memory is asked once more, while there is
\* time, and then given up.
TriesAgain ==
  /\ assist.at = "answered" /\ assist.who = "trips" /\ assist.attempt = 1
  /\ Succeeded(made) = {}
  /\ assist' = [assist EXCEPT !.at = "running", !.attempt = 2] /\ made' = {}
  /\ UNCHANGED <<listed, call, meanwhile, past, there, since>>
FromMemory == /\ assist.at = "answered" /\ assist.who = "trips" /\ Succeeded(made) = {}
              /\ Ends("failed", {}, {})
ShowsOptions ==
  /\ assist.at = "answered" /\ assist.who = "trips" /\ Succeeded(made) /= {}
  /\ Ends("complete", {<<id, "unread">> : id \in assist.answer \cap LookedUp("trips", made)}, made)

ShowsWords == assist.at = "answered" /\ assist.who = "stays" /\ Ends("complete", {}, made)

\* Students 3 and 4: one listing that was not looked up, and the answer is refused.
Ungrounded == /\ assist.at = "answered" /\ assist.who \in {"transport", "activities"}
              /\ ~(assist.answer \subseteq LookedUp(assist.who, made))
              /\ Ends("failed", {}, PassedOn(made))
Resolving == /\ assist.at = "answered" /\ assist.who \in {"transport", "activities"}
             /\ assist.answer \subseteq LookedUp(assist.who, made)
\* Mutant: a journey that cannot be planned any more is shown.
Resolves_AnyStatus(id) ==
  /\ Resolving /\ id \in assist.left
  /\ Assists([assist EXCEPT !.left = @ \ {id},
       !.shown = IF listed[id] /= "gone" THEN @ \cup {<<id, listed[id]>>} ELSE @])
  /\ UNCHANGED made
\* Each is read again; one that is gone or, a journey, cannot be planned is only named.
Resolves(id) ==
  /\ Resolving /\ id \in assist.left
  /\ Assists([assist EXCEPT !.left = @ \ {id},
       !.shown = IF listed[id] = "open" \/ (assist.who = "activities" /\ listed[id] = "full")
                 THEN @ \cup {<<id, listed[id]>>} ELSE @])
  /\ UNCHANGED made
\* A listing that cannot be read: student 4 takes it for unavailable.
CannotRead(id) ==
  /\ Resolving /\ id \in assist.left
  /\ IF assist.who = "activities"
     THEN Assists([assist EXCEPT !.left = @ \ {id}]) /\ UNCHANGED made
     ELSE Ends("failed", {}, {})
ShowsRecords ==
  /\ Resolving /\ assist.left = {}
  /\ IF assist.who = "transport" /\ assist.answer /= {} /\ assist.shown = {}
     THEN Ends("failed", {}, {})
     ELSE Ends("complete", assist.shown, made)

\* Others write too; during a call it is as if before it or after it.
MeanwhileChange(id, content) ==
  /\ assist.at \in {"running", "answered"} /\ call.at = "none"
  /\ OthersChange(id, content) /\ Notes /\ UNCHANGED <<made, assist, past>>

AnswerNext ==
  \/ \E w \in Assistants : Questioned(w)
  \/ \E t \in Tools, id \in Ids : ModelCalls(t, id)
  \/ \E r \in {"done", "refused", "failed"}, a \in BOOLEAN : ServiceServes(r, a)
  \/ CallReturns \/ RunFails \/ ResultTooLarge \/ GivesUp
  \/ \E ids \in SUBSET Ids : ModelAnswers(ids)
  \/ TriesAgain \/ FromMemory \/ ShowsOptions \/ ShowsWords \/ Ungrounded \/ ShowsRecords
  \/ \E id \in Ids : \/ Resolves(id) \/ CannotRead(id)
                     \/ \E c \in Contents \ {listed[id]} : MeanwhileChange(id, c)

AnswerSpec == AnswerInit /\ [][AnswerNext]_AnswerVars

-----------------------------------------------------------------------------
\* Nothing that the model made up is shown: a shown listing was there at some moment
\* since the question, and a record beside it is what was stored at some moment after
\* the model had answered -- one that could be planned then, for a journey.
ShownIsReal ==
  assist.at = "complete" => \A s \in assist.shown :
    /\ s[1] \in there
    /\ s[2] /= "unread" => /\ s[2] \in since[s[1]] \ {"gone"}
                           /\ assist.who = "transport" => s[2] = "open"

\* Whoever is shown an answer is shown every write made for it ("Any *_create,
\* *_update, *_delete tool in the trace is listed", student 1's README:248), but one
\* of unknown outcome in student 1's first attempt; so is whoever is told of an error
\* by student 2 or 4, unless the run was not heard of again.
WritesAreTold ==
  assist.at = "complete" \/ (assist.at = "failed" /\ assist.who \in {"stays", "activities"}) =>
    \A c \in past :
      c.applied => c.entry \in assist.told \/ (c.entry.attempt < assist.attempt /\ ~c.entry.ok)

\* The error of a write means that nothing was written, and success that it was: the
\* caller may repeat the one and not the other.  Three errors leave it open: the one
\* that says so, and two of a run that ended during the call, which do not.
Uncertain == {"WRITE_OUTCOME_UNKNOWN", "INVALID_OR_UNAVAILABLE_RESULT", "RESULT_TOO_LARGE"}
OutcomeIsKnown ==
  \A c \in past :
    /\ c.entry.ok => c.applied
    /\ ~c.entry.ok /\ c.entry.code \notin Uncertain => ~c.applied

\* Of the writes a model made, the person who asked is told all, and what became of
\* each, as far as the calls that AI-Mode tells of do.
ToldIsTrue == WritesAreTold /\ OutcomeIsKnown
================================================================================
