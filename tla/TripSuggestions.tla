---------------------------- MODULE TripSuggestions ----------------------------
(***************************************************************************)
(* Student 1's suggestions for one day of a trip.  The service reads what    *)
(* the trip holds kind by kind, has the other services tell it the details    *)
(* of the most relevant selections, trims a prompt to AI-Mode's limit, and     *)
(* checks what the model answers against what it read; an answer that fails   *)
(* may be asked for once more.  Meanwhile the trip goes on changing.          *)
(***************************************************************************)
EXTENDS Integers, FiniteSets, FiniteSetsExt, SequencesExt

CONSTANTS Entries,      \* what the trip may hold
          Trips,        \* what it may hold when the request is made
          EntryOf,      \* [Entries -> the record of an item, activity, journey or stay]
          Hours,        \* of a day; a moment is a day and an hour of local time
          RequestedDay, FirstDay, LastDay,
          MaxContext,   \* how many of each kind are looked up and shown at most
          PromptLimit,  \* of AI-Mode, in half parts of a prompt
          Goals,        \* how much room the traveller's own words take
          MaxAsks,      \* AI_MAX_ATTEMPTS
          Drafts,       \* what the model may suggest
          MaxTripChanges  \* while one request is served

VARIABLES trip,         \* the entries that the trip holds
          request,      \* the request being served
          kept,         \* history: entries held ever since the request began
          changes       \* of the trip so far

SuggestionVars == <<trip, request, kept, changes>>

EntryKinds == {"items", "stays", "activities", "transport"}
NoTime == -1
Times == {NoTime} \cup 0..Hours - 1
Statuses == {"confirmed", "pending", "completed", "cancelled"}

\* What the stores of the four kinds hold, and what the schema of an answer lets pass.
EntryFits(x) ==
  /\ x.kind \in EntryKinds /\ x.order \in Nat
  /\ x.kind = "items" => x.day \in Nat /\ x.from \in Times /\ x.to \in Times
  /\ x.kind = "activities" => x.day \in Nat /\ x.from \in Times /\ x.lasts \in Nat
  /\ x.kind = "stays" => x.day \in Nat /\ x.until \in Nat
  /\ x.kind = "transport" => x.departs \in Nat /\ x.arrives \in Nat /\ x.status \in Statuses
ASSUME SuggestionAssumption ==
  /\ Hours \in Nat \ {0} /\ RequestedDay \in Nat /\ MaxContext \in [EntryKinds -> Nat]
  /\ IsFiniteSet(Entries) /\ Trips \subseteq SUBSET Entries
  /\ \A e \in Entries : EntryFits(EntryOf[e])
  /\ \A d, e \in Entries :
       d /= e /\ EntryOf[d].kind = EntryOf[e].kind => EntryOf[d].order /= EntryOf[e].order
  /\ \A d \in Drafts : d.day \in Nat /\ d.from \in Times /\ d.to \in Times

Moment(day, hour) == day * Hours + hour
DayOf(moment) == moment \div Hours
DayStart(moment) == DayOf(moment) * Hours
DayEnd(moment) == DayStart(moment) + Hours

OfKind(set, kind) == {e \in set : EntryOf[e].kind = kind}
Timed(x) == x.from /= NoTime /\ x.to /= NoTime

-----------------------------------------------------------------------------
(* The snapshot: _load_ai_suggestion_snapshot                               *)

Distance(day) == IF day < RequestedDay THEN RequestedDay - day ELSE day - RequestedDay
First(condition) == IF condition THEN 0 ELSE 1
StatusRank == [confirmed |-> 0, pending |-> 1, completed |-> 2, cancelled |-> 3]
\* The sort key of each kind; the last resort is the id.
Relevance(e) ==
  LET x == EntryOf[e] IN
  CASE x.kind = "items" -> <<First(x.day = RequestedDay), Distance(x.day), x.day,
                             First(x.from /= NoTime), x.from, x.order>>
    [] x.kind = "activities" -> <<First(x.day = RequestedDay), Distance(x.day), x.day, x.from, x.order>>
    [] x.kind = "stays" -> <<First(x.day <= RequestedDay /\ RequestedDay <= x.until), x.day, x.order>>
    [] x.kind = "transport" -> <<StatusRank[x.status], x.order>>
MoreRelevant(d, e) ==
  LET a == Relevance(d)  b == Relevance(e) IN
  \E i \in DOMAIN a : a[i] < b[i] /\ \A j \in 1..i - 1 : a[j] = b[j]

\* select_cross_service_records, and the items of build_prompt_context: the i-th
\* is the one that has i - 1 before it.
MostRelevant(set, kind) ==
  LET held == OfKind(set, kind)
      ranked == [i \in 1..Cardinality(held) |->
                   CHOOSE e \in held : Cardinality({d \in held : MoreRelevant(d, e)}) = i - 1]
  IN  SubSeq(ranked, 1, IF Len(ranked) < MaxContext[kind] THEN Len(ranked) ELSE MaxContext[kind])
Selected(set) ==
  [items |-> MostRelevant(set, "items"), stays |-> MostRelevant(set, "stays"),
   activities |-> MostRelevant(set, "activities"), transport |-> MostRelevant(set, "transport")]

\* Mutant: the arrival's day is not blocked.
Windows_DepartureOnly(departs, arrives) ==
  {w \in {<<departs, IF DayOf(departs) = DayOf(arrives) /\ departs < arrives
                     THEN arrives ELSE DayEnd(departs)>>} : w[1] < w[2]}

\* _transport_local_time_windows: local times of two zones, so that a journey may
\* seem to arrive before it departs, by hours or by a day.
Windows(departs, arrives) ==
  {w \in
     CASE DayOf(departs) = DayOf(arrives) /\ departs < arrives -> {<<departs, arrives>>}
       [] DayOf(departs) < DayOf(arrives) -> {<<departs, DayEnd(departs)>>,
                                              <<DayEnd(departs), DayStart(arrives)>>,
                                              <<DayStart(arrives), arrives>>}
       [] OTHER -> {<<DayStart(arrives), arrives>>, <<departs, DayEnd(departs)>>}
   : w[1] < w[2]}

\* build_cross_service_time_blocks, of selections whose details were found.
Blocks(activities, journeys, found) ==
  {<<Moment(EntryOf[e].day, EntryOf[e].from), Moment(EntryOf[e].day, EntryOf[e].from) + EntryOf[e].lasts>> :
     e \in {a \in ToSet(activities) \cap found : EntryOf[a].from /= NoTime}}
  \cup UNION {Windows(EntryOf[e].departs, EntryOf[e].arrives) :
     e \in {t \in ToSet(journeys) \cap found : EntryOf[t].status /= "cancelled"}}

NextRead == [items |-> "stays", stays |-> "activities", activities |-> "transport", transport |-> "details"]
NoPrompt == [parts |-> {}, omitted |-> [k \in EntryKinds |-> 0], adjusted |-> {}]
NoRequest == [at |-> "idle", goal |-> 0, seen |-> {}, found |-> {}, blocks |-> {}, ask |-> 1,
              prompt |-> NoPrompt, drafts |-> <<>>]

SuggestionInit == /\ trip \in Trips /\ kept = trip /\ changes = 0
                  /\ request = NoRequest

Proceeds(r) == request' = r /\ UNCHANGED <<trip, kept, changes>>

\* get_trip, and the requested day lies within the trip.
Requests(goal) ==
  /\ request.at = "idle" /\ FirstDay <= RequestedDay /\ RequestedDay <= LastDay
  /\ request' = [request EXCEPT !.at = "items", !.goal = goal]
  /\ kept' = trip /\ UNCHANGED <<trip, changes>>
\* Four lists, one call each.
ReadsHeld(kind) ==
  /\ request.at = kind
  /\ Proceeds([request EXCEPT !.at = NextRead[kind], !.seen = @ \cup OfKind(trip, kind)])
\* The details of every selected stay, activity and journey that answers.
Enriches ==
  /\ request.at = "details"
  /\ LET selected == Selected(request.seen) IN
     \E found \in SUBSET UNION {ToSet(selected[k]) : k \in EntryKinds \ {"items"}} :
       Proceeds([request EXCEPT !.at = "ask", !.found = found,
                   !.blocks = Blocks(selected["activities"], selected["transport"], found)])

-----------------------------------------------------------------------------
(* The prompt: build_prompt_context, build_budgeted_prompt                  *)

Field(name, records) == [i \in 1..Len(records) |-> <<name, records[Len(records) + 1 - i]>>]
\* What may be left out, the first to go first; goal, constraints, dates stay.
DropOrder(selected) ==
  Field("notes", selected["items"]) \o Field("description", selected["items"])
  \o << <<"remarks">>, <<"interests">> >>
  \o Field("transport", selected["transport"]) \o Field("stays", selected["stays"])
  \o Field("activities", selected["activities"])
  \o Field("location", selected["items"]) \o Field("items", selected["items"])

\* Mutant: what goes to save space is not counted as left out.
Trimmed_Uncounted(selected, total, n) ==
  LET order == DropOrder(selected) IN
  [parts |-> {order[i] : i \in n + 1..Len(order)},
   omitted |-> [k \in EntryKinds |-> total[k] - Len(selected[k])],
   adjusted |-> {order[i][1] : i \in 1..n}]

\* After n rounds of the loop.  The note on what was adjusted takes room itself.
Trimmed(selected, total, n) ==
  LET order == DropOrder(selected) IN
  [parts |-> {order[i] : i \in n + 1..Len(order)},
   omitted |-> [k \in EntryKinds |-> total[k] - Len(selected[k])
                  + Cardinality({i \in 1..n : order[i][1] = k})],
   adjusted |-> {order[i][1] : i \in 1..n}]
\* The note on a failed answer comes with the second attempt.
Size(prompt, r) == r.goal + 2 * Cardinality(prompt.parts) + Cardinality(prompt.adjusted) + r.ask - 1

Totals(seen) == [k \in EntryKinds |-> Cardinality(OfKind(seen, k))]
\* After how many rounds the prompt fits.
Fitting == LET selected == Selected(request.seen) IN
  {n \in 0..Len(DropOrder(selected)) :
     Size(Trimmed(selected, Totals(request.seen), n), request) <= PromptLimit}
Budgeted == Trimmed(Selected(request.seen), Totals(request.seen), Min(Fitting))

Prompts == /\ request.at = "ask" /\ Fitting /= {}
           /\ Proceeds([request EXCEPT !.at = "asked", !.prompt = Budgeted])
\* Not even the least prompt fits: the first one, or the second with its note.
TooLong == /\ request.at = "ask" /\ Fitting = {}
           /\ Proceeds([request EXCEPT !.at = "refused"])

-----------------------------------------------------------------------------
(* The answer: normalise_suggestions                                        *)

DraftSpan(d) == <<Moment(d.day, d.from), Moment(d.day, d.to)>>
Overlap(p, q) == p[1] < q[2] /\ q[1] < p[2]
\* _find_duplicate: the same day, title and times.
Duplicates(d, x) == d.day = x.day /\ d.name = x.name /\ d.from = x.from /\ d.to = x.to
\* _find_time_conflict
Clashes(d, x) == d.day = x.day /\ Timed(d) /\ Timed(x) /\ Overlap(DraftSpan(d), DraftSpan(x))
BlockedOut(d, blocks) == Timed(d) /\ \E b \in blocks : Overlap(DraftSpan(d), b)

\* Mutant: a draft is held against the other drafts' names only.
Acceptable_DraftsApart(drafts, items, blocks) ==
  \A i \in DOMAIN drafts :
    LET d == drafts[i] IN
    /\ d.day = RequestedDay /\ (Timed(d) => d.from < d.to)
    /\ \A x \in items : ~Duplicates(d, x) /\ ~Clashes(d, x)
    /\ ~BlockedOut(d, blocks)
    /\ \A j \in 1..i - 1 : ~Duplicates(d, drafts[j])

\* No draft may break a rule, or none is returned.
Acceptable(drafts, items, blocks) ==
  \A i \in DOMAIN drafts :
    LET d == drafts[i] IN
    /\ FirstDay <= d.day /\ d.day <= LastDay /\ d.day = RequestedDay
    /\ Timed(d) => d.from < d.to
    /\ \A x \in items : ~Duplicates(d, x) /\ ~Clashes(d, x)
    /\ ~BlockedOut(d, blocks)
    /\ \A j \in 1..i - 1 : ~Duplicates(d, drafts[j]) /\ ~Clashes(d, drafts[j])

\* generate: an answer that is acceptable, one that is not (or is no JSON, or does
\* not fit the schema), and none at all.
Returned(drafts, tools) ==
  /\ request.at = "asked"
  /\ LET items == {EntryOf[e] : e \in {x \in OfKind(request.seen, "items") : EntryOf[x].day = RequestedDay}}
     IN  IF Acceptable(drafts, items, request.blocks)
         THEN Proceeds([request EXCEPT !.at = "answered", !.drafts = drafts])
         ELSE IF tools \/ request.ask = MaxAsks
         THEN Proceeds([request EXCEPT !.at = "exhausted"])
         ELSE Proceeds([request EXCEPT !.at = "ask", !.ask = @ + 1])
Unreadable(tools) ==
  /\ request.at = "asked"
  /\ IF tools \/ request.ask = MaxAsks THEN Proceeds([request EXCEPT !.at = "exhausted"])
     ELSE Proceeds([request EXCEPT !.at = "ask", !.ask = @ + 1])
\* Any call but those for details: the trip is gone, a service does not answer.
Breaks == /\ request.at \in EntryKinds \cup {"asked"}
          /\ Proceeds([request EXCEPT !.at = "failed"])

\* Others work on the trip at the same time.
TripChanges(e) ==
  /\ request.at \in EntryKinds \cup {"details", "ask", "asked"} /\ changes < MaxTripChanges
  /\ trip' = IF e \in trip THEN trip \ {e} ELSE trip \cup {e}
  /\ kept' = kept \cap trip' /\ changes' = changes + 1 /\ UNCHANGED request

SuggestionNext ==
  \/ \E g \in Goals : Requests(g)
  \/ Enriches \/ Prompts \/ TooLong \/ Breaks
  \/ \E k \in EntryKinds : ReadsHeld(k)
  \/ \E ds \in {<<>>} \cup [1..1 -> Drafts] \cup [1..2 -> Drafts], t \in BOOLEAN : Returned(ds, t)
  \/ \E t \in BOOLEAN : Unreadable(t)
  \/ \E e \in Entries : TripChanges(e)

-----------------------------------------------------------------------------
Suggested == request.at = "answered"
DraftMoments(d) == IF Timed(d) THEN Moment(d.day, d.from)..Moment(d.day, d.to) - 1 ELSE {}

\* When an entry takes the traveller's time on a local day, in the words of
\* student-1-runtime-ai-mode.md:166-179: from the departure to the end of its day,
\* from the start of the arrival's day to the arrival, and all days in between,
\* unless both are on one day in that order.
Busy(x, m) ==
  CASE x.kind = "items" -> Timed(x) /\ m \in DraftMoments(x)
    [] x.kind = "activities" -> x.from /= NoTime /\ m \in Moment(x.day, x.from)..Moment(x.day, x.from) + x.lasts - 1
    [] x.kind = "transport" ->
         /\ x.status /= "cancelled"
         /\ IF DayOf(x.departs) = DayOf(x.arrives) /\ x.departs < x.arrives
            THEN x.departs <= m /\ m < x.arrives
            ELSE \/ DayOf(m) = DayOf(x.departs) /\ m >= x.departs
                 \/ DayOf(m) = DayOf(x.arrives) /\ m < x.arrives
                 \/ DayOf(x.departs) < DayOf(m) /\ DayOf(m) < DayOf(x.arrives)
    [] OTHER -> FALSE

\* A suggestion leaves free whatever the trip held all the while, the selections
\* that had to go from the prompt included (student-1-runtime-ai-mode.md:155-157),
\* unless more of that kind were selected than are looked up, or its service did
\* not say when it is.
NoClashUnlessUnseen ==
  Suggested => \A i \in DOMAIN request.drafts, e \in kept \cap trip :
    \/ \A m \in DraftMoments(request.drafts[i]) : ~Busy(EntryOf[e], m)
    \/ /\ EntryOf[e].kind /= "items"
       /\ \/ Cardinality(OfKind(request.seen, EntryOf[e].kind)) > MaxContext[EntryOf[e].kind]
          \/ e \notin request.found

\* The suggestions can be taken together: on the requested day, none twice, none at
\* the time of another.
DraftsFitTogether ==
  Suggested => \A i, j \in DOMAIN request.drafts :
    LET d == request.drafts[i]  x == request.drafts[j] IN
    /\ d.day = RequestedDay /\ (Timed(d) => DraftMoments(d) /= {})
    /\ i /= j => d /= x /\ DraftMoments(d) \cap DraftMoments(x) = {}

\* Whatever was cut, by a maximum or for space, the prompt that was sent fits, tells
\* of every kind how many it does not show, and shows none when a more relevant one
\* of the kind is missing.
PromptTellsAll ==
  request.at \in {"asked", "answered"} =>
    /\ Size(request.prompt, request) <= PromptLimit
    /\ \A k \in EntryKinds :
         LET shown == {e \in OfKind(request.seen, k) : <<k, e>> \in request.prompt.parts}
         IN  /\ Cardinality(shown) + request.prompt.omitted[k] = Cardinality(OfKind(request.seen, k))
             /\ \A e \in shown, d \in OfKind(request.seen, k) \ shown : MoreRelevant(e, d)

\* From the snapshot over the prompt to the drafts: nothing is lost in silence, and what
\* is suggested can be done.
SuggestionsAreSound == NoClashUnlessUnseen /\ DraftsFitTogether /\ PromptTellsAll
================================================================================
