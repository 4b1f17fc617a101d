------------------------------- MODULE TripCosts -------------------------------
(***************************************************************************)
(* What a trip costs: Student 5's budget summary over the expenses of its    *)
(* own database and the costs that the transport, accommodation and activity *)
(* services work out, each by reading the pins that Student 1 keeps and then  *)
(* its own listing of every pin.  No two of these reads are one transaction:  *)
(* trips, pins, listings and expenses change between any of them.             *)
(***************************************************************************)
EXTENDS Naturals, FiniteSets

CONSTANTS Listings,   \* of the three catalogues
          KindOf,     \* [Listings -> Kinds]
          Shared,     \* priced per vehicle or per group, not per traveller
          MaxPrice, MaxWeight, MaxChangesMeanwhile

VARIABLES prices,     \* [Listings -> 0..MaxPrice], 0: the listing was deleted
          pins,       \* what the trip holds: [a set of listings -> weight], the
                      \* travellers or nights that multiply the price
          cancelled,  \* transport pins whose plan is cancelled
          trip,       \* whether the trip exists
          spent,      \* the expenses: "own" and "foreign" currency
          turns,      \* changes made so far
          summary,    \* one summary, and the analysis that is made of it
          during      \* what was true at some or at all moments of the reading

CostVars == <<prices, pins, cancelled, trip, spent, turns, summary, during>>

Kinds == {"transport", "accommodation", "activities"}

\* A vehicle or an activity may be for the group; a stay is paid by the night.
ASSUME CostAssumption == /\ KindOf \in [Listings -> Kinds] /\ Shared \in SUBSET Listings
                         /\ \A l \in Shared : KindOf[l] /= "accommodation"
After == [transport |-> "accommodation", accommodation |-> "activities",
          activities |-> "finish"]
Pricing == [transport |-> "price transport", accommodation |-> "price stays",
            activities |-> "price activities"]
Unread == [status |-> "unread", counted |-> {}]
Unavailable == [status |-> "unavailable", counted |-> {}]
Fresh == [at |-> "idle", own |-> FALSE, actual |-> {}, got |-> [k \in Kinds |-> Unread],
          left |-> {}, counted |-> {}, tools |-> FALSE, attempt |-> 0]

\* budget_analysis makes a summary first; what matters of it from there on is whether
\* an answer quotes one of its amounts.
Analysing == [Fresh EXCEPT !.at = "ask", !.attempt = 1]

Active(listing) == listing \in DOMAIN pins \ cancelled
\* History: what was pinned at every moment since the summary began, and what was,
\* or cost, at any.
Looking == [always |-> {l \in Listings : Active(l)}, ever |-> {l \in Listings : Active(l)},
            priced |-> [l \in Listings |-> {prices[l]}],
            weighed |-> [l \in Listings |-> IF l \in DOMAIN pins THEN {pins[l]} ELSE {}],
            existed |-> trip]

CostInit ==
  /\ prices = [l \in Listings |-> 1] /\ trip = TRUE
  /\ pins \in UNION {[held -> {1}] : held \in SUBSET Listings}
  /\ cancelled \in SUBSET {l \in DOMAIN pins : KindOf[l] = "transport"} /\ spent = {} /\ turns = 0 /\ during = Looking
  /\ summary \in {Fresh, Analysing}

-----------------------------------------------------------------------------
(* Other users, of any of the services                                     *)

Watched == during' = [always |-> during.always \cap {l \in Listings : Active(l)'},
                      ever |-> during.ever \cup {l \in Listings : Active(l)'},
                      priced |-> [l \in Listings |-> during.priced[l] \cup {prices'[l]}],
                      weighed |-> [l \in Listings |->
                        during.weighed[l] \cup IF l \in DOMAIN pins' THEN {pins'[l]} ELSE {}],
                      existed |-> during.existed \/ trip']
\* A change before or after the summary makes no difference to it.
Changes == /\ turns < MaxChangesMeanwhile /\ turns' = turns + 1
           /\ summary.at \notin {"idle", "done", "ask", "analysed", "refused"} /\ UNCHANGED summary

\* A listing is pinned, or its pin is written again, whether it is there or not.
Pins(l, w) ==
  /\ trip /\ Changes
  /\ pins' = [m \in DOMAIN pins \cup {l} |-> IF m = l THEN w ELSE pins[m]]
  /\ cancelled' \in IF KindOf[l] = "transport" THEN {cancelled \cup {l}, cancelled \ {l}}
                                              ELSE {cancelled}
  /\ UNCHANGED <<prices, trip, spent>> /\ Watched
Unpins(l) ==
  /\ l \in DOMAIN pins /\ Changes
  /\ pins' = [m \in DOMAIN pins \ {l} |-> pins[m]]
  /\ cancelled' = cancelled \ {l}
  /\ UNCHANGED <<prices, trip, spent>> /\ Watched
\* A new price, or 0 for a deletion: no catalogue asks Student 1 in the same step
\* whether a trip holds the listing, and two of them never ask.
Reprices(l, p) ==
  /\ prices[l] /= 0 /\ p /= prices[l] /\ Changes
  /\ prices' = [prices EXCEPT ![l] = p]
  /\ UNCHANGED <<pins, cancelled, trip, spent>> /\ Watched
\* The pins go with the trip; budget and expenses stay.
DeletesTrip ==
  /\ trip /\ Changes
  /\ trip' = FALSE /\ pins' = [l \in {} |-> 1] /\ cancelled' = {}
  /\ UNCHANGED <<prices, spent>> /\ Watched
Spends(currency) ==
  /\ currency \notin spent /\ Changes
  /\ spent' = spent \cup {currency}
  /\ UNCHANGED <<prices, pins, cancelled, trip>> /\ Watched

-----------------------------------------------------------------------------
(* The summary, call by call                                               *)

Goes(changes) == summary' = changes /\ UNCHANGED <<prices, pins, cancelled, trip, spent, turns>>

\* budget_summary: the budget, and whether it is kept in the providers' currency.
ReadBudget(own) ==
  /\ summary.at = "idle"
  /\ Goes([summary EXCEPT !.at = "expenses", !.own = own])
  /\ during' = Looking
ReadExpenses ==
  /\ summary.at = "expenses"
  /\ Goes([summary EXCEPT !.at = "transport", !.actual = spent])
  /\ UNCHANGED during

Settled(kind, result) ==
  [summary EXCEPT !.at = After[kind], !.got[kind] = result, !.left = {}, !.counted = {}]

\* A provider fails, answers late or with something else, or is asked for a trip
\* that Student 1 does not know: unavailable, which is not zero.
CannotTell(kind) ==
  /\ summary.at = kind
  /\ Goes(Settled(kind, Unavailable)) /\ UNCHANGED during

TransportUnavailable == CannotTell("transport")
StaysUnavailable == CannotTell("accommodation")
ActivitiesUnavailable == CannotTell("activities")

\* committed_costs and trip_transport: first the pins of this trip.
ReadPins(kind) ==
  /\ summary.at = kind /\ trip
  /\ Goes([summary EXCEPT !.at = Pricing[kind],
             !.left = {[listing |-> l, weight |-> pins[l], active |-> l \notin cancelled] :
                         l \in {m \in DOMAIN pins : KindOf[m] = kind}}])
  /\ UNCHANGED during

\* What a listing adds: selection_cost of transport, the nights of a stay, and an
\* activity's price for all travellers of the trip.
TransportAmount(pin) == prices[pin.listing] * (IF pin.listing \in Shared THEN 1 ELSE pin.weight)
StayAmount(pin) == prices[pin.listing] * pin.weight
ActivityAmount(pin) == prices[pin.listing] * (IF pin.listing \in Shared THEN 1 ELSE pin.weight)
Amount(kind, pin) == CASE kind = "transport" -> TransportAmount(pin)
                       [] kind = "accommodation" -> StayAmount(pin)
                       [] kind = "activities" -> ActivityAmount(pin)

\* Mutant: a plan that is cancelled is still paid for.
PriceOne_Cancelled(kind, pin) ==
  /\ summary.at = Pricing[kind] /\ pin \in summary.left
  /\ Goes(IF prices[pin.listing] = 0 THEN Settled(kind, Unavailable)
          ELSE [summary EXCEPT !.left = @ \ {pin},
                  !.counted = @ \cup {[listing |-> pin.listing, amount |-> Amount(kind, pin)]}])
  /\ UNCHANGED during

\* Then one listing after the other.  One that is gone ends the whole answer, even
\* when its plan is cancelled and would add nothing.
PriceOne(kind, pin) ==
  /\ summary.at = Pricing[kind] /\ pin \in summary.left
  /\ Goes(IF prices[pin.listing] = 0 THEN Settled(kind, Unavailable)
          ELSE [summary EXCEPT !.left = @ \ {pin},
                  !.counted = IF pin.active
                    THEN @ \cup {[listing |-> pin.listing, amount |-> Amount(kind, pin)]}
                    ELSE @])
  /\ UNCHANGED during
Adds(kind) ==
  /\ summary.at = Pricing[kind] /\ summary.left = {}
  /\ Goes(Settled(kind, [status |-> IF summary.own THEN "available" ELSE "unavailable",
                         counted |-> summary.counted]))
  /\ UNCHANGED during

\* Mutant: a provider that could not tell counts as one that has no costs.
Complete_Anyway(s) == "foreign" \notin s.actual

\* calculate_summary
Complete(s) == /\ "foreign" \notin s.actual
               /\ \A k \in Kinds : s.got[k].status = "available"
Committed(s) == UNION {s.got[k].counted : k \in {l \in Kinds : s.got[l].status = "available"}}
Calculates ==
  /\ summary.at = "finish"
  /\ Goes([summary EXCEPT !.at = "done"]) /\ UNCHANGED during

-----------------------------------------------------------------------------
(* The analysis of a summary                                               *)

\* Mutant: an answer without an amount of the summary is asked for again always.
SecondAsk_Always(answer, tools) == answer \in {"ungrounded", "invalid"}

\* What the first answer must be like for a second attempt.
SecondAsk(answer, tools) == answer \in {"ungrounded", "invalid"} /\ ~tools

\* AiModeClient.generate and _analysis_is_grounded; the model may run tools before
\* an answer of any kind, or before AI-Mode ends in an error of its own.  An envelope
\* that does not parse, which would be asked for again whatever tools ran, is none that
\* AI-Mode sends.
Answered(answer, tools) ==
  /\ summary.at = "ask"
  /\ Goes([summary EXCEPT
       !.tools = @ \/ tools,
       !.at = CASE answer = "grounded" -> "analysed"
                [] answer /= "grounded" /\ summary.attempt = 1 /\ SecondAsk(answer, tools) -> "ask"
                [] OTHER -> "refused",
       !.attempt = IF answer /= "grounded" /\ @ = 1 /\ SecondAsk(answer, tools) THEN 2 ELSE @])
  /\ UNCHANGED during

CostNext ==
  \/ \E l \in Listings : \/ \E w \in 1..MaxWeight : Pins(l, w)
                         \/ Unpins(l)
                         \/ \E p \in 0..MaxPrice : Reprices(l, p)
  \/ DeletesTrip \/ \E c \in {"own", "foreign"} : Spends(c)
  \/ \E own \in BOOLEAN : ReadBudget(own)
  \/ ReadExpenses \/ Calculates
  \/ TransportUnavailable \/ StaysUnavailable \/ ActivitiesUnavailable
  \/ \E k \in Kinds : ReadPins(k) \/ Adds(k) \/ \E pin \in summary.left : PriceOne(k, pin)
  \/ \E a \in {"grounded", "ungrounded", "invalid", "error"}, t \in BOOLEAN : Answered(a, t)

-----------------------------------------------------------------------------
Finished == summary.at = "done"

\* A summary that says it is complete missed no pin that the trip held, with a plan
\* that counts, all the while it was made -- a listing that is gone included.
CompleteMissesNothing ==
  Finished /\ Complete(summary) =>
    during.existed /\ during.always \subseteq {c.listing : c \in Committed(summary)}

\* What is counted, complete or not, was on the trip and counted at some moment of
\* the summary, at a price it had and for as many as it had in that time, though
\* perhaps not at one moment; and it is counted once.
CountedWasThere ==
  Finished => \A c \in Committed(summary) :
    /\ c.listing \in during.ever
    /\ \E p \in during.priced[c.listing], w \in during.weighed[c.listing] :
         p /= 0 /\ c.amount = IF c.listing \in Shared THEN p ELSE p * w
    /\ \A d \in Committed(summary) : d.listing = c.listing => d = c

\* "Clients must not automatically retry a run that has executed tools"
\* (ai-mode/README.md:15): when the analysis is asked for again, the first run
\* executed none.
NoRetryAfterTools == summary.at = "ask" /\ summary.attempt = 2 => ~summary.tools

\* A summary counts what was there, and a complete one all of it; and no analysis of
\* it is asked for again after tools ran.
SummaryIsTrue == CompleteMissesNothing /\ CountedWasThere /\ NoRetryAfterTools
================================================================================
