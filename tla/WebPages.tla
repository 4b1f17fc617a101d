------------------------------- MODULE WebPages --------------------------------
(***************************************************************************)
(* One visit to a page of one of the five frontends.  A frontend keeps     *)
(* nothing: a visit is the chain of calls its route names, each of which   *)
(* may fail on its own, and between any two of them somebody else may      *)
(* change what is stored.  The routes are those of TripPages,              *)
(* TransportPages, StayPages, BudgetPages and ActivityPages.               *)
(*                                                                         *)
(* A write that gets no usable answer (a timeout, a lost connection, an    *)
(* unexpected status, a body that does not parse) may have been made, may  *)
(* yet be made, or may never be.                                           *)
(***************************************************************************)
EXTENDS PageRoutes, Integers, FiniteSets

CONSTANTS SiteRoutes, \* [site -> [name -> route]]
          Contents,   \* what each site's pages write: [site -> things]
          Within,     \* pairs <<part, whole>>: a part goes when its whole does
          MaxChanges  \* bound: changes of what is stored, during a visit

ASSUME ContentsAssumption ==
    /\ MaxChanges \in Nat
    /\ \A site \in DOMAIN SiteRoutes : Contents[site] \in SUBSET STRING /\ Contents[site] # {}

VARIABLES rows,    \* each thing: whether it is there, and when it last changed
          visit    \* the visit under way, or the page it ended with

PageVars == <<rows, visit>>

--------------------------------------------------------------------------------
(* What is stored *)

Wholes(t) == {w \in DOMAIN rows : <<t, w>> \in Within}
Parts(t) == {p \in DOMAIN rows : <<p, t>> \in Within}

\* The number of the last change.
Changes == CHOOSE n \in 0..MaxChanges :
             /\ \E t \in DOMAIN rows : rows[t].stamp = n
             /\ \A t \in DOMAIN rows : rows[t].stamp <= n

\* A write is made when its thing is there, or for a creation is not yet, and
\* the whole it is part of is.
Applies(write, t) ==
    /\ \A w \in Wholes(t) : rows[w].there
    /\ CASE write = "create" -> ~rows[t].there
         [] write \in {"change", "delete"} -> rows[t].there
         [] OTHER -> TRUE

\* What is stored after it: everything it changes has the next stamp.
Written(write, t, moves) ==
    IF write = "ask" THEN rows ELSE
    [u \in DOMAIN rows |->
       IF u = t THEN [there |-> write # "delete", stamp |-> Changes + 1]
       ELSE IF write = "delete" /\ u \in Parts(t)
         THEN [there |-> FALSE, stamp |-> Changes + 1]
       ELSE IF u \in moves THEN [rows[u] EXCEPT !.stamp = Changes + 1]
       ELSE rows[u]]

--------------------------------------------------------------------------------
(* The visit *)

Told == {"nothing", "done", "refused", "no answer"}

Route == SiteRoutes[visit.site][visit.route]

Visit(site, name, htmx) ==
    [site |-> site, route |-> name, htmx |-> htmx, sent |-> name, at |-> "before",
     todo |-> SiteRoutes[site][name].reads,
     told |-> "nothing",   \* what the user is told of the write
     made |-> 0,           \* how often it was made
     late |-> FALSE,       \* whether it was sent, not answered, and may yet be made
     stamp |-> 0,          \* the change it was
     seen |-> {},          \* what the page shows of each thing: the stamp it had
     listed |-> TRUE,      \* whether the last list read had anything in it
     unread |-> FALSE,     \* whether a read failed
     page |-> "none"]

Reading == visit.at \in {"before", "after"} /\ visit.todo # <<>>

\* A page shows what it read of a thing last.  What belongs to other services is
\* read as well, and may fail; nothing is said of what it shows.
Sees(t, stamp) == {s \in visit.seen : s.of # t} \cup {[of |-> t, stamp |-> stamp]}
Elsewhere(t) == t \notin DOMAIN rows
There(t) == IF Elsewhere(t) THEN TRUE ELSE rows[t].there

ReadsNext ==
    /\ Reading
    /\ LET read == Head(visit.todo)
           skip == read.kind = "first" /\ ~visit.listed
       IN  /\ skip \/ read.kind = "all" \/ There(read.of)
           /\ visit' = [visit EXCEPT
                !.todo = Tail(@),
                !.listed = IF read.kind = "all" THEN There(read.of) ELSE @,
                !.seen = IF skip \/ Elsewhere(read.of) THEN @ ELSE Sees(read.of, rows[read.of].stamp)]
    /\ UNCHANGED rows

\* A read fails, or finds the thing gone.  A list that could not be read is shown
\* as empty; what the handler cannot do without ends the visit on an error page.
ReadFails ==
    /\ Reading
    /\ visit' = IF Head(visit.todo).needed
                  THEN [visit EXCEPT !.at = "shown", !.page = "error", !.unread = TRUE,
                                     !.todo = <<>>]
                  ELSE [visit EXCEPT !.todo = Tail(@), !.unread = TRUE,
                          !.listed = IF Head(visit.todo).kind = "all" THEN FALSE ELSE @]
    /\ UNCHANGED rows

\* A page is shown once its reads are done; a submission goes on to its write.
ReadsDone ==
    /\ visit.at = "before" /\ visit.todo = <<>>
    /\ visit' = IF Route.write = "none" THEN [visit EXCEPT !.at = "shown", !.page = "page"]
                                        ELSE [visit EXCEPT !.at = "write"]
    /\ UNCHANGED rows

\* The mutated client takes an answer that does not parse for an empty success.
Answer_EmptyIsDone(told) == IF told = "no answer" THEN "done" ELSE told

\* What the clients make of an answer: a status they expect, with a body that
\* parses, is a result; the backend's own error is shown as such; anything else
\* is an answer that never came.
Answer(told) == told

\* In place of a redirect, HTMX gets the page itself.
InPlace == Route.inline = "always" \/ (Route.inline = "htmx" /\ visit.htmx)

\* The handler goes on to the reads that the answer calls for.
GoesOn(told) ==
    [visit EXCEPT !.at = "after", !.told = Answer(told),
       !.todo = (IF Answer(told) # "done" THEN Route.onError
                 ELSE IF InPlace THEN Route.onDone ELSE <<>>)
                \o (IF visit.htmx THEN <<>> ELSE Route.plain)]

WriteMade ==
    /\ visit.at = "write"
    /\ Changes < MaxChanges
    /\ Applies(Route.write, Route.of)
    /\ rows' = Written(Route.write, Route.of, Route.moves)
    /\ \E told \in {"done", "no answer"} :
         visit' = [GoesOn(told) EXCEPT
                     !.made = 1, !.stamp = Changes + 1,
                     !.seen = IF Answer(told) = "done" THEN Sees(Route.of, Changes + 1) ELSE @]

\* One that does not apply is refused, and one that does may be.
WriteRefused ==
    /\ visit.at = "write"
    /\ visit' = GoesOn("refused")
    /\ UNCHANGED rows

\* No answer, and nothing was made yet.
WriteLost ==
    /\ visit.at = "write"
    /\ \E late \in BOOLEAN : visit' = [GoesOn("no answer") EXCEPT !.late = late]
    /\ UNCHANGED rows

\* The page after a write: in place, or the one redirected to, which the browser
\* asks for as a visit of its own.
AfterWrite ==
    /\ visit.at = "after" /\ visit.todo = <<>>
    /\ visit' = IF visit.told = "done" /\ ~InPlace
                  THEN [visit EXCEPT !.at = "before", !.route = Route.lands,
                                     !.todo = SiteRoutes[visit.site][Route.lands].reads]
                  ELSE [visit EXCEPT !.at = "shown",
                          !.page = IF visit.told = "done" THEN "page" ELSE Route.back]
    /\ UNCHANGED rows

--------------------------------------------------------------------------------
(* Everybody else *)

LateWrite ==
    /\ visit.late
    /\ Changes < MaxChanges
    /\ Applies(Route.write, Route.of)
    /\ rows' = Written(Route.write, Route.of, Route.moves)
    /\ visit' = [visit EXCEPT !.late = FALSE, !.made = @ + 1]

\* Another user, or another service.
SomebodyWrites ==
    /\ Changes < MaxChanges
    /\ visit.at # "shown"
    /\ \E t \in DOMAIN rows, write \in {"create", "change", "delete"} :
         /\ Applies(write, t)
         /\ rows' = Written(write, t, {t})
    /\ UNCHANGED visit

\* A visit may find the site in any state.
PageInit ==
    \E site \in DOMAIN SiteRoutes :
      /\ rows \in {r \in [Contents[site] -> [there : BOOLEAN, stamp : {0}]] :
                     \A p, w \in Contents[site] :
                       <<p, w>> \in Within /\ r[p].there => r[w].there}
      /\ \E name \in DOMAIN SiteRoutes[site], htmx \in BOOLEAN : visit = Visit(site, name, htmx)

PageNext == \/ ReadsNext \/ ReadFails \/ ReadsDone
            \/ WriteMade \/ WriteRefused \/ WriteLost \/ AfterWrite
            \/ LateWrite \/ SomebodyWrites

--------------------------------------------------------------------------------
(* Properties *)

Sent == SiteRoutes[visit.site][visit.sent]

\* Whatever failed on the way: a user who is told that something was done finds
\* it done, once; one who is told that it was refused will never find it done;
\* and opening a page does nothing.
ToldWhatHappened ==
    /\ visit.told = "done" => visit.made = 1 /\ ~visit.late
    /\ visit.told \in {"nothing", "refused"} => visit.made = 0 /\ ~visit.late
    /\ visit.made <= 1

\* The page that answers a write shows nothing from before it, wherever it got
\* what it shows -- unless a read failed, when a page may make do with what it
\* has (_selection_change keeps the option it read before the write).
SeesOwnWrite ==
    visit.at = "shown" /\ visit.told = "done" /\ visit.page = "page" /\ ~visit.unread =>
      \A s \in visit.seen : s.of \in Sent.moves => s.stamp >= visit.stamp

\* Routes that answer with an error in place of the form: student 4's picker, into
\* which a date and a time are typed.
BareAnswers(site) == IF site = "activities" THEN {"put_itinerary"} ELSE {}

\* What was typed is not lost when it could not be saved: it is in the form the
\* user gets back -- unless what that form is drawn around could not be read, or
\* the route is one of BareAnswers, which lose it.
TypingSurvives ==
    visit.at = "shown" /\ visit.told \in {"refused", "no answer"} /\ Sent.typed =>
      \/ visit.page = "form" \/ visit.unread
      \/ visit.sent \in BareAnswers(visit.site)

\* A page tells what became of a write, shows nothing from before it, and loses nothing
\* that was typed for it, student 4's picker apart.
PagesAreTrue == ToldWhatHappened /\ SeesOwnWrite /\ TypingSurvives
================================================================================
