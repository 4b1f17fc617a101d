------------------------------ MODULE PageRoutes -------------------------------
(***************************************************************************)
(* The vocabulary of the route tables.  A handler of a frontend is a chain *)
(* of calls to its backend: reads, at most one write, and reads again that *)
(* depend on the answer.  Its route says which, and with which page it     *)
(* ends.                                                                   *)
(***************************************************************************)
EXTENDS Sequences

\* A call that reads the list of some things, or one of them, and whether the
\* handler goes on when it fails.
ReadsAll(t)   == [of |-> t, kind |-> "all", needed |-> FALSE]
NeedsAll(t)   == [of |-> t, kind |-> "all", needed |-> TRUE]
Reads(t)      == [of |-> t, kind |-> "one", needed |-> FALSE]
Needs(t)      == [of |-> t, kind |-> "one", needed |-> TRUE]
NeedsFirst(t) == [of |-> t, kind |-> "first", needed |-> TRUE]  \* of the list, if any

\* A page: its reads, and nothing written.
Shows(reads) ==
    [reads |-> reads,       \* before anything is written
     write |-> "none",      \* none, ask (a model), create, change, put, delete
     of |-> "none",         \* the thing it writes
     moves |-> {},          \* what else that write changes of what is shown
     typed |-> FALSE,       \* whether the user typed what it writes
     onError |-> <<>>,      \* reads when the write was not acknowledged
     back |-> "page",       \* the page shown then
     onDone |-> <<>>,       \* reads when it was, for the page in its place
     inline |-> "always",   \* when that page is shown: always, htmx, never
     lands |-> "none",      \* the route redirected to otherwise
     plain |-> <<>>]        \* more reads when the whole page is sent, not a panel

Submits(write, t) ==
    [Shows(<<>>) EXCEPT !.write = write, !.of = t, !.moves = {t}, !.back = "error"]

\* A question to a model: nothing is written, and the answer or the error is
\* shown where the question was typed.
Asks == [Shows(<<>>) EXCEPT !.write = "ask", !.typed = TRUE, !.back = "form"]

--------------------------------------------------------------------------------
(* What the pages rest on *)

PageCall == [of : STRING, kind : {"all", "one", "first"}, needed : BOOLEAN]
PageRoute ==
    [reads : Seq(PageCall), write : {"none", "ask", "create", "change", "put", "delete"},
     of : STRING, moves : SUBSET STRING, typed : BOOLEAN, onError : Seq(PageCall),
     back : {"page", "form", "confirm", "error", "crash"}, onDone : Seq(PageCall),
     inline : {"always", "htmx", "never"}, lands : STRING, plain : Seq(PageCall)]

Rereads(reads, t) == \E i \in DOMAIN reads : reads[i].of = t /\ reads[i].kind # "first"

\* A handler redirects to a page that only reads; and whatever it read before its write, and the write changes, it reads
\* again for the page it answers with, unless the write's own answer brings it.
RouteFits(r, routes, things) ==
    /\ r \in PageRoute
    /\ r.write \notin {"none", "ask"} => r.of \in things
    /\ r.write = "ask" => r.moves = {}
    /\ r.write # "none" /\ r.inline # "always" =>
         r.lands \in DOMAIN routes /\ routes[r.lands].write = "none"
    /\ \A t \in (r.moves \cap things) \ {r.of} : (\E i \in DOMAIN r.reads : r.reads[i].of = t) =>
         /\ r.inline # "never" => Rereads(r.onDone, t)
         /\ r.inline # "always" => Rereads(routes[r.lands].reads, t)

\* It draws the form again around what was typed.
FormReturns(r) == r.typed => r.back = "form"

RoutesFit(routes, things, bare) ==
    \A name \in DOMAIN routes :
        RouteFits(routes[name], routes, things) /\ (name \in bare \/ FormReturns(routes[name]))
================================================================================
