# TripGenie: formal models

TripGenie is a set of HTTP services for planning a trip. This directory models it in TLA+, checks the models with TLC on small instances, and proves the properties
that matter most with TLAPS for every instance. `PROJECT.json` maps every definition to
the lines it translates and lists runs, hazards and theorems.

## 1. The system

Every feature service is a stateless FastAPI *backend* over a *database service* with one
SQLite file, and a *frontend* that draws pages from its backend's answers; services talk to
each other's public HTTP APIs. Nothing is shared but HTTP, and no request carries a version
or a lock.

| component | state | operations | talks to |
|---|---|---|---|
| **Multi-Agent Server** (`ai-services/multi-agent-server`) | table `runs`, append-only table `events`; in memory the tasks that hold a slot | start a run; Planner, Worker and Reviewer stages with bounded revisions; one human review; start-up repair; export | AI-Mode for every stage; called by the backends of students 2-5 |
| **AI-Mode** (`ai-services/ai-mode`) | none | generate with a model; a bounded loop of model turns and MCP tool calls | model provider, MCP Server |
| **MCP Server** | none | one tool = one call of a public API; writes are attempted once | the backends |
| **RAG Server** | one index file | ingest (builds aside, replaces the file), query | AI-Mode for embeddings |
| **Agentic loop** | a report | plans of read-only checks in seven modes, advice, a human decision, an exit code | all |
| **Student 1: trips** (`student-1`) | tables `trips`, `itinerary_items`, `trip_activities`, `trip_accommodations`, `trip_transport` | create, patch and delete trips and items; pin and unpin activities, stays and transport; AI suggestions for a day; a trip assistant | database service; read by everyone |
| **Student 2: accommodation** | tables `accommodation`, `accommodation_location`, `accommodation_room` | create, merge and delete stays; search; tick-list of trips; assistant; reviewed agent runs | student 1, shared, Multi-Agent Server, RAG |
| **Student 3: transport** | table `transport_options` | catalogue edits, select and remove an option on a trip, assistant, reviewed agent runs | student 1, Multi-Agent Server |
| **Student 4: activities** | catalogue with schedules, categories and id aliases | catalogue edits, search, tick-list, Smart Planner (review, regenerate), assistant | student 1, shared, Multi-Agent Server |
| **Student 5: budgets** | tables `budgets`, `expenses` | edits, spending summary over all services, reviewed allocation changes, analysis | students 1-4, Multi-Agent Server, AI-Mode |
| **Shared location and currency** | reference tables | create-only, ids are hashes of names | students 2 and 4 |
| **Frontends** (five) | none | pages, forms, the panel of an agent run | their backend |

### What is hard here

- *Check in one service, write in another.* A backend reads through one or more calls,
  decides, and writes in a later call; other requests run between any two of them.
  Student 1's database re-checks most rules inside the transaction of the write, the
  others do not.
- *Reads in pieces.* A summary, a snapshot, a tick-list or a page is put together from several
  reads, and the world moves between them.
- *Merge and write back.* Students 2, 4 and 5 update a row by reading it, merging, and writing
  it back in a second step; what the ORM writes depends on what it read.
- *Two-step commits.* A run row and its audit event; a recorded decision and the additions
  it approved; a rejected run and its replacement.
- *Failure.* The Multi-Agent Server may stop at any point and repairs its table on start;
  its store may refuse a write; seeding runs again at every start of a database; a call
  between services may time out and still be carried out, now or later.
- *Asking a model again.* Only where nothing can have been written.
- *Bounds and order.* Slots, revisions, seats, the length of a trip, a prompt's size; prices
  kept as text.
- *Liveness.* A model that never answers must not hold a run or a slot.

### What makes each component correct

- *Multi-Agent Server:* the slot limit holds; a run under way belongs to code that is
  working on it; an attempt that may have changed data is never repeated; what a human
  signs off is one attempt's result with that attempt's checks and review; a closed run
  stays closed; clients see the lifecycle of `RunLifecycle`; runs settle and slots return.
- *Agentic loop:* no failure is hidden by a later check, nothing is asked with an input no
  earlier answer gave, exit code 0 means what the report says; the audit of a run neither
  overlooks a lost event nor raises a false alarm.
- *AI-Mode:* a write tool call is never made twice, also when the caller asks again; the
  trace a caller gets tells what was sent; every run ends within its limits.
- *MCP Server and assistants:* nothing is shown that no tool or store told of; the user is told
  of every write made in their name, and of an uncertain one as uncertain.
- *RAG:* a question is answered from one published corpus, and an overlapping ingest never
  leaves a mixture.
- *Trips:* everything dated lies inside its trip, nothing is planned on a trip that does
  not exist, no accepted row makes its trip unreadable. *Suggestions:* a draft clashes with
  nothing that stood in the trip throughout and was in view.
- *Stays, activities:* no edit loses a column it did not send, a deleted row stays deleted,
  ids handed out keep answering, sorting by price is numeric, pages neither skip nor repeat.
- *Transport:* selections fit the seats, and no selection names a deleted option.
- *Reviewed runs (students 2-5):* the trip or budget gets what the recorded decision approved and
  nothing else, each item at most once, and the answer names what became of each.
- *Budgets:* allocations stay within the total whatever is lost to concurrent edits; a
  complete summary misses no cost that was there throughout.
- *Shared:* ids stay stable, one currency per country, no name wrongly reported missing.
- *Frontends:* a page shows what happened and the user's own write; what was typed survives
  an error; a decision is not offered twice; a panel goes silent for a reason.

## 2. Modules

| module | models | state | actions |
|---|---|---|---|
| `RunLifecycle` | what a client may rely on about a run (abstract) | `phase`, `shown`, `decision`, `approved` | `Create`, `Present`, `Fail`, `Approve`, `Correct`, `AcceptPart`, `Reject` |
| `MultiAgentRuns` | `workflow.py`, `store.py`, lifespan in `app.py` | `disk`, `log` (the two tables), `tasks` (slots), `mem`, `pc`, `queue`, `attempt`, `process` | one per store write between two awaits; `Crash`, `Boot`, `FailInterrupted`, `Serve` |
| `RunAudit` | `audit_checks` over an exported run, beside its server | none of its own | none: a function of the server's state |
| `AgenticLoop` | `agentic_loop.py`: the plan of each mode | `loop`: items left, rows, saved values, failures, decision, exit | one per item kind, agent, decision |
| `ToolLoop` | AI-Mode's `agent.py` and the callers that ask again | the run, `asking`, `received` (calls that reached the MCP server) | one per reply, call, result or error |
| `ToolCatalogue`, `GroundedAnswers` | the MCP server's envelopes; the assistants of students 1-4 | `listed`, `call`; `made`, `assist` and the history of writes | one per call, its effect, its answer; each assistant's steps |
| `PublishedCorpus` | what a reader of the RAG server may rely on (abstract) | `files`, `corpus`, `used` | `Edit`, `Publish`, `Retrieve`, `Cite` |
| `RagIndex` | `index.py`, `service.py` of the RAG server | `files`, `manifest`, `serves`, `index`, `builds`, `questions` | one per source read, embedding, replacement, query step |
| `TripStore` | student 1's `repository.py`: the write transactions | the four tables | one per write method |
| `TripService` | student 1's `service.py` over `TripStore` | the tables and, per request, what it has read | one per database call of a handler |
| `TripSuggestions` | student 1's suggestions for a day | `trip`, `request`, `kept`, `changes` | one per read, look-up, prompt, answer |
| `TripPicker` | the tick-lists of students 2-4 | `trips`, `pinned`, `picker`, `moments` | one per write and read of a request; others' moves |
| `StayCatalogue` | student 2's three tables and routes | `stays`, `jobs`, `search` | one per statement group and read |
| `AgentReviews` | reviewed runs of students 2 and 3, over `RunLifecycle` | the runs, `result`, `grounded`, `requests`, `sent`, `answer` | one per HTTP call |
| `TransportSeats` | student 3's selections and guarded deletion with student 1's pins | `options`, `live`, `pins`, `requests` | one per HTTP call |
| `ActivityCatalogue`, `CatalogueSearch` | student 4's repository, seeding and migration; its price order and search | `acts`, `aliases`, `edits`, `base` | one per step under SQLite's lock; search is an operator |
| `PlannerApproval` | student 4's planner routes and review, over `RunLifecycle` | the runs, `sound`, `parent`, `requests`, `mail`, `sent` | one per HTTP call |
| `BudgetStore`, `ExpenseStore` | student 5's two tables, handlers and reviewed runs, over `RunLifecycle` | `budgets`, `expenses`, the runs, `requests`, `calls` | one per transaction or call; a restart seeds |
| `TripCosts` | student 5's summary and analysis | `prices`, `pins`, `cancelled`, `spent`, `summary` | one per read; others' changes |
| `SharedReference`, `PlaceNames` | shared reference tables; the name caches of students 2 and 4 | `countries`..., `creates`; `known`, `seeks` | one per read and insert; one per page read |
| `PageRoutes`, `TripPages`, `TransportPages`, `StayPages`, `BudgetPages`, `ActivityPages` | the five frontends: every route as a chain of backend calls | none: tables of routes | none |
| `WebPages` | how a route runs | `rows`, `visit` | one per call, success, failure, late or lost write; other users |
| `AgentPages` | the panels that follow an agent run | `run`, `panel` | poll, open, review, others' decisions |
| `MC...` | constants, symmetry, constraints; `MCParts` and `MCServices` hold several parts | `part`, `table`, `strained` | |
| `..._proof` | theorems about `MultiAgentRuns` with `RunAudit`, `TripService`, `PlannerApproval`, `AgentReviews`, `BudgetStore` with `ExpenseStore`, `TransportSeats` (`MCTransportSeats_proof`); `Services_proof`: `RagIndex`, `SharedReference` with `PlaceNames`, `AgentPages`, `WebPages`, `TripSuggestions`; `Parts_proof`: `ToolLoop`, `GroundedAnswers`, `StayCatalogue`, `TripCosts`, `ActivityCatalogue`, `CatalogueSearch`, `TripPicker`, `AgenticLoop` | | |

`TripService` EXTENDS `TripStore`: a backend handler ends in one of the store's transactions.
`GroundedAnswers` EXTENDS `ToolCatalogue`: an assistant's model calls tools, and the catalogue
serves them. `RunAudit` EXTENDS `MultiAgentRuns`: the audit is judged against the state the
server is really in. `MultiAgentRuns` implements `RunLifecycle` (`ImplementsLifecycle`) and
`RagIndex` implements `PublishedCorpus` (`ImplementsCorpus`), both checked as a PROPERTY; and
`PlannerApproval`, `AgentReviews` and `BudgetStore` use `RunLifecycle` as their server
(`Server == INSTANCE RunLifecycle`), so that the server's model and its clients' models meet
at one interface. Both refinements are proved as well. `PlaceNames` EXTENDS `SharedReference`: a cache over the tables it reads.

### How the models correspond to the code

**MultiAgentRuns.** The engine is one asyncio loop. A task gives it up only while AI-Mode
works for it, so the statements between two awaits are not interleaved with another
request, but each store write commits by itself and a crash may fall between any two.
Hence one action per write: `Commit` saves the row and leaves in `queue[r]` the audit
events the same stretch of code writes next; `LogEvent` writes them one by one while the
loop stays busy (`LoopFree`). With `StoreFaults` any write may raise, and control goes
where the code's handlers take it: inside the pipeline to `_fail`, elsewhere out of the
handler. AI-Mode is the environment: it returns any result, any verdict, an error, or
nothing until the run timeout (`StageAborts`), and may run a write tool at any moment of a
Worker call (`ToolWrites`). A call that fails may come without its trace (`untold`), and then a
write in it is unknown to the server, which tries again. `result`, `checks` and `review` carry the attempt they come
from, so that a stale one can be told from a fresh one. Texts and schemas are
abstracted to whether the blocking checks pass.

**RunAudit.** `AuditOK` is one row of `audit_checks`, applied to the exported row and events.
An export is one stretch of the server's loop, so the audit is judged in the states in which
the loop is free (`Exportable`), after any crash, repair or store fault.

**AgenticLoop.** A mode is a plan: a sequence of items with the item that gates each, the
values it needs and the values it saves. One step takes the head of the plan, asks the world
(right, wrong, gone, absent, unsaved, raising) and writes a row; then the observer and
reviewer agents pick rows, a human decides, and the exit code is set. The seven modes are
seven plans over a registry of services, of which `ValidatedOnes` were selected and started.

**TripStore, TripService.** Each write method runs in one `BEGIN IMMEDIATE` transaction and
is one atomic action that reads what it validates. Days are numbers; 0 stands for an
absent value; times are ordered values. A backend handler is a record in `requests`, which
holds exactly what the handler has read and still needs; any number of requests are in
flight, and `Refuse` ends one with an error at any point before its write.

**TripSuggestions.** The snapshot is read kind by kind, each read a step, with others changing the
trip between them; `Relevance` is the sort key of each kind and `MaxContext` the cap; a prompt too
long loses its least relevant entries until it fits or is refused. A draft is checked against the
blocks of the snapshot, `kept` records what stood in the trip throughout, and a refused answer is
asked for once more. Times are hours of a small day, sizes half parts of a prompt.

**TransportSeats.** `AddReadsOption`, `AddListsTrips`, one `AddReadsTrip` per listed trip, and
`AddWrites` are the calls of `add_to_itinerary` in their order; `DeleteLooks` and
`DeleteWrites` those of `delete_transport_option`. With `Outages` the look fails and the
deletion goes on, as in the code. `strained` in `MCTransportSeats` remembers whether requests
have ever overlapped. Prices, routes and times are left out.

**TripPicker.** A tick or untick is student 1's write followed by the list: the trips, who holds
this listing, and the rows of each holder, in the order of each backend. `moments` is the
history of what was pinned since the request began or wrote, against which the list is judged.

**PlannerApproval.** A review is `ReviewReads` (GET and the validation of the answer),
`Preflight` (what the trip holds), `Decides` (POST of the decision) and one `Save...` per
card, in any order of users. Regeneration is `RegenerateReads`, `RegenerateRejects` and
`RegenerateStarts`. A call whose answer is lost goes into `mail` and arrives later or
never. Cards are activities; audits, dates and texts only lead to refusals (`Refuse`, which
is also where a backend that stops loses its request). The trip is Student 1's and anyone
may change it at any time, so `Preflight` may find any of the cards there, and a PUT is
counted in `sent` when it is sent, whatever becomes of it.

**AgentReviews.** The page's buttons and ticks (`FormVerdict`), a caller of the public route who
sends anything, GET, POST and one write per listing. The places of a partial approval are
resolved by the server when the decision arrives, the listings by the backend from the result it
reads. There are two readings of one result: the server proposes every item up to its limit
(`Proposed`), the backends drop items without a reason and number what is left (`Readable`,
`Number`), so the same number may name two items. A correction has to keep to the output schema.
Students 2 and 3 differ in which suggestions have a tick box and in whether the number of
travellers is asked.

**BudgetStore, ExpenseStore.** The database updates a budget in two transactions, `read` and
`write`; handlers run in threads, so any other request falls between them. Each
write is of a whole merged row that was validated (`Fits`). A reviewed run's changes are merged with the budget
read before the decision and written after it. An expense is checked against its trip's dates by
the backend in calls of its own; when student 1 cannot be reached the check is skipped, as
in the code. Student 1 moves and deletes trips without looking at expenses (`TripMoves`), so a
date is checked against `window` as it is then, and `basis` remembers the window each expense was
checked with, or that it was not, or not as it was merged. A restart inserts the seed rows whose ids are missing.

**TripCosts.** A summary reads the trip, then its own expenses, then for each provider the pins and
every listing; each read is a step among others' changes, and `during` records what was pinned,
priced and there at some or at all moments. A provider that fails or answers out of shape is
`unavailable`. The analysis asks AI-Mode, once more if the first answer quotes none of the
amounts and no tool was called.

**StayCatalogue, ActivityCatalogue.** What a session reads it reads before its transaction takes
SQLite's write lock, so a replace or merge is two steps; the ORM writes the columns that differ
from what it read and deletes the children it read. `CatalogueSearch` models the price text
columns (`PriceText`, `PriceKeys`), the price and availability clauses and the page windows as
operators over an alphabet of ids. Seeding at a start, its migration of legacy ids into aliases
and the two commits it makes are actions; a stop may fall between.

**SharedReference, PlaceNames.** A create is up to three reads and one insert, each seeing what is
committed by then; two creators race for one key. A row is known by its key, because its id is a
hash of that key. The name cache of students 2 and 4 loads both lists page by page, and reloads
once on a miss; a page is a count and a window of rows, two statements.

**RagIndex.** An ingest command reads the manifest and the old index, embeds what changed, and
moves a finished file into place; a query checks readiness, waits for an embedding, searches and
generates. Either runs at any time, any number of them, while sources, manifest and the
dimension of a model's vectors change.

**ToolLoop.** The model is the environment: at `chat` it answers (`Answers`) or asks for any
sequence of calls (`Asks`). The loop takes them one by one, in the order of its checks:
unknown, repeated or excessive (`Rejects`, ends the run), invalid arguments (`Corrects`, given
back to the model a bounded number of times), otherwise sent (`Sends`) and awaited
(`Returns`). A call stands for a tool with its arguments, which is the signature the loop
remembers. `Fails` is the timeout of the run or a connection error, at each await. The
trace entry of a call under way has status `error`, the default of `ToolTrace`; `answered`
tells whether the model has seen the result. Arguments, prompts and result contents are
left out. `AsksAgain` is the caller: it starts a new run when the answer is unusable to it
and its reading of the trace allows it (`MayAskAgain`). For the callers in `others` (student 1's
suggestions, student 2's search, student 5's analysis) the trace must be empty; for student 1's
trip assistant no call in it may have succeeded. `asking` says who calls; both kinds are in the
run. Callers ask again only for an answer, never for an error.

**ToolCatalogue, GroundedAnswers.** A tool call becomes one request to the service that owns the
listing. It is done, refused, or breaks before or after its effect; a broken write answers
`WRITE_OUTCOME_UNKNOWN`, a broken read an error that may be repeated. AI-Mode may end the run at any
moment, also while a call is under way or when its result is too large; the call is then told with an
error of AI-Mode's own (`Unfinished`, `ResultTooLarge`), whether or not it was carried out. The model of an assistant calls
tools and answers with any ids, its own inventions included; student 1 shows the options a call
returned, students 3 and 4 read each again from the store, student 2 shows words.

**PageRoutes, ...Pages, WebPages, AgentPages.** A frontend route is a record: its reads, its write,
what it reads and shows when the write is refused or done, and where it lands. The five site
modules are tables of those records, one definition per handler, and `WebPages` is their one
interpreter: a visit takes the calls in order, each fails by itself, a write without an answer may
have been made, may yet be made or never, and others change what is stored. A route that answers an error
with a banner alone, and loses what was typed, is listed in `BareAnswers`. `AgentPages` is the
panel of a run: which failures of a poll keep it asking, and what a review reads before and after.

## 3. Runs

The properties of a run are conjunctions of the named parts defined just above each; every part
has a mutant of its own in `PROJECT.json`.

| run | instance | shows |
|---|---|---|
| `one` | 1 run, 2 proposable actions, 1 revision, faults and crashes | what is presented, closed, logged and audited is right; the engine implements `RunLifecycle` |
| `live` | 2 runs, 1 slot, fair loop | the slot limit; runs settle and slots return |
| `trips` | 2 requests; 1 trip, item, activity and stay; 2 days, 2 times | windows, dated rows and stays stay consistent under interleaving and reuse of ids |
| `shrink` (violation) | 1 request, 1 stay | a PATCH of the window leaves a stay outside |
| `seats` | 2 clients, 3 trips, 1 option of up to 2 seats, outages | overselling is bounded by the requests in flight; while requests come one at a time selections fit and no held option is deleted |
| `approval` | 2 people, 3 runs, 1 card, 1 late call | only what the recorded decision approved is sent, once; a run is replaced once, after its rejection |
| `reviewed` | 1 run of 2 suggestions, 1 person on the page, 1 caller of the route | only grounded, approved listings are added, once; what is approved is what was ticked; the answer names all |
| `budgets` | 2 budgets, 2 users, 1 run of 2 changes; 1 expense, 2 clerks | stored budgets fit; a decision is written once and to its budget; rows change only on request |
| `index` | 2 sources, 2 models and dimensions, 2 ingests, 1 query | the index is one publication; `RagIndex` implements `PublishedCorpus` |
| `parts` | see below | `ToolLoop`, `AgenticLoop`, `ActivityCatalogue`, `CatalogueSearch`, `TripCosts`, `GroundedAnswers` |
| `mixed` (violation) | the catalogue of `parts` | two overlapping replaces store a row that neither sent |
| `services` | see below | `SharedReference`, `PlaceNames`, the five frontends, `AgentPages`, `TripSuggestions`, `TripPicker`, `StayCatalogue` |

`parts` and `services` hold components that share no state. A variable `part` says which one a
behaviour is about; the others stand in one idle state, so the states of the run are the sum, not
the product, of the parts'. `budgets` does the same for its two tables (`table`).

**Bounds.** Runs, trips, options and cards do not interact except through a limit or a key.
Two runs over one slot meet the slot limit. One revision gives a first, a last and a stale
attempt. In `trips` two days give a window, a proper sub-window and a day outside, and two
times (`LastTime = 1`) a stay that ends before it begins on the same day; the trip's id is
freed and used again within the run. `seats` has trips enough to oversell by each request in
flight. In `approval` a run, its replacement and a second replacement need three runs; one late
call and two people give each race of two requests. In `reviewed` two suggestions give all,
some and none ticked, a listing named twice, and an item without a reason before one that has
it, which shifts the numbers; `MaxSuggestions` and `MaxProposed` let a whole result pass, so
results that are cut are left to the theorem. In `budgets` money is 0 or 1: enough for a
total that an allocation of each category fills alone and both exceed; a trip has two windows and
may be deleted.
In `parts`: tool limits small enough to be reached in every order, `MaxCalls` below what turns and
replies allow; a validation loop over two services of which one was started; two samples of which
one is historical, so that aliases arise; eight prices around each change of length of a decimal;
one listing per kind; two changes by others. In `services`: three names and a page of two, so that a
list spans pages; two changes behind a page's back; eight entries of a trip over three days, caps
one below what the trip holds, and a prompt that fits with and without the traveller's longest
words; two trips, two details and two moves; two stays and two clients with bodies that send half a
place, a whole one, rooms or nothing of either. Two concurrent actors are enough for every race
found: each is a check by one and a write by the other; a third actor would only repeat a role. What
TLC cannot cover in number is what the theorems are for.

**Constraints.** `Overlap` of `index` and `seats`, and `PlaceLimit` of `services`, cut the
product of two overlaps that each run sees by itself: two ingests overlap while no query is on its
way and over one file that may be written; requests over seats overlap over an option of full
capacity; one creator works beside the searching requests (the part `reference` has two, and no
search). `TripsStay` in `shrink` keeps the counterexample short; an expected violation
hides nothing. `MaxEdits`, `MaxRequests`, `MaxChanges...`, `MaxMoves`, `MaxVisits` and `MaxVersion`
cap counters of the environment.

**Symmetry** is used where the named values are told apart by nothing (`approval`, `reviewed`,
`budgets`, `seats`, `trips`, `index`); no run with symmetry checks liveness. Deadlock is not
checked where the system may really come to rest: with all runs settled and all requests
answered there is nothing left to do.

**Fairness.** `MultiAgentRuns!FairSpec` assumes weak fairness of `TaskStep(r)` for each run. asyncio
runs every ready callback in turn, and a stage that never ends is ended by `wait_for` with
the run timeout (`workflow.py:176-181`), which is the action `StageAborts`: one of the steps
`TaskStep` offers while a stage waits. No fairness is assumed of clients, of AI-Mode's
tools, of crashes or of restarts. `live` has no store faults: a store that keeps raising
leaves its run active until the next restart, as `ActiveRunsAreOwned` says.
`MCParts!PartSpec` assumes weak fairness of `ToolNext`: a request is one sequential task, and
`asyncio.timeout(agent_timeout_seconds)` (`agent.py:92`), the action `Fails`, bounds its every
wait. `RunEnds` asks more than that something happens: that no mix of corrections, turns and
attempts goes on for ever.

## 4. Theorems

Each holds for every value of the constants under the modules' named assumptions
(`LimitsAssumption`, `CalendarAssumption`, `DurationAssumption`, `PlannerAssumption`,
`ReviewsAssumption`, `SeedAssumption`, `RagAssumption`, `ToolAssumption`, `ToolsAreKnown`,
`ListingsAreKnown`, `StaysAssumption`, `CostAssumption`, `CatalogueAssumption`,
`SearchAssumption`: prices and durations are amounts, names and ids have an order;
`SuggestionAssumption`, `LoopAssumption`: the registry is a sequence of numbered services;
`SeatsAssumption`: trips and clients are finitely many; `ContentsAssumption`: a site has something to
change; `PageTablesFit`, of which the section on WebPages; `ReferenceAssumption`, `PlaceAssumption`: names
are numbers, for their order, and pages have rows), which TLC evaluates in the runs. They say what the code's own validation lets pass: bodies that the schemas accept,
limits that the settings allow, a manifest that names a source once, seeds that fit their own rules.
Where a run's property is a conjunction, a theorem of the conjunction rests on theorems of its parts.

**MultiAgentRuns.** `TypeCorrect`, `CapacityIsRespected`, `WritesEndRuns`, `FinalRowsAreKept`,
`ActiveRunsHaveOwners`, `ReviewsCoverLastAttempt`, `LogsAreTrue`, and the refinement
`EngineImplementsLifecycle` (the type invariant is proved and no longer part of a run).
Types alone are not enough for the others. The limit is checked before the run takes its
slot, so the slot invariant counts runs about to take one, and needs that the loop is
held by at most one run (`LoopInv`). A write tool runs in the attempt under way, so
`WriteInv` needs that an attempt has begun whenever a Worker runs (`BegunInv`); it is about
writes that AI-Mode told of, the others being retried. That a
final row is never rewritten needs, for every label the code may be at, what the table
shows there (the stage invariant), and that nothing is at work while the process is down.
Over the stage invariant rest the others. `OwnerInv`: the code under way holds its slot, and
leaves a run active only where a save raised. `CoverInv`: what each stage stores is stamped
with the attempt under way. `LogInv`: what is logged, and what is still to be logged, fits the
row; `awaiting_human` is taken back (its event raised, `_execute` fails the run) only while the
log does not hold it. For the refinement, `VoteInv` says that no record the code still saves
comes from a decided row; then each step leaves what clients see of its run alone or is one step
of `RunLifecycle`. A crash ends the stretch of code that holds the loop, so it shows at most one
run (`LoopInv`), and a run seen as awaiting never goes back.

**RunAudit.** `AuditsTellTruth`, in `MultiAgentRuns_proof`. `TrailOf` counts: while the code is at a label
of the pipeline, what is logged of the run together with what is still to be logged tells each stage as
often as the label and the attempt under way ask for; so `LogEvent` changes nothing, and an event that is
lost takes the code to `fail` or ends it. A log that has `awaiting_human` therefore has lost nothing
before, and it keeps its counts, since only a decision is logged after it. `EndOf` follows the decision
through its two events: the final event is logged only after `human_decision`, and as the last.

**TripService.** `TypeCorrect`, `DatesStayInside`, `NothingIsOrphaned`, `EveryStayReads`, and their
conjunction `TripsStaySound`. The argument is that the database's transactions keep `StoreInv`
(keys, windows, existing trips) whatever they are called with (`StoreStep`), and that the
backend touches the tables only through them; so no assumption on what a request read is
needed, which is why any number of stale requests is harmless. `EveryStayReads` is the
exception: the order of times is checked by the backend only, and `RequestInv` carries the fact
with the request from the check to the write.

**PlannerApproval.** `TypeCorrect`, `OnlyApprovedIsAdded`, `ItemsAreSentOnce`, `ApprovalsWereShown`,
their conjunction `AdditionsAreDecided`, and `ReplacedOnce`, for any number of people, runs, cards
and late calls. The invariant has three parts. `ReviewInv`: a decision under way, in a request or
in `mail`, is about a run that has been presented, whose result no longer changes, and keeps only
what was shown; so it does not matter when it arrives. `SaveInv`: a run is closed by exactly one
decision, so at most one request saves for it, only cards that decision approved, and each card
still left has not been sent. `ReplaceInv`: for each rejected run there is a replacement, or at
most one call about to make it, in a request or in `mail`.

**ToolLoop.** `TypeCorrect`, `UncertainIsLast`, `CallsAreBounded`, `WritesAreSentOnce`, `TraceIsComplete`
and `CallsAreAccounted`, for every caller, and each says what the trip assistant's second ask costs: a
write of its first run that came back as an error may be sent again, and is no longer in the trace.
`RunInv` ties what the loop remembers to its trace: exactly the calls in `executed` are traced with
a status other than `rejected`. `CallerInv` ties it to the MCP server: what was received was sent
by the run under way, or, for the trip assistant, by its first run and then answered by errors
alone. A new run forgets `executed`; the other callers lose nothing by it, because an empty trace
means that nothing was sent, and this is why the caller's condition matters.

**GroundedAnswers.** `NothingMadeUp`, `OutcomesAreKnown`, `EveryWriteIsTold`, and with
them `WritesAreToldTruly`, for any listings, tools and bounds, and for runs that break off anywhere. `CallInv` says
what is true of the call under way (a call that is served as refused changed nothing, one that is done did), so
also what may be said of it when the run ends before its answer: nothing, which is what the
errors `INVALID_OR_UNAVAILABLE_RESULT` and `RESULT_TOO_LARGE` have to be read as. `WriteInv` says
that every write made for the question is under way, in `made`, already told, or of student 1's first
attempt and then of unknown outcome: a second attempt is made only when no call
succeeded. `ShownInv` ties what is shown to what a tool or the store told.

**TripPicker.** `TicksAreTrue`, `TicksAreOfOneMoment`, `WritesAreShown` and with them `ListsAreTrue`,
for any trips, details, requests and writers. A list is put together from many reads, so its truth
is about a set of moments. `ReadInv` says, at each stage, that there is *one* moment in `moments`
at which every holder found held the listing, that whoever was not found did not hold it at some
moment, and that each row read was stored at some moment; a write starts a new history, so
that the list that answers it cannot be older than it.

**AgentReviews.** `AddedAsTicked` and `AnswersTellAll`, for any runs, people, listings and results.
`RunSound`: before its one decision a run has nothing on its trip, and from the moment it waits for it
its result is what was shown. `FormSound`: what a page sends was ticked in a result that cannot change
any more, so it does not matter how late it is read. `SaveSound` and `OneSaver`: one request adds for
a run; what it has not yet sent is on nobody's trip, and the rest it has told. What was approved is
what was ticked when both readings of the result are the same list: then the backend's numbers
are the server's places (`NumberIsPlace`). Otherwise they need not be, and item 7 below says what may
follow.

**BudgetStore, ExpenseStore.** Their types, `BudgetsAreSound` and `AppliedAsApproved`, the conjunction
with the expenses `BooksAreSound`, and the action properties `RowsMoveOnRequest` and
`TablesMoveOnRequest`. That stored budgets fit needs no fact about what a request read: each row a
request carries to its write was validated as a whole (`RequestsFit`). That a decision is
written once (`AppliedOnce`) rests on the server, which carries out one decision of a run, and on
the request that made it, which is the only one on its way. Of an expense `BasisSound` says that it
lies in the window it was checked with, and of a request that its row lies in the window it carries.

**RagIndex.** `IndexIsSound` and the refinement `ImplementsCorpus`, for any sources, manifests, models and
dimensions and any number of ingests and queries. `RowSound` ties a build to the sources: what was
read and what is left make up a manifest, each source once, and every chunk, taken over or new, is of a
document that was read and has the model and dimension of the build. Then only the replacement
of the file publishes, and it publishes a whole corpus; a query takes its sections from one.

**StayCatalogue.** `StaysAreTrue` and the action property `OnlySentColumnsChange`. `JobSound`: as long as
nobody else wrote its row, what an edit has read is what is stored, and after its commit the row has
all that it sent. `SearchSound`: while nobody writes, the total is that of the rows that fit, and
the page is the first of them; that it is as long as it should be is `FirstSize`, by induction on the number
of rows.

**TripCosts.** `SummaryIsTrue`. `during` is a history of the reading, and `NowSeen` says that it
covers the present. `WorkSound`: the pins still to be priced and the costs counted so far make up all
that was pinned when the provider looked, so nothing that stayed is missing, and each amount is a price
of its time. Others' changes only extend the history (`LaterSound`).

**ActivityCatalogue.** `CatalogueIsSound` and the action property `RowsAreKept`. An alias is of a
sample; a request that has looked a row up has looked at one that was there, and what it merges is readable
when it is what is still stored (`MergedAlone`). The migration moves each row to the sample it is an
alias of or leaves it (`MovedTo`, `MigrateLeaves`).

**CatalogueSearch.** `SearchesStayExact`, for any prices, names, ids and times. A number's digits, cut off from
the right, are its parts (`CutRule`): of two numbers the smaller has fewer digits (`FewerDigits`), or as many and
a smaller one where they first differ (`DigitsOrder`, from `CutOrder`), which is how text of one length
compares (`TextOrder`) and how the keys of a sort do (`PriceKeysOrder`). Keys that differ somewhere decide
(`KeysDecide`), and those of two rows differ at the latest in the id (`KeysDiffer`). What fits in a window can start
as late as the window and the schedule do (`WindowsFit`). That every stored row has a price, a duration and a
name to sort by, also one that two replaces merged, is kept by every step (`RowsFit`). The text is a
sequence of digits by place, and `TenTo`, a recursive function, gets its value by the induction below (`TenToExists`).

**SharedReference, PlaceNames.** `ReferenceIsTrue` and `PlacesStayTrue`, for any creators, searches, names
and page sizes. Rows are only added, so what a create has found stays found (`CreateSound`); what it has
*not* found may be there by the time it inserts, and then the table's keys refuse it and it looks again. For
the cache, `Rank` counts the rows of a kind before a row: an insert only moves a row to a later page, so
a load that has read *n* rows holds every row that was there when the request began and has fewer than *n*
before it now (`Gathered`); with as many rows as were counted, that is all of them. A page is known by
ranks alone (`OrderFacts`): the ranks of *n* rows are *n* different numbers below *n*, so each is taken.
`torn` marks the one way to lose a row, an insert between the count and the rows of one answer.

**AgentPages.** `OffersAreOpen` and the action property `SilenceIsExplained`. `OfferInv`: while a page
shows a run as waiting and it is decided, somebody else decided it; the user's own decision leads, whatever
answer it gets, to another read of the run before the page is shown again.

**AgenticLoop.** `FailuresStayTold`, for any registry and any services validated. A plan fits
(`PlanFits`) when every item comes after one that it is gated by, and after ones that save what it needs,
all of them of kinds that are always answered (`LinkedAfter`); where nothing is linked so, an item whose gate
is shut is dropped without a row. Plans that fit, put one after another, fit (`JoinedLinked`),
hence, by induction over the registry, so does the plan of every mode (`EveryPlanFits`). Of a run
`LoopInv` says what its rows tell of the part of the plan already passed: each item has its row there or a failure, or a
service that was not started, has one (`PassedInv`). So a gate that is shut has its cause above
(`ShutHasCause`), and a READY run, without failures, has a row for every item of its plan.

**TripSuggestions.** `SuggestionsStaySound`, for any entries that the stores' schemas let pass
(`EntryFits`), each with an id of its own in its kind. The sort keys of a kind order its entries strictly
(`RelevanceOrders`), so ranks are again different numbers and each is taken (`RanksAreTaken`): a cap keeps the
most relevant (`MostRelevantFacts`). The order in which a prompt is cut has the records of a kind side by side, the
least relevant first (`Together`, `DropOrderFacts`), so however many rounds it takes to fit, what is left
of a kind are its first records, and what went is counted (`CutTells`). A moment that a journey
takes lies in one of its windows (`WindowsCover`, by cases of the two local days). `SuggestInv` carries the rest through
the reads: whatever has been there all the while is seen, and blocks and prompt are made of what was seen.

**WebPages.** `PagesStayTrue`, for any route tables that fit (`RoutesFit`): a handler draws the form
again around what was typed or is named in `BareAnswers`, redirects to a page that only reads, and what it read before its write
and the write changes, it reads again, here or on the page it lands on, unless the write's own
answer brings it. TLC evaluates that for the tables of the five sites (`PageTablesFit` in `MCParts`), so
what the theorem leaves to look at in a new route is its record. `Fresh` is what carries it: after a write
whatever was seen before it is still to be read (`Awaited`), or a read of it has failed and the page says
so (`unread`). `Stamped` has each thing carry the number of its last change, so what a read sees later
can only be newer; `Truthful` counts what the write has made, and what may yet be made.

**TransportSeats.** The types, `SeatsAreSound`, `PinsNameOptionsAlone` and `SelectionsFitAlone`, for any
finitely many trips and clients. Requests check the seats left and select later, so the limit itself
does not hold; how far it can be exceeded does. `OwnInv` finds for each option an *owner* of
each trip that holds it, the client whose request selected it: what one client's trips take fits the option,
because its requests follow each other and each counts its other trips before it selects. So the
whole is at most that many times the clients. For requests that nobody else's overlap (`AloneInv`), what a
request has counted is what is stored.

**Induction.** The library's induction theorems take an operator as a parameter, which the installed
provers cannot instantiate. What is proved by induction here goes over a *set* of numbers instead: it has a
least member (`Least`, from `Nat`'s well-foundedness), so a set that contains 0 and the successor of
each of its members is all of `Nat` (`Induction`). That `EachOf`, a recursive function, has a
value is shown the same way (`UpToExists`). The sums of `TransportSeats` are the community
modules' `SumFunction`: that the recursion it is defined by has a solution is shown first (`SumExists`), then
that it adds up, by induction on the number of members (`SumsAdd`, `SumGrows`, `SumOfOwners`).

**Only model-checked.** Liveness (`RunsSettle`, `RunEnds`), which is beyond the prover. Every other
property of a passing run is stated by a theorem.

## 5. Where the code and its documents disagree

Shown by a run:

1. `shrink`: PATCH of a trip checks items and activities but not stays
   (`student-1/backend/backend_service/service.py:671`), so a stay is left outside its trip;
   `trip_rules.py:72-73` says nothing may.
2. `mixed`: of two overlapping replaces of one activity the second adds its columns to the first
   one's schedules (`student-4/database/student4_database_service/repository.py:151`). The row that
   results breaks rules that span both; no listing that includes it can be answered, and the
   service does not start again, since seeding reads all rows (`seed_data.py:391`).

Met while modelling, and stated in the models (each is what a property excepts or a
bound allows):

3. The run row and its audit event are two commits, so a crash leaves a settled run whose history
   does not tell how it settled; `workflow.py:14-16` says every transition is written to the
   log. `AuditFailsForCause` names the two events whose loss fails an audit.
4. The 366-day limit of a trip is checked against the window read before the write; two PATCHes of
   its two ends pass it together.
5. "An option a trip still holds returns 409" does not hold for a selection under way; it holds,
   as `PinsNameOptionsAlone` says, while requests come one at a time.
6. Student 1's assistant asks AI-Mode again after a run whose only calls ended in an error
   (`service.py:576-592`), which may conceal a write; `ai-services/ai-mode/README.md:15` forbids clients to
   retry a run that has executed tools. The write may then be sent twice (`WritesSentOnce`), and
   the first is missing from the trace (`TraceTellsCalls`) and from `write_tools_called` (student 1's
   backend README:248; `WritesAreTold`). Students 1 and 3 also drop the partial trace of a run that
   ended in an error; 2 and 4 show it. What they show of a call that the run broke off in
   (`agent.py:84-100`, `:332-357`) is an error that does not say that the write may be made, though an
   ambiguous outcome should read `WRITE_OUTCOME_UNKNOWN`
   (`docs/architecture/release-1-ai-rag-mcp-flow.md:191-193`): the exceptions in `OutcomeIsKnown`.
7. `TickedOnly` holds of the page, and of results that both sides read alike. A caller of the public
   review route may approve what no box offered. The backends tick a list without the items that lack a reason
   (`student-2` `agent_runs.py:193-202`, `student-3` `agent_runs.py:268-277`), the server counts every item
   (`workflow.py:560-565`), and only up to its limit: with such a result a partial approval approves
   other items than were ticked, and may add one that had no box, against
   `student-2/docs/frontend-service.md:318-319`. What is not grounded is still never added. A
   listing written in two cases is pinned twice, which overwrites the pin with itself
   (`student-2` `agent_runs.py:319-328`).
8. Suggestions (student 1): the 422 for a prompt that cannot fit may come on the second
   attempt, after AI-Mode was called once. Journeys beyond the cap, ranked by status and not by
   date, are not held against a draft; a journey that arrives, in local time, before it
   departs blocks time before its departure.
9. Costs (student 5): a deleted listing that is still pinned makes its provider unavailable, even
   when the plan is cancelled; a product of weight and price may combine two moments; the analysis
   reads the expenses a second time.
10. Stays (student 2): an edit of the country alone leaves another country's city in the row, and two
    overlapping edits of the place may leave half of each; `PlaceIsOne` excepts both. An edit
    equal to what it read writes nothing, so a concurrent write wins though it was answered 200. Two
    deletes both answer 204. Empty room details hide a stay from searches that mention rooms.
    A 503 may follow a stored edit, when the shared service cannot name its place.
11. Seeds: an emptied catalogue of stays gets its samples again, and a sample activity that a
    client deleted comes back at the next start ("Permanently deletes").
12. Time limits: outer waits shorter than what they wait for, by the defaults of configuration: the
    suggestions (120 s against 180), student 2's question (100 against 180), student 5's analysis (two
    of 180 within 230), RAG (90 + 90 within 130), Reviewer (60 against 90), AI-Mode's wait for a tool (15 against 30). A wait given up is `mail`, `GivesUp`,
    `late` in the models: the other side goes on.
13. Loop: `observe_nfr` does not catch a failing sample; cloud mode reads the newest workflow run
    twice; a run in which everything was skipped exits 0; MCP mode goes on when the tool list
    differs.
14. RAG: after a rebuild with a model whose vectors changed dimension, a query that embedded before
    it fails (`index.py:334`); it never mixes the two.
15. Multi-Agent Server: "never repeat an attempt that may have changed data" (`workflow.py:297`)
    holds of writes it knows of. An error page or an unreadable answer in place of AI-Mode's is
    `BAD_GATEWAY` without tools (`ai_mode_client.py:54-56`, `:128-151`), and the attempt is repeated
    (`workflow.py:372-377`): `untold` in `WritesEndTheRun`. Student 5 would also ask again, whatever tools
    ran, after an answer of another shape (`ai_mode_client.py:62-65`, retryable by `errors.py:12`); AI-Mode sends none.
16. Expenses: `student-5/docs/budget-rules.md:35-38` has a date lie within the trip, student 1 being
    reachable. Student 1 moves and deletes trips without a look at expenses, and two requests may
    combine a trip and a date that were never checked together: `StraysAreExcused` says what is
    left.
17. Pages: student 4's picker loses the date and time typed into it when they cannot be saved
    (`app.py:416-422`, `itinerary_picker.html:7-10`): `BareAnswers`.
18. Tick-lists: an error is answered though the pin was made. A budget page's Edit link names a path
    with no GET route (`budget_detail.html:4`), and deleting a budget or an expense there is
    unguarded against a failed call; student 3's review with an invalid decision reads the run
    unguarded: `WebPages` ends these visits with `crash`. Panels of students 4 and 5 stop polling
    after one failed poll, student 3's after one that is not transient. Create with an id left
    blank, sent twice, creates twice; forms are not guarded against a stale edit.
19. Shared: `_paginate` counts and windows in two statements, so a page may be torn
    (`torn` in `PlaceNames`); 201 may be answered to a caller whose row another inserted. The first
    creates of a country, a city or a currency race, and the loser is answered 500
    (`AnswersAreTrue` says when): `shared/docs/object-model.md:101-103` has "no race to lose", and
    `database-service-api.md:275` and `:629-631` an answer rather than a 500.

Not covered by a property: what a trip holds is read before a planner's decision and used after it
(`planner_review.py:135`), by design of `Preflight`; a GET of a trip is several queries
(`service.py:385`, `:665`, `:680`), which store nothing; an update may be answered with an
error after its write.

## 6. Not modelled

- Student 4's catalogue routes, student 2's knowledge and filter extraction: one call each between
  two translations; they store nothing, and what they show of tools is in `GroundedAnswers`.
- AI-Mode's catalogue discovery, embeddings and provider adapter; student 3's validation of
  routes and times and its recommendations; student 1's seeding and markers; read-only handlers
  and enrichment.
- What pages look like, and how form fields become a request's body.
- Prompt texts, schemas, scores and the wording of answers: represented by their outcome.
- Scripts of CI, deployment and security: sequential, over files and external tools. Generated
  documents have no behaviour.

## 7. Plan

Done: the run lifecycle, the Multi-Agent Server and the audit of its runs; the trip store and its
backend, suggestions, tick-lists and costs; seats; the Smart Planner and the other reviewed
runs; AI-Mode's loop, the MCP tools and the assistants; budgets and expenses; the catalogues
of stays and activities; shared reference data; the RAG index; the frontends; the validation
loop; and the proofs of section 4.

Left are the liveness properties (`RunsSettle`, `RunEnds`), which TLC checks: the installed provers reach
neither fairness nor ENABLED.
