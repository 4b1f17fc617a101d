---------------------------- MODULE SharedReference ----------------------------
(***************************************************************************)
(* The shared reference service: countries, cities and currencies that     *)
(* every other service names by id.  A row's id is a hash of its own name  *)
(* and its country's (ids.py), so here a row is known by its key; what a   *)
(* currency carries beside it (code, symbol, rate) is its `body`.          *)
(*                                                                         *)
(* The routes are synchronous and run in a thread pool, each with a        *)
(* session of its own.  A create is several reads and one insert, each     *)
(* statement seeing whatever has been committed by then; the insert and    *)
(* its commit are one step, since nothing reads between them and SQLite    *)
(* lets one writer in at a time.                                           *)
(***************************************************************************)
EXTENDS Integers, FiniteSets

CONSTANTS Creators,      \* callers of the three create routes
          Places,        \* names, already trimmed and lower-cased; ordered
          SeedCountries, \* the countries the service starts with
          AskedKeys,     \* bound: the rows that callers ask to create
          MaxRows        \* bound: the rows the three tables may hold

VARIABLES reference,  \* the committed rows
          creates     \* each caller's create request, under way or answered

RefVars == <<reference, creates>>

--------------------------------------------------------------------------------
(* Rows *)

Kinds == {"country", "city", "currency"}

\* A country is named by itself; a city and a currency within a country.
RefKey == {[kind |-> k, country |-> c, name |-> n] :
             k \in {"city", "currency"}, c \in Places, n \in Places}
          \cup {[kind |-> "country", country |-> c, name |-> c] : c \in Places}

\* What is kept of a row beside its key: which caller's values it holds.
RefBody == Creators \cup {"seed"}
RefRow == [key : RefKey, body : RefBody]

CountryKey(c) == [kind |-> "country", country |-> c, name |-> c]
CityKey(c, n) == [kind |-> "city", country |-> c, name |-> n]

KeysOf(rows) == {r.key : r \in rows}
Stored(key) == key \in KeysOf(reference)

\* The names are numbers in the place of trimmed strings, for their order alone.
ASSUME ReferenceAssumption ==
    /\ Places \subseteq Int
    /\ SeedCountries \subseteq Places /\ IsFiniteSet(SeedCountries)
    /\ AskedKeys \subseteq RefKey

\* CurrencyRepository.for_country: at most one row, by the constraint below.
CurrenciesOf(c) == {k \in KeysOf(reference) : k.kind = "currency" /\ k.country = c}

\* The unconstrained table, in which a country may come to spend two currencies.
Conflicts_KeyOnly(key) == Stored(key)

\* The primary keys, the unique names, and UNIQUE(currencies.country_id).
Conflicts(key) ==
    \/ Stored(key)
    \/ key.kind = "currency" /\ CurrenciesOf(key.country) # {}

SeedRows ==
    {[key |-> CountryKey(c), body |-> "seed"] : c \in SeedCountries}
    \cup {[key |-> CityKey(c, c), body |-> "seed"] : c \in SeedCountries}
    \cup {[key |-> [kind |-> "currency", country |-> c, name |-> c], body |-> "seed"] :
            c \in SeedCountries}

--------------------------------------------------------------------------------
(* A create request *)

CreateSteps == {"idle", "country", "currency", "flag", "look", "insert", "done"}
CreateAnswers == {"none", "created", "ok", "not found", "conflict", "error"}

NoKey == [kind |-> "none"]
NoCreate == [at |-> "idle", key |-> NoKey, created |-> FALSE, answer |-> "none", began |-> {}]

\* A country needs no other row; a city and a currency first look theirs up.
FirstStep(key) == IF key.kind = "country" THEN "flag" ELSE "country"

AskCreate(c, key) ==
    /\ creates[c].at \in {"idle", "done"}
    /\ Cardinality(reference) < MaxRows
    /\ creates' = [creates EXCEPT ![c] =
         [at |-> FirstStep(key), key |-> key, created |-> FALSE, answer |-> "none",
          began |-> KeysOf(reference)]]
    /\ UNCHANGED reference

Goes(c, step) == creates' = [creates EXCEPT ![c].at = step]
AnswersCreate(c, a) == creates' = [creates EXCEPT ![c].at = "done", ![c].answer = a]

\* get_or_404(CountryRepository, country_id).
FindsCountry(c) ==
    /\ creates[c].at = "country"
    /\ IF Stored(CountryKey(creates[c].key.country))
         THEN Goes(c, IF creates[c].key.kind = "currency" THEN "currency" ELSE "flag")
         ELSE AnswersCreate(c, "not found")
    /\ UNCHANGED reference

\* The mutated route adds a currency without looking for another one first.
ChecksCurrency_None(c) ==
    /\ creates[c].at = "currency"
    /\ Goes(c, "flag")
    /\ UNCHANGED reference

\* create_currency refuses a second currency, by name.
ChecksCurrency(c) ==
    /\ creates[c].at = "currency"
    /\ IF CurrenciesOf(creates[c].key.country) \subseteq {creates[c].key}
         THEN Goes(c, "flag")
         ELSE AnswersCreate(c, "conflict")
    /\ UNCHANGED reference

\* `created = self.get(id) is None`: read on its own, before get_or_create reads.
ReadsFlag(c) ==
    /\ creates[c].at = "flag"
    /\ creates' = [creates EXCEPT ![c].at = "look",
                                  ![c].created = ~Stored(creates[c].key)]
    /\ UNCHANGED reference

\* A mutated service says that the row it found was updated.
Answered_Flag(c) == IF creates[c].created THEN "created" ELSE "updated"

Answered(c) == IF creates[c].created THEN "created" ELSE "ok"

\* get_or_create leaves the row it finds as it is.
LooksAgain(c) ==
    /\ creates[c].at = "look"
    /\ IF Stored(creates[c].key) THEN AnswersCreate(c, Answered(c)) ELSE Goes(c, "insert")
    /\ UNCHANGED reference

\* session.add, flush, commit; an integrity error leaves as a 500.
Inserts(c) ==
    /\ creates[c].at = "insert"
    /\ IF Conflicts(creates[c].key)
         THEN /\ AnswersCreate(c, "error")
              /\ UNCHANGED reference
         ELSE /\ AnswersCreate(c, Answered(c))
              /\ reference' = reference \cup {[key |-> creates[c].key, body |-> c]}

RefInit == /\ reference = SeedRows
           /\ creates = [c \in Creators |-> NoCreate]

RefNext == \E c \in Creators :
             \/ \E key \in AskedKeys : AskCreate(c, key)
             \/ FindsCountry(c)
             \/ ChecksCurrency(c)
             \/ ReadsFlag(c)
             \/ LooksAgain(c)
             \/ Inserts(c)

--------------------------------------------------------------------------------
(* Properties *)

\* Rows and requests are of their types.
RefTypeOK ==
    /\ reference \subseteq RefRow
    /\ \A c \in Creators :
         /\ creates[c].at \in CreateSteps
         /\ creates[c].key \in RefKey \cup {NoKey}
         /\ creates[c].created \in BOOLEAN
         /\ creates[c].answer \in CreateAnswers
         /\ creates[c].began \subseteq RefKey

\* Whatever two callers do to one row at once, there is one row under a key, and no
\* city or currency is ever without its country.
RowsAreWhole ==
    \A r \in reference : /\ Cardinality({q \in reference : q.key = r.key}) = 1
                         /\ CountryKey(r.key.country) \in KeysOf(reference)

\* "One country, one currency" however many callers race to give it one.
OneCurrencyEach ==
    \A c \in Places : Cardinality(CurrenciesOf(c)) <= 1

\* What an answer says is so: 201 and 200 name a row that is there (and a 201 one
\* that was missing when its call began), 409 that the country spends another
\* currency.  object-model.md promises no race to lose and the API document no 500,
\* but the insert of a country, a city or a currency does lose one: then the row in
\* its way was put there while the call was under way and stays, so that the same
\* call again is answered with it, or with 409.
AnswersAreTrue ==
    \A c \in Creators : creates[c].at = "done" =>
      LET key == creates[c].key
          began == creates[c].began
      IN  CASE creates[c].answer = "created" -> Stored(key) /\ key \notin began
            [] creates[c].answer = "ok" -> Stored(key)
            [] creates[c].answer = "conflict" -> CurrenciesOf(key.country) \ {key} # {}
            [] creates[c].answer = "not found" -> CountryKey(key.country) \notin began
            [] creates[c].answer = "error" ->
                 /\ key \notin began
                 /\ Stored(key) \/ (key.kind = "currency" /\ CurrenciesOf(key.country) # {})
                 /\ key.kind = "currency" => {k \in began : k.kind = "currency"
                                                           /\ k.country = key.country} = {}
            [] OTHER -> FALSE
================================================================================
