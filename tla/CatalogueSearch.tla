---------------------------- MODULE CatalogueSearch ----------------------------
(***************************************************************************)
(* The catalogue's search clauses that are not a plain comparison: prices    *)
(* kept as text, and the window of time an activity has to fit in.           *)
(***************************************************************************)
EXTENDS ActivityCatalogue, Integers

CONSTANTS Prices,  \* in cents
          Hours,   \* bound on the times a query asks about
          Alphabet \* the order of names and of ids

\* Prices are amounts, an activity lasts some time, and names and ids have an order.
Ordered == {Alphabet[i] : i \in DOMAIN Alphabet}
ASSUME SearchAssumption ==
  /\ Prices \subseteq Nat /\ Hours \in Nat
  /\ DOMAIN Alphabet \subseteq Nat /\ ActivityIds \subseteq Ordered
  /\ \A body \in Payloads \cup {SamplePayload[m] : m \in Samples} :
       body.price \in Nat /\ body.lasts \in Nat /\ body.name \in Ordered

SlotStart == [short |-> 1, long |-> 1]
SlotEnd == [s \in Slots |-> SlotStart[s] + SlotLength[s]]

\* The text of a price, leaving the point out: its digits, two of them decimals.
TenTo[n \in Nat] == IF n = 0 THEN 1 ELSE 10 * TenTo[n - 1]
Digits(n) == CHOOSE k \in 1..n + 1 : n < TenTo[k] /\ (k = 1 \/ n >= TenTo[k - 1])
WholeDigits(p) == Digits(p \div 100)
PriceText(p) == LET size == WholeDigits(p) + 2
                IN  [i \in 1..size |-> (p \div TenTo[size - i]) % 10]

\* SQLite compares text from the left; a prefix is smaller.
TextAtLeast(a, b) ==
  \/ \E i \in DOMAIN a \cap DOMAIN b : a[i] > b[i] /\ \A j \in 1..(i - 1) : a[j] = b[j]
  \/ Len(a) >= Len(b) /\ \A j \in DOMAIN b : a[j] = b[j]

\* Mutant: prices are compared as text alone.
PriceAtLeast_Text(stored, wanted) == TextAtLeast(PriceText(stored), PriceText(wanted))

\* _price_at_least, _price_at_most
PriceAtLeast(stored, wanted) ==
  \/ WholeDigits(stored) > WholeDigits(wanted)
  \/ /\ WholeDigits(stored) = WholeDigits(wanted)
     /\ TextAtLeast(PriceText(stored), PriceText(wanted))
PriceAtMost(stored, wanted) ==
  \/ WholeDigits(stored) < WholeDigits(wanted)
  \/ /\ WholeDigits(stored) = WholeDigits(wanted)
     /\ TextAtLeast(PriceText(wanted), PriceText(stored))

\* Mutant: the activity may start too late for its schedule.
AvailableIn_LateStart(row, from, to) ==
  \E s \in SlotsOf(row) : /\ from + row.lasts <= to
                          /\ SlotStart[s] + row.lasts <= to

\* _availability_clause, with a window.
AvailableIn(row, from, to) ==
  \E s \in SlotsOf(row) : /\ from + row.lasts <= to
                          /\ SlotStart[s] + row.lasts <= to
                          /\ from + row.lasts <= SlotEnd[s]

Rank(name) == CHOOSE i \in DOMAIN Alphabet : Alphabet[i] = name
Sorts == {"name", "cheapest", "dearest", "shortest", "longest"}
Downwards(keys) == [i \in DOMAIN keys |-> 99 - keys[i]]
PriceKeys(p) == <<WholeDigits(p)>> \o PriceText(p)

\* Mutant: rows that a sort finds equal come in any order.
SortKeys_NoTie(sort, row, id) ==
  CASE sort = "name" -> <<Rank(row.name)>>
    [] sort = "cheapest" -> PriceKeys(row.price) \o <<Rank(row.name)>>
    [] sort = "dearest" -> Downwards(PriceKeys(row.price)) \o <<Rank(row.name)>>
    [] sort = "shortest" -> <<row.lasts>> \o <<Rank(row.name)>>
    [] sort = "longest" -> Downwards(<<row.lasts>>) \o <<Rank(row.name)>>

\* _apply_order: prices by where the point is, then as text; every sort ends with
\* the name and the id.
SortKeys(sort, row, id) ==
  LET tie == <<Rank(row.name), Rank(id)>> IN
  CASE sort = "name" -> tie
    [] sort = "cheapest" -> PriceKeys(row.price) \o tie
    [] sort = "dearest" -> Downwards(PriceKeys(row.price)) \o tie
    [] sort = "shortest" -> <<row.lasts>> \o tie
    [] sort = "longest" -> Downwards(<<row.lasts>>) \o tie
Precedes(k, l) == \E i \in DOMAIN k \cap DOMAIN l :
                    k[i] < l[i] /\ \A j \in 1..(i - 1) : k[j] = l[j]

-----------------------------------------------------------------------------
\* "preserving exact order without a floating-point conversion"
\* (docs/database-service-api.md:44): the text clauses order prices as numbers.
PriceOrderIsExact ==
  \A id \in ActivityIds : Stored(id) => \A q \in Prices :
    /\ PriceAtLeast(acts[id].price, q) <=> acts[id].price >= q
    /\ PriceAtMost(acts[id].price, q) <=> acts[id].price <= q

\* The availability clause finds an activity exactly when it can be started and
\* finished within both a schedule and the window asked for; it relies on what
\* the validators keep true of every schedule.
SearchFindsWhatFits ==
  \A id \in ActivityIds : Stored(id) /\ Readable(acts[id]) =>
    \A from, to \in 0..Hours : from < to =>
      (AvailableIn(acts[id], from, to)
         <=> \E s \in SlotsOf(acts[id]), t \in from..to :
               /\ t >= SlotStart[s] /\ t + acts[id].lasts <= to
               /\ t + acts[id].lasts <= SlotEnd[s])

\* limit and offset cut the rows into pages call by call: every sort orders any two
\* activities one way only, so pages of a catalogue that does not change meanwhile
\* show each once; and text that starts with its length sorts prices as numbers.
PagesShowEachOnce ==
  \A a, b \in ActivityIds : a /= b /\ Stored(a) /\ Stored(b) =>
    /\ \A sort \in Sorts : LET k == SortKeys(sort, acts[a], a)
                               l == SortKeys(sort, acts[b], b)
                           IN  Precedes(k, l) <=> ~Precedes(l, k)
    /\ acts[a].price < acts[b].price =>
         /\ Precedes(SortKeys("cheapest", acts[a], a), SortKeys("cheapest", acts[b], b))
         /\ Precedes(SortKeys("dearest", acts[b], b), SortKeys("dearest", acts[a], a))

\* A search over prices kept as text, schedules and pages finds exactly what it should.
SearchesAreExact == PriceOrderIsExact /\ SearchFindsWhatFits /\ PagesShowEachOnce
=============================================================================
