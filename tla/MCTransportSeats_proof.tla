------------------------ MODULE MCTransportSeats_proof ------------------------
(***************************************************************************)
(* TLAPS proofs about TransportSeats, for any trips, options, clients and  *)
(* bounds: how far selections can oversell an option, and what holds while *)
(* requests come one at a time.                                            *)
(***************************************************************************)
EXTENDS MCTransportSeats, FiniteSetTheorems, NaturalsInduction, TLAPS

-----------------------------------------------------------------------------
(* Sums                                                                    *)

LEMMA Induction ==
  ASSUME NEW T \in SUBSET Nat, 0 \in T, \A n \in T : n+1 \in T
  PROVE  T = Nat
<1> DEFINE Below == {p \in Nat \X Nat : p[1] < p[2]}
<1> SUFFICES ASSUME Nat \ T /= {} PROVE FALSE
  OBVIOUS
<1>1. IsWellFoundedOn(Below, Nat)
  BY NatLessThanWellFounded DEF OpToRel
<1>2. PICK n \in Nat \ T : \A m \in Nat \ T : <<m, n>> \notin Below
  <2> HIDE DEF Below
  <2> QED
    BY <1>1, WFMin
<1>3. n /= 0 /\ n - 1 \in Nat \ T
  BY <1>2
<1>4. <<n - 1, n>> \in Below
  <2>1. <<n - 1, n>> \in Nat \X Nat /\ <<n - 1, n>>[1] = n - 1 /\ <<n - 1, n>>[2] = n
    BY <1>3
  <2>2. <<n - 1, n>>[1] < <<n - 1, n>>[2]
    BY <2>1
  <2> QED
    BY <2>1, <2>2, Zenon
<1> QED
  BY <1>2, <1>3, <1>4

\* The recursion that the community modules sum by: one chosen member, and the rest.
Chosen(s) == CHOOSE x \in s : TRUE
SumRule(f, sum) ==
  sum = [s \in SUBSET DOMAIN f |-> IF s = {} THEN 0 ELSE f[Chosen(s)] + sum[s \ {Chosen(s)}]]
Partial(f) == CHOOSE sum : SumRule(f, sum)

LEMMA SumUnfolds == \A f : SumFunction(f) = Partial(f)[DOMAIN f]
BY Zenon DEF SumFunction, SumFunctionOnSet, FoldFunctionOnSet, MapThenFoldSet, Partial, SumRule, Chosen

LEMMA ChosenFacts == \A s : s /= {} => Chosen(s) \in s
BY DEF Chosen

\* The parts of a finite set that have at most n members.
UpTo(S, n) == {s \in SUBSET S : Cardinality(s) <= n}

LEMMA PartFacts ==
  ASSUME NEW S, IsFiniteSet(S), NEW s \in SUBSET S
  PROVE  /\ IsFiniteSet(s) /\ Cardinality(s) \in Nat
         /\ Cardinality(s) = 0 <=> s = {}
         /\ s /= {} => /\ Chosen(s) \in s /\ s \ {Chosen(s)} \in SUBSET S
                       /\ Cardinality(s \ {Chosen(s)}) = Cardinality(s) - 1
                       /\ Cardinality(s) >= 1
<1>1. IsFiniteSet(s)
  BY FS_Subset
<1>2. Cardinality(s) \in Nat /\ (Cardinality(s) = 0 <=> s = {})
  BY <1>1, FS_CardinalityType, FS_EmptySet
<1>3. CASE s /= {}
  <2>1. Chosen(s) \in s
    BY <1>3, ChosenFacts
  <2>2. Cardinality(s \ {Chosen(s)}) = Cardinality(s) - 1
    BY <1>1, <2>1, FS_RemoveElement
  <2> QED
    BY <1>1, <1>2, <1>3, <2>1, <2>2
<1> QED
  BY <1>1, <1>2, <1>3

\* There is a function that follows the rule: built up by the number of members.
LEMMA SumExists ==
  ASSUME NEW S, IsFiniteSet(S), NEW f \in [S -> Nat]
  PROVE  \E sum \in [SUBSET S -> Nat] : SumRule(f, sum)
<1> DEFINE Follows(sum, n) == \A s \in UpTo(S, n) :
                 sum[s] = IF s = {} THEN 0 ELSE f[Chosen(s)] + sum[s \ {Chosen(s)}]
           T == {n \in Nat : \E sum \in [SUBSET S -> Nat] : Follows(sum, n)}
<1>1. 0 \in T
  <2>1. ASSUME NEW s \in UpTo(S, 0) PROVE s = {}
    <3>1. s \in SUBSET S /\ Cardinality(s) <= 0
      BY DEF UpTo
    <3>2. Cardinality(s) \in Nat /\ (Cardinality(s) = 0 <=> s = {})
      BY <3>1, PartFacts
    <3> QED
      BY <3>1, <3>2
  <2>2. [s \in SUBSET S |-> 0] \in [SUBSET S -> Nat] /\ Follows([s \in SUBSET S |-> 0], 0)
    BY <2>1 DEF UpTo
  <2> QED
    BY <2>2
<1>2. ASSUME NEW n \in T PROVE n + 1 \in T
  <2>1. PICK sum \in [SUBSET S -> Nat] : Follows(sum, n)
    OBVIOUS
  <2> DEFINE next == [s \in SUBSET S |-> IF s = {} THEN 0 ELSE f[Chosen(s)] + sum[s \ {Chosen(s)}]]
  <2>2. next \in [SUBSET S -> Nat]
    <3>1. ASSUME NEW s \in SUBSET S, s /= {}
          PROVE  f[Chosen(s)] \in Nat /\ sum[s \ {Chosen(s)}] \in Nat
      <4>1. Chosen(s) \in S /\ s \ {Chosen(s)} \in SUBSET S
        BY <3>1, PartFacts
      <4> QED
        BY <4>1
    <3> QED
      BY <3>1
  <2>3. \A s \in UpTo(S, n) : next[s] = sum[s]
    BY <2>1 DEF UpTo
  <2>4. ASSUME NEW s \in UpTo(S, n + 1)
        PROVE  next[s] = IF s = {} THEN 0 ELSE f[Chosen(s)] + next[s \ {Chosen(s)}]
    <3>1. s \in SUBSET S /\ Cardinality(s) <= n + 1
      BY DEF UpTo
    <3>2. s /= {} => s \ {Chosen(s)} \in UpTo(S, n)
      BY <3>1, PartFacts DEF UpTo
    <3> QED
      BY <2>3, <3>1, <3>2
  <2>5. Follows(next, n + 1)
    BY <2>4
  <2>6. \E g \in [SUBSET S -> Nat] : Follows(g, n + 1)
    <3> HIDE DEF next, Follows
    <3> QED
      BY <2>2, <2>5
  <2>7. n + 1 \in Nat
    OBVIOUS
  <2> HIDE DEF Follows
  <2> QED
    BY <2>6, <2>7
<1>3. Cardinality(S) \in T
  <2>1. T = Nat
    BY <1>1, <1>2, Induction
  <2> QED
    BY <2>1, FS_CardinalityType
<1>4. PICK sum \in [SUBSET S -> Nat] : Follows(sum, Cardinality(S))
  BY <1>3
<1>5. UpTo(S, Cardinality(S)) = SUBSET S
  BY FS_Subset, FS_CardinalityType DEF UpTo
<1>6. sum = [s \in SUBSET S |-> IF s = {} THEN 0 ELSE f[Chosen(s)] + sum[s \ {Chosen(s)}]]
  BY <1>4, <1>5
<1> QED
  BY <1>6 DEF SumRule

\* What is used of it.
AddsUp(f, S) ==
  /\ Partial(f)[{}] = 0
  /\ \A s \in SUBSET S : s /= {} => Partial(f)[s] = f[Chosen(s)] + Partial(f)[s \ {Chosen(s)}]
  /\ SumFunction(f) = Partial(f)[S]

LEMMA PartialFacts ==
  ASSUME NEW S, IsFiniteSet(S), NEW f \in [S -> Nat]
  PROVE  AddsUp(f, S)
<1>1. SumRule(f, Partial(f))
  BY SumExists DEF Partial
<1>2. Partial(f) = [s \in SUBSET S |-> IF s = {} THEN 0
                                       ELSE f[Chosen(s)] + Partial(f)[s \ {Chosen(s)}]]
  BY <1>1 DEF SumRule
<1> QED
  BY <1>2, SumUnfolds DEF AddsUp

\* Sums are numbers, and what is at most two others everywhere sums to at most their sums.
LEMMA SumIsNumber ==
  ASSUME NEW S, IsFiniteSet(S), NEW f \in [S -> Nat]
  PROVE  \A s \in SUBSET S : Partial(f)[s] \in Nat
<1> DEFINE T == {n \in Nat : \A s \in SUBSET S : Cardinality(s) = n => Partial(f)[s] \in Nat}
<1>1. 0 \in T
  <2>1. \A s \in SUBSET S : Cardinality(s) = 0 => s = {}
    BY PartFacts
  <2>2. Partial(f)[{}] = 0
    BY PartialFacts DEF AddsUp
  <2> QED
    BY <2>1, <2>2
<1>2. ASSUME NEW n \in T PROVE n + 1 \in T
  <2>1. ASSUME NEW s \in SUBSET S, Cardinality(s) = n + 1 PROVE Partial(f)[s] \in Nat
    <3>1. s /= {} /\ Chosen(s) \in s /\ s \ {Chosen(s)} \in SUBSET S /\ Cardinality(s \ {Chosen(s)}) = n
      BY <2>1, PartFacts
    <3>2. Partial(f)[s] = f[Chosen(s)] + Partial(f)[s \ {Chosen(s)}]
      BY <3>1, PartialFacts DEF AddsUp
    <3>3. Partial(f)[s \ {Chosen(s)}] \in Nat
      BY <3>1
    <3> QED
      BY <3>1, <3>2, <3>3
  <2> QED
    BY <2>1
<1>3. T = Nat
  BY <1>1, <1>2, Induction
<1>4. \A s \in SUBSET S : Cardinality(s) \in Nat
  BY PartFacts
<1> QED
  BY <1>3, <1>4

LEMMA SumsAdd ==
  ASSUME NEW S, IsFiniteSet(S), NEW f \in [S -> Nat], NEW g \in [S -> Nat], NEW h \in [S -> Nat],
         \A x \in S : h[x] <= f[x] + g[x]
  PROVE  SumFunction(h) <= SumFunction(f) + SumFunction(g)
<1> DEFINE Holds(s) == Partial(h)[s] <= Partial(f)[s] + Partial(g)[s]
           T == {n \in Nat : \A s \in SUBSET S : Cardinality(s) = n => Holds(s)}
<1>1. AddsUp(f, S)
  BY PartialFacts
<1>2. AddsUp(g, S)
  BY PartialFacts
<1>3. AddsUp(h, S)
  BY PartialFacts
<1>4. 0 \in T
  <2>1. \A s \in SUBSET S : Cardinality(s) = 0 => s = {}
    BY PartFacts
  <2>2. Holds({})
    BY <1>1, <1>2, <1>3 DEF AddsUp
  <2> HIDE DEF Holds
  <2> QED
    BY <2>1, <2>2
<1>5. ASSUME NEW n \in T PROVE n + 1 \in T
  <2>1. ASSUME NEW s \in SUBSET S, Cardinality(s) = n + 1 PROVE Holds(s)
    <3> DEFINE x == Chosen(s)
               rest == s \ {Chosen(s)}
    <3>1. s /= {} /\ x \in S /\ rest \in SUBSET S /\ Cardinality(rest) = n
      BY <2>1, PartFacts
    <3>2. /\ Partial(f)[s] = f[x] + Partial(f)[rest]
          /\ Partial(g)[s] = g[x] + Partial(g)[rest]
          /\ Partial(h)[s] = h[x] + Partial(h)[rest]
      BY <3>1, <1>1, <1>2, <1>3 DEF AddsUp
    <3>3. Partial(f)[rest] \in Nat /\ Partial(g)[rest] \in Nat /\ Partial(h)[rest] \in Nat
      BY <3>1, SumIsNumber
    <3>4. Holds(rest)
      BY <3>1
    <3>5. f[x] \in Nat /\ g[x] \in Nat /\ h[x] \in Nat /\ h[x] <= f[x] + g[x]
      BY <3>1
    <3> HIDE DEF x, rest
    <3> QED
      BY <3>2, <3>3, <3>4, <3>5
  <2> HIDE DEF Holds
  <2> QED
    BY <2>1
<1>6. T = Nat
  BY <1>4, <1>5, Induction
<1>7. Holds(S)
  BY <1>6, FS_CardinalityType
<1> QED
  BY <1>7, <1>1, <1>2, <1>3 DEF AddsUp

\* One member alone sums to what it has.
LEMMA SumOfOne ==
  ASSUME NEW S, IsFiniteSet(S), NEW f \in [S -> Nat], NEW a, \A x \in S \ {a} : f[x] = 0, NEW v \in Nat,
         a \in S => f[a] <= v
  PROVE  SumFunction(f) \in Nat /\ SumFunction(f) <= v
<1> DEFINE Holds(s) == Partial(f)[s] <= (IF a \in s THEN v ELSE 0)
           T == {n \in Nat : \A s \in SUBSET S : Cardinality(s) = n => Holds(s)}
<1>1. 0 \in T
  <2>1. \A s \in SUBSET S : Cardinality(s) = 0 => s = {}
    BY PartFacts
  <2>2. Partial(f)[{}] = 0
    BY PartialFacts DEF AddsUp
  <2> QED
    BY <2>1, <2>2
<1>2. ASSUME NEW n \in T PROVE n + 1 \in T
  <2>1. ASSUME NEW s \in SUBSET S, Cardinality(s) = n + 1 PROVE Holds(s)
    <3> DEFINE x == Chosen(s)
               rest == s \ {Chosen(s)}
    <3>1. s /= {} /\ x \in s /\ rest \in SUBSET S /\ Cardinality(rest) = n
      BY <2>1, PartFacts
    <3>2. Partial(f)[s] = f[x] + Partial(f)[rest]
      BY <3>1, PartialFacts DEF AddsUp
    <3>3. Partial(f)[rest] \in Nat
      BY <3>1, SumIsNumber
    <3>4. Holds(rest)
      BY <3>1
    <3>5. CASE x = a
      <4>1. a \notin rest /\ a \in s /\ f[x] \in Nat /\ f[x] <= v
        BY <3>1, <3>5
      <4> HIDE DEF x, rest
      <4> QED
        BY <3>2, <3>3, <3>4, <4>1
    <3>6. CASE x /= a
      <4>1. f[x] = 0 /\ (a \in s <=> a \in rest)
        BY <3>1, <3>6
      <4> HIDE DEF x, rest
      <4> QED
        BY <3>2, <3>3, <3>4, <4>1
    <3> QED
      BY <3>5, <3>6
  <2> HIDE DEF Holds
  <2> QED
    BY <2>1
<1>3. T = Nat
  BY <1>1, <1>2, Induction
<1>4. Holds(S)
  BY <1>3, FS_CardinalityType
<1>5. SumFunction(f) = Partial(f)[S] /\ Partial(f)[S] \in Nat
  BY PartialFacts, SumIsNumber DEF AddsUp
<1> QED
  BY <1>4, <1>5

-----------------------------------------------------------------------------
(* Seats taken in a table of selections                                    *)

Tables == [Trips -> [Options -> Pin \cup {NoPin}]]
SeatsOf(table, o, some) == [t \in Trips |-> IF t \in some THEN Seats(table[t][o]) ELSE 0]
SumOf(table, o, some) == SumFunction(SeatsOf(table, o, some))

LEMMA SeatsTyped ==
  ASSUME NEW pin \in Pin \cup {NoPin}
  PROVE  Seats(pin) \in Nat /\ (pin \in Pin => pin /= NoPin /\ Seats(pin) <= pin.party /\ pin.party \in Nat)
         /\ (pin = NoPin => Seats(pin) = 0)
BY SeatsAssumption DEF Seats, Pin, NoPin

LEMMA SeatsOfTyped ==
  ASSUME NEW table \in Tables, NEW o \in Options, NEW some
  PROVE  SeatsOf(table, o, some) \in [Trips -> Nat] /\ SumOf(table, o, some) \in Nat
<1>1. \A t \in Trips : table[t][o] \in Pin \cup {NoPin}
  BY DEF Tables
<1>2. SeatsOf(table, o, some) \in [Trips -> Nat]
  BY <1>1, SeatsTyped DEF SeatsOf
<1>3. AddsUp(SeatsOf(table, o, some), Trips)
  BY <1>2, PartialFacts, SeatsAssumption
<1>4. \A s \in SUBSET Trips : Partial(SeatsOf(table, o, some))[s] \in Nat
  BY <1>2, SumIsNumber, SeatsAssumption
<1> QED
  BY <1>2, <1>3, <1>4 DEF SumOf, AddsUp

\* What one trip adds to other trips' seats.
LEMMA SumGrows ==
  ASSUME NEW before \in Tables, NEW after \in Tables, NEW o \in Options, NEW some, NEW more,
         NEW a, NEW v \in Nat,
         \A t \in Trips \ {a} : t \in more => t \in some /\ Seats(after[t][o]) <= Seats(before[t][o]),
         a \in Trips \cap more => \/ a \in some /\ Seats(after[a][o]) <= Seats(before[a][o]) + v
                                  \/ Seats(after[a][o]) <= v
  PROVE  SumOf(after, o, more) <= SumOf(before, o, some) + v
<1> DEFINE one == [t \in Trips |-> IF t = a THEN v ELSE 0]
           f == SeatsOf(before, o, some)
           h == SeatsOf(after, o, more)
<1>1. f \in [Trips -> Nat] /\ h \in [Trips -> Nat] /\ one \in [Trips -> Nat]
  BY SeatsOfTyped
<1>2. \A t \in Trips : Seats(before[t][o]) \in Nat /\ Seats(after[t][o]) \in Nat
  BY SeatsTyped DEF Tables
<1>3. \A t \in Trips : h[t] <= f[t] + one[t]
  BY <1>2 DEF SeatsOf
<1>4. SumFunction(one) \in Nat /\ SumFunction(one) <= v
  <2>1. \A t \in Trips \ {a} : one[t] = 0
    OBVIOUS
  <2>2. a \in Trips => one[a] <= v
    OBVIOUS
  <2> HIDE DEF one
  <2> QED
    BY <1>1, <2>1, <2>2, SumOfOne, SeatsAssumption
<1>5. SumFunction(h) <= SumFunction(f) + SumFunction(one)
  <2> HIDE DEF one, f, h
  <2> QED
    BY <1>1, <1>3, SumsAdd, SeatsAssumption
<1>6. SumOf(after, o, more) \in Nat /\ SumOf(before, o, some) \in Nat
  BY SeatsOfTyped
<1>7. SumOf(after, o, more) <= SumOf(before, o, some) + SumFunction(one)
  BY <1>5 DEF SumOf
<1> HIDE DEF one
<1> QED
  BY <1>4, <1>6, <1>7

\* Fewer trips, or fewer seats of each, are no more seats.
LEMMA SumShrinks ==
  ASSUME NEW before \in Tables, NEW after \in Tables, NEW o \in Options, NEW some, NEW more,
         \A t \in Trips : t \in more => t \in some /\ Seats(after[t][o]) <= Seats(before[t][o])
  PROVE  SumOf(after, o, more) <= SumOf(before, o, some)
<1> DEFINE nowhere == CHOOSE t : t \notin Trips
<1>1. SumOf(after, o, more) <= SumOf(before, o, some) + 0
  <2>1. ASSUME NEW a \in Trips PROVE Seats(after[a][o]) \in Nat /\ Seats(before[a][o]) \in Nat
    BY SeatsTyped DEF Tables
  <2>2. nowhere \notin Trips
    BY NoSetContainsEverything DEF nowhere
  <2> HIDE DEF nowhere
  <2> QED
    BY <2>1, <2>2, SumGrows
<1> QED
  BY <1>1, SeatsOfTyped

LEMMA SumOfNone ==
  ASSUME NEW table \in Tables, NEW o \in Options, NEW some,
         \A t \in Trips \cap some : Seats(table[t][o]) = 0
  PROVE  SumOf(table, o, some) <= 0
<1> DEFINE f == SeatsOf(table, o, some)
<1>1. f \in [Trips -> Nat] /\ \A t \in Trips : f[t] = 0
  BY SeatsOfTyped DEF SeatsOf
<1> HIDE DEF f
<1>2. SumFunction(f) <= 0
  <2>1. \A a : a \in Trips => f[a] <= 0
    BY <1>1
  <2>2. \A a : \A t \in Trips \ {a} : f[t] = 0
    BY <1>1
  <2> QED
    BY <1>1, <2>1, <2>2, SumOfOne, SeatsAssumption
<1> QED
  BY <1>2 DEF SumOf, f

LEMMA SumOfBoth ==
  ASSUME NEW table \in Tables, NEW o \in Options, NEW some, NEW others, NEW all,
         \A t \in Trips \cap all : t \in some \/ t \in others
  PROVE  SumOf(table, o, all) <= SumOf(table, o, some) + SumOf(table, o, others)
<1> DEFINE f == SeatsOf(table, o, some)
           g == SeatsOf(table, o, others)
           h == SeatsOf(table, o, all)
<1>1. f \in [Trips -> Nat] /\ g \in [Trips -> Nat] /\ h \in [Trips -> Nat]
  BY SeatsOfTyped
<1>2. \A t \in Trips : Seats(table[t][o]) \in Nat
  BY SeatsTyped DEF Tables
<1>3. \A t \in Trips : h[t] <= f[t] + g[t]
  BY <1>2 DEF SeatsOf
<1>4. SumFunction(h) <= SumFunction(f) + SumFunction(g)
  <2> HIDE DEF f, g, h
  <2> QED
    BY <1>1, <1>3, SumsAdd, SeatsAssumption
<1> QED
  BY <1>4 DEF SumOf

\* Trips that each belong to a client, each of which fills no more than an option.
LEMMA SumOfOwners ==
  ASSUME NEW table \in Tables, NEW o \in Options, NEW mine \in [Clients -> SUBSET Trips],
         \A d \in Clients : SumOf(table, o, mine[d]) <= MaxSeats
  PROVE  SumOf(table, o, UNION {mine[d] : d \in Clients}) <= Cardinality(Clients) * MaxSeats
<1> DEFINE Of(some) == UNION {mine[d] : d \in some}
           Bounded(some, n) == SumOf(table, o, Of(some)) <= n * MaxSeats
           T == {n \in Nat : \A some \in SUBSET Clients : Cardinality(some) = n => Bounded(some, n)}
<1>1. 0 \in T
  <2>1. ASSUME NEW some \in SUBSET Clients, Cardinality(some) = 0 PROVE Bounded(some, 0)
    <3>1. some = {}
      BY <2>1, PartFacts, SeatsAssumption
    <3>2. SumOf(table, o, Of(some)) <= 0
      BY <3>1, SumOfNone
    <3> QED
      BY <3>2, SeatsAssumption
  <2> HIDE DEF Bounded
  <2> QED
    BY <2>1
<1>2. ASSUME NEW n \in T PROVE n + 1 \in T
  <2>1. ASSUME NEW some \in SUBSET Clients, Cardinality(some) = n + 1 PROVE Bounded(some, n + 1)
    <3> DEFINE d == Chosen(some)
               rest == some \ {Chosen(some)}
    <3>1. d \in some /\ d \in Clients /\ rest \in SUBSET Clients /\ Cardinality(rest) = n
      BY <2>1, PartFacts, SeatsAssumption
    <3>2. \A t \in Of(some) : t \in Of(rest) \/ t \in mine[d]
      OBVIOUS
    <3>3. SumOf(table, o, Of(some)) <= SumOf(table, o, Of(rest)) + SumOf(table, o, mine[d])
      <4> HIDE DEF Of, rest, d
      <4> QED
        BY <3>2, SumOfBoth
    <3>4. SumOf(table, o, Of(rest)) <= n * MaxSeats
      BY <3>1
    <3>5. SumOf(table, o, mine[d]) <= MaxSeats
      BY <3>1
    <3>6. /\ SumOf(table, o, Of(some)) \in Nat /\ SumOf(table, o, Of(rest)) \in Nat
          /\ SumOf(table, o, mine[d]) \in Nat
      BY SeatsOfTyped
    <3>7. (n + 1) * MaxSeats = n * MaxSeats + MaxSeats /\ n * MaxSeats \in Nat
      BY SeatsAssumption
    <3> HIDE DEF Of, rest, d
    <3> QED
      BY <3>3, <3>4, <3>5, <3>6, <3>7, SeatsAssumption
  <2>2. n + 1 \in Nat
    OBVIOUS
  <2> HIDE DEF Bounded
  <2> QED
    BY <2>1, <2>2
<1>3. T = Nat
  <2> HIDE DEF T
  <2>1. T \in SUBSET Nat
    BY DEF T
  <2> QED
    BY <1>1, <1>2, <2>1, Induction
<1>4. Cardinality(Clients) \in T
  BY <1>3, FS_CardinalityType, SeatsAssumption
<1> QED
  BY <1>4

-----------------------------------------------------------------------------
(* Types                                                                   *)

Listing == [at : {"list_trips"}, trip : Trips, option : Options, ask : Pin, capacity : 1..MaxSeats]
Reading == [at : {"read_trips"}, trip : Trips, option : Options, ask : Pin, capacity : 1..MaxSeats,
            left : SUBSET Trips, taken : Nat]
Deleting == [at : {"delete"}, option : Options, asked : BOOLEAN]

LEMMA RequestKinds ==
  /\ Request = {Idle} \cup Listing \cup Reading \cup Deleting
  /\ \A r \in Request : /\ r.at = "idle" <=> r = Idle
                        /\ r.at = "list_trips" => r \in Listing
                        /\ r.at = "read_trips" => r \in Reading
                        /\ r.at = "delete" => r \in Deleting
<1>1. Request = {Idle} \cup Listing \cup Reading \cup Deleting
  BY DEF Request, Listing, Reading, Deleting
<1>2. /\ Idle.at = "idle" /\ \A r \in Listing : r.at = "list_trips"
      /\ \A r \in Reading : r.at = "read_trips" /\ \A q \in Deleting : q.at = "delete"
  BY DEF Idle, Listing, Reading, Deleting
<1>3. \A r \in Deleting : r.at = "delete"
  BY DEF Deleting
<1> QED
  BY <1>1, <1>2, <1>3

LEMMA InitTyped == Init => TypeOK
<1> SUFFICES ASSUME Init PROVE TypeOK
  OBVIOUS
<1>1. \A o \in Options : Holding(o) = {}
  BY DEF Init, Holding
<1>2. Idle \in Request
  BY RequestKinds
<1> QED
  BY <1>1, <1>2 DEF Init, TypeOK

\* A request that becomes another one, while nothing else changes.
LEMMA BecomeTyped ==
  ASSUME TypeOK, NEW c \in Clients, NEW request \in Request, Becomes(c, request),
         UNCHANGED <<live, pins>>, options' \in [Options -> Option \cup {NoOption}]
  PROVE  TypeOK'
BY DEF TypeOK, Becomes, Holding

\* A selection of a trip there is, or none.
LEMMA PinningTyped ==
  ASSUME TypeOK, NEW t \in Trips, NEW o \in Options, NEW pin \in Pin \cup {NoPin}, Pinning(t, o, pin),
         pin /= NoPin => t \in live, UNCHANGED <<options, live>>, requests' \in [Clients -> Request]
  PROVE  TypeOK'
<1>1. /\ pins' \in Tables
      /\ \A u \in Trips, p \in Options : pins'[u][p] = IF u = t /\ p = o THEN pin ELSE pins[u][p]
  BY DEF TypeOK, Pinning, Tables
<1>2. \A p \in Options : Holding(p)' \subseteq live'
  BY <1>1 DEF TypeOK, Holding
<1> QED
  BY <1>1, <1>2 DEF TypeOK, Tables

LEMMA ClientTyped ==
  ASSUME TypeOK, NEW c \in Clients, ClientStep(c)
  PROVE  TypeOK'
<1>0. requests[c] \in Request /\ Idle \in Request /\ NoOption \notin Option
  BY RequestKinds DEF TypeOK, NoOption, Option
<1>1. ASSUME NEW t \in Trips, NEW o \in Options, NEW ask \in Pin, AddReadsOption(c, t, o, ask)
      PROVE  TypeOK'
  <2>1. options[o] \in Option
    BY <1>1 DEF AddReadsOption, TypeOK, NoOption
  <2>2. [at |-> "list_trips", trip |-> t, option |-> o, ask |-> ask, capacity |-> options[o].capacity] \in Listing
    BY <2>1 DEF Option, Listing
  <2> QED
    BY <1>1, <2>2, RequestKinds, BecomeTyped DEF AddReadsOption, TypeOK
<1>2. CASE AddListsTrips(c)
  <2> DEFINE r == requests[c]
  <2>1. r \in Listing
    BY <1>0, <1>2, RequestKinds DEF AddListsTrips
  <2>2. [at |-> "read_trips", trip |-> r.trip, option |-> r.option, ask |-> r.ask, capacity |-> r.capacity,
         left |-> Holding(r.option), taken |-> 0] \in Reading
    BY <2>1 DEF Listing, Reading, Holding
  <2> QED
    BY <1>2, <2>2, RequestKinds, BecomeTyped DEF AddListsTrips, TypeOK
<1>3. ASSUME NEW t \in Trips, AddReadsTrip(c, t) PROVE TypeOK'
  <2> DEFINE r == requests[c]
             seats == IF t = r.trip THEN 0 ELSE Seats(pins[t][r.option])
             next == [r EXCEPT !.left = @ \ {t}, !.taken = @ + seats]
  <2>1. r \in Reading
    BY <1>0, <1>3, RequestKinds DEF AddReadsTrip
  <2>2. seats \in Nat
    <3>1. r.option \in Options
      BY <2>1 DEF Reading
    <3> QED
      BY <3>1, SeatsTyped DEF TypeOK
  <2>3. next \in Reading
    <3>1. r.left \ {t} \in SUBSET Trips /\ r.taken + seats \in Nat
      BY <2>1, <2>2 DEF Reading
    <3>2. \A left \in SUBSET Trips, taken \in Nat : [r EXCEPT !.left = left, !.taken = taken] \in Reading
      BY <2>1 DEF Reading
    <3> HIDE DEF r, seats
    <3> QED
      BY <3>1, <3>2
  <2>4. Becomes(c, next) /\ UNCHANGED <<options, live, pins>>
    BY <1>3 DEF AddReadsTrip
  <2> HIDE DEF next
  <2> QED
    BY <2>3, <2>4, RequestKinds, BecomeTyped DEF TypeOK
<1>4. CASE AddWrites(c)
  <2> DEFINE r == requests[c]
  <2>1. r \in Reading /\ r.trip \in live
    BY <1>0, <1>4, RequestKinds DEF AddWrites
  <2>2. r.trip \in Trips /\ r.option \in Options /\ r.ask \in Pin
    BY <2>1 DEF Reading
  <2>3. requests' \in [Clients -> Request]
    BY <1>0, <1>4 DEF AddWrites, Becomes, TypeOK
  <2> QED
    BY <1>4, <2>1, <2>2, <2>3, PinningTyped DEF AddWrites
<1>5. ASSUME NEW t \in Trips, NEW o \in Options, Remove(c, t, o) PROVE TypeOK'
  BY <1>5, PinningTyped DEF Remove, TypeOK
<1>6. ASSUME NEW o \in Options, NEW option \in Option, CreateOption(c, o, option) \/ UpdateOption(c, o, option)
      PROVE  TypeOK'
  BY <1>6 DEF CreateOption, UpdateOption, TypeOK, Holding
<1>7. ASSUME NEW o \in Options, NEW asked \in BOOLEAN, DeleteLooks(c, o, asked) PROVE TypeOK'
  <2>1. [at |-> "delete", option |-> o, asked |-> asked] \in Request
    BY RequestKinds DEF Deleting
  <2> QED
    BY <1>7, <2>1, BecomeTyped DEF DeleteLooks, TypeOK
<1>8. CASE DeleteWrites(c)
  <2>1. options' \in [Options -> Option \cup {NoOption}]
    BY <1>8 DEF DeleteWrites, TypeOK
  <2> QED
    BY <1>0, <1>8, <2>1, BecomeTyped DEF DeleteWrites
<1>9. CASE Refuse(c)
  BY <1>0, <1>9, BecomeTyped DEF Refuse, TypeOK
<1>10. {TRUE, ~Outages} \subseteq BOOLEAN
  OBVIOUS
<1> QED
  BY <1>1, <1>2, <1>3, <1>4, <1>5, <1>6, <1>7, <1>8, <1>9, <1>10 DEF ClientStep

\* A trip that goes takes its selections with it; one that comes has none.
LEMMA DeleteTripFacts ==
  ASSUME TypeOK, NEW t \in Trips, DeleteTrip(t)
  PROVE  /\ pins' \in Tables /\ UNCHANGED <<options, requests>>
         /\ \A u \in Trips, o \in Options : pins'[u][o] = IF u = t THEN NoPin ELSE pins[u][o]
BY DEF TypeOK, DeleteTrip, Tables

LEMMA NextTyped == TypeOK /\ [Next]_vars => TypeOK'
<1> SUFFICES ASSUME TypeOK, [Next]_vars PROVE TypeOK'
  OBVIOUS
<1>1. ASSUME NEW t \in Trips, CreateTrip(t) PROVE TypeOK'
  BY <1>1 DEF CreateTrip, TypeOK, Holding
<1>2. ASSUME NEW t \in Trips, DeleteTrip(t) PROVE TypeOK'
  <2>1. \A o \in Options : Holding(o)' \subseteq live'
    BY <1>2, DeleteTripFacts DEF TypeOK, Holding, DeleteTrip
  <2> QED
    BY <1>2, <2>1, DeleteTripFacts DEF TypeOK, DeleteTrip, Tables
<1>3. CASE UNCHANGED vars
  BY <1>3 DEF vars, TypeOK, Holding
<1> QED
  BY <1>1, <1>2, <1>3, ClientTyped DEF Next

\* Only a trip that exists holds selections, and a request carries what its kind has.
THEOREM SeatsTypedAlways == Spec => []TypeOK
BY InitTyped, NextTyped, PTL DEF Spec


-----------------------------------------------------------------------------
(* How far an option can be oversold                                       *)

\* Each selection belongs to the client that wrote it last.  The trips of one client fill
\* no more than an option has, and a request that reads them has counted those of its own
\* client, but the one it is for, or has yet to read them.
Owners == [Clients -> [Options -> SUBSET Trips]]
Uncounted(request) == {request.trip} \cup request.left
Counted(request, some) == SumOf(pins, request.option, some \ Uncounted(request)) <= request.taken
Owned(own) ==
  /\ \A o \in Options : Holding(o) \subseteq UNION {own[d][o] : d \in Clients}
  /\ \A d \in Clients, o \in Options : SumOf(pins, o, own[d][o]) <= MaxSeats
  /\ \A d \in Clients : requests[d].at = "read_trips" => Counted(requests[d], own[d][requests[d].option])
OwnInv == \E own \in Owners : Owned(own)

LEMMA TablesTyped == TypeOK => pins \in Tables
BY DEF TypeOK, Tables

LEMMA InitOwned == Init => OwnInv
<1> SUFFICES ASSUME Init PROVE OwnInv
  OBVIOUS
<1> DEFINE own == [d \in Clients |-> [o \in Options |-> {}]]
<1>1. own \in Owners
  BY DEF Owners
<1>2. pins \in Tables
  BY InitTyped, TablesTyped
<1>3. \A o \in Options : Holding(o) = {} /\ SumOf(pins, o, {}) <= 0
  BY <1>2, SumOfNone DEF Init, Holding
<1>4. \A d \in Clients : requests[d].at = "idle"
  BY DEF Init, Idle
<1>5. \A d \in Clients, o \in Options : SumOf(pins, o, own[d][o]) <= MaxSeats
  <2>1. ASSUME NEW o \in Options PROVE SumOf(pins, o, {}) <= MaxSeats
    BY <1>2, <1>3, SeatsOfTyped, SeatsAssumption
  <2> QED
    BY <2>1
<1>6. Owned(own)
  <2>1. \A o \in Options : Holding(o) \subseteq UNION {own[d][o] : d \in Clients}
    BY <1>3
  <2> HIDE DEF own
  <2> QED
    BY <2>1, <1>4, <1>5 DEF Owned
<1> QED
  BY <1>1, <1>6 DEF OwnInv

\* What leaves no trip with more seats, and brings no request to reading trips.
LEMMA LessOwned ==
  ASSUME TypeOK, TypeOK', NEW own \in Owners, Owned(own),
         \A t \in Trips, o \in Options : Seats(pins'[t][o]) <= Seats(pins[t][o]),
         \A o \in Options : Holding(o)' \subseteq Holding(o),
         \A d \in Clients : requests'[d] = requests[d] \/ requests'[d].at /= "read_trips"
  PROVE  Owned(own)'
<1>0. pins \in Tables /\ pins' \in Tables
  BY DEF TypeOK, Tables
<1>1. ASSUME NEW o \in Options, NEW some PROVE SumOf(pins', o, some) <= SumOf(pins, o, some)
  BY <1>0, SumShrinks
<1>2. \A o \in Options : Holding(o)' \subseteq UNION {own[d][o] : d \in Clients}
  BY DEF Owned
<1>3. ASSUME NEW d \in Clients, NEW o \in Options PROVE SumOf(pins', o, own[d][o]) <= MaxSeats
  <2>1. SumOf(pins, o, own[d][o]) <= MaxSeats
    BY DEF Owned
  <2> QED
    BY <1>0, <1>1, <2>1, SeatsOfTyped, SeatsAssumption
<1>4. ASSUME NEW d \in Clients, requests'[d].at = "read_trips" PROVE Counted(requests[d], own[d][requests[d].option])'
  <2>1. requests'[d] = requests[d] /\ Counted(requests[d], own[d][requests[d].option])
    BY <1>4 DEF Owned
  <2>2. requests[d] \in Reading
    BY <1>4, <2>1, RequestKinds DEF TypeOK
  <2>3. requests[d].option \in Options /\ requests[d].taken \in Nat
    BY <2>2 DEF Reading
  <2> DEFINE o == requests[d].option
             some == own[d][o] \ Uncounted(requests[d])
  <2>4. SumOf(pins', o, some) <= SumOf(pins, o, some) /\ SumOf(pins, o, some) <= requests[d].taken
    BY <1>1, <2>1, <2>3 DEF Counted
  <2>5. SumOf(pins', o, some) \in Nat /\ SumOf(pins, o, some) \in Nat
    BY <1>0, <2>3, SeatsOfTyped
  <2>6. SumOf(pins', o, some) <= requests[d].taken
    <3> HIDE DEF o, some
    <3> QED
      BY <2>3, <2>4, <2>5
  <2> QED
    BY <2>1, <2>6 DEF Counted, Uncounted
<1> QED
  BY <1>2, <1>3, <1>4 DEF Owned

\* Steps of a client that only turn to another request, with the catalogue.
LEMMA TurnOwned ==
  ASSUME TypeOK, TypeOK', NEW own \in Owners, Owned(own), pins' = pins,
         \A d \in Clients : requests'[d] = requests[d] \/ requests'[d].at /= "read_trips"
                            \/ Counted(requests'[d], own[d][requests'[d].option])
  PROVE  Owned(own)'
<1>1. ASSUME NEW d \in Clients, requests'[d].at = "read_trips" PROVE Counted(requests[d], own[d][requests[d].option])'
  <2>1. Counted(requests'[d], own[d][requests'[d].option])
    BY <1>1 DEF Owned
  <2> QED
    BY <2>1 DEF Counted
<1> QED
  BY <1>1 DEF Owned, Holding

\* Nothing is left out when the holders have been listed: all others hold no seat.
LEMMA ListedCounts ==
  ASSUME TypeOK, NEW c \in Clients, AddListsTrips(c), NEW some
  PROVE  /\ \A d \in Clients \ {c} : requests'[d] = requests[d]
         /\ Counted(requests'[c], some) /\ pins' = pins
<1> DEFINE r == requests[c]
           o == r.option
<1>1. r \in Listing
  BY RequestKinds DEF TypeOK, AddListsTrips
<1>2. o \in Options
  BY <1>1 DEF Listing
<1>3. /\ \A d \in Clients \ {c} : requests'[d] = requests[d]
      /\ requests'[c].option = o /\ requests'[c].left = Holding(o) /\ requests'[c].taken = 0
      /\ pins' = pins
  BY DEF AddListsTrips, Becomes, TypeOK
<1> DEFINE rest == some \ Uncounted(requests'[c])
<1>4. \A t \in Trips \cap rest : Seats(pins[t][o]) = 0
  BY <1>2, <1>3, SeatsTyped DEF Uncounted, Holding, TypeOK
<1>5. SumOf(pins, o, rest) <= 0
  <2> HIDE DEF o, rest
  <2> QED
    BY <1>2, <1>4, SumOfNone, TablesTyped
<1> QED
  BY <1>3, <1>5 DEF Counted

\* A trip that has been read is counted.
LEMMA ReadCounts ==
  ASSUME TypeOK, NEW c \in Clients, NEW t \in Trips, AddReadsTrip(c, t), NEW some,
         Counted(requests[c], some)
  PROVE  /\ \A d \in Clients \ {c} : requests'[d] = requests[d]
         /\ requests'[c].option = requests[c].option
         /\ Counted(requests'[c], some) /\ pins' = pins
<1> DEFINE r == requests[c]
           o == r.option
           seats == IF t = r.trip THEN 0 ELSE Seats(pins[t][o])
<1>1. r \in Reading
  BY RequestKinds DEF TypeOK, AddReadsTrip
<1>2. o \in Options /\ r.taken \in Nat
  BY <1>1 DEF Reading
<1>3. /\ \A d \in Clients \ {c} : requests'[d] = requests[d]
      /\ requests'[c] = [r EXCEPT !.left = @ \ {t}, !.taken = @ + seats]
      /\ pins' = pins
  BY DEF AddReadsTrip, Becomes, TypeOK
<1>4. /\ requests'[c].option = o /\ requests'[c].left = r.left \ {t}
      /\ requests'[c].taken = r.taken + seats /\ requests'[c].trip = r.trip
  BY <1>1, <1>3 DEF Reading
<1>5. pins \in Tables /\ seats \in Nat
  BY <1>2, TablesTyped, SeatsTyped DEF Tables
<1> DEFINE before == some \ Uncounted(r)
           after == some \ Uncounted(requests'[c])
<1>6. \A u \in Trips : Seats(pins[u][o]) \in Nat
  BY <1>2, <1>5, SeatsTyped DEF Tables
<1>7. \A u \in Trips \ {t} : u \in after => u \in before /\ Seats(pins[u][o]) <= Seats(pins[u][o])
  BY <1>4, <1>6 DEF Uncounted
<1>8. t \in Trips \cap after => Seats(pins[t][o]) <= seats
  BY <1>4, <1>6 DEF Uncounted
<1>9. SumOf(pins, o, after) <= SumOf(pins, o, before) + seats
  <2> HIDE DEF before, after, seats, o
  <2> QED
    BY <1>2, <1>5, <1>7, <1>8, SumGrows
<1>10. SumOf(pins, o, after) \in Nat /\ SumOf(pins, o, before) \in Nat
  BY <1>2, <1>5, SeatsOfTyped
<1>11. SumOf(pins, o, before) <= r.taken
  BY DEF Counted
<1>12. SumOf(pins, o, after) <= r.taken + seats
  <2> HIDE DEF before, after, seats, o
  <2> QED
    BY <1>2, <1>5, <1>9, <1>10, <1>11
<1> QED
  BY <1>3, <1>4, <1>12 DEF Counted

\* What its client has, with the selection a request writes, fits the capacity it read:
\* the trip becomes that client's alone.
LEMMA WriteOwned ==
  ASSUME TypeOK, TypeOK', NEW own \in Owners, Owned(own), NEW c \in Clients, AddWrites(c)
  PROVE  OwnInv'
<1> DEFINE r == requests[c]
           o == r.option
           now == [d \in Clients |-> [p \in Options |->
                     IF p /= o THEN own[d][p]
                     ELSE IF d = c THEN own[d][p] \cup {r.trip} ELSE own[d][p] \ {r.trip}]]
<1>1. r \in Reading /\ r.left = {} /\ Fits(r)
  BY RequestKinds DEF TypeOK, AddWrites
<1>2. /\ o \in Options /\ r.taken \in Nat /\ r.trip \in Trips /\ r.ask \in Pin
      /\ r.capacity \in 1..MaxSeats
  BY <1>1 DEF Reading
<1>3. /\ pins \in Tables /\ pins' \in Tables
      /\ \A t \in Trips, p \in Options : pins'[t][p] = IF t = r.trip /\ p = o THEN r.ask ELSE pins[t][p]
      /\ requests' = [requests EXCEPT ![c] = Idle]
  BY <1>2 DEF AddWrites, Pinning, Becomes, TypeOK, Tables
<1>4. \A t \in Trips, p \in Options : Seats(pins[t][p]) \in Nat /\ Seats(pins'[t][p]) \in Nat
  BY <1>3, SeatsTyped DEF Tables
<1>5. PICK next \in Owners :
        \A d \in Clients, p \in Options :
          next[d][p] = IF p /= o THEN own[d][p]
                       ELSE IF d = c THEN own[d][p] \cup {r.trip} ELSE own[d][p] \ {r.trip}
  <2>1. now \in Owners
    BY <1>2 DEF Owners
  <2>2. \A d \in Clients, p \in Options :
          now[d][p] = IF p /= o THEN own[d][p]
                      ELSE IF d = c THEN own[d][p] \cup {r.trip} ELSE own[d][p] \ {r.trip}
    OBVIOUS
  <2> HIDE DEF now
  <2> QED
    BY <2>1, <2>2
<1> HIDE DEF now
<1>5a. /\ r.trip \in next[c][o]
       /\ \A t \in Trips \ {r.trip} : t \in next[c][o] => t \in own[c][o]
  BY <1>2, <1>5
<1>5b. ASSUME NEW d \in Clients, NEW p \in Options, d /= c \/ p /= o
       PROVE  /\ next[d][p] \subseteq own[d][p]
              /\ \A t \in next[d][p] : ~(t = r.trip /\ p = o)
  <2>1. CASE p /= o
    <3>1. next[d][p] = own[d][p]
      BY <1>5, <2>1
    <3> QED
      BY <2>1, <3>1
  <2>2. CASE p = o
    <3>1. next[d][p] = own[d][p] \ {r.trip}
      BY <1>5, <1>5b, <2>2
    <3> QED
      BY <3>1
  <2> QED
    BY <2>1, <2>2
<1>6. ASSUME NEW p \in Options PROVE Holding(p)' \subseteq UNION {next[d][p] : d \in Clients}
  <2>1. ASSUME NEW t \in Trips, pins'[t][p] /= NoPin PROVE \E d \in Clients : t \in next[d][p]
    <3>1. CASE t = r.trip /\ p = o
      BY <1>5a, <3>1
    <3>2. CASE ~(t = r.trip /\ p = o)
      <4>1. t \in Holding(p)
        BY <1>3, <2>1, <3>2 DEF Holding
      <4>2. PICK d \in Clients : t \in own[d][p]
        BY <4>1 DEF Owned
      <4>3. next[d][p] = IF p /= o THEN own[d][p]
                         ELSE IF d = c THEN own[d][p] \cup {r.trip} ELSE own[d][p] \ {r.trip}
        BY <1>5
      <4>4. t \in next[d][p]
        BY <3>2, <4>2, <4>3
      <4> QED
        BY <4>4
    <3> QED
      BY <3>1, <3>2
  <2> QED
    BY <2>1 DEF Holding
<1>7. ASSUME NEW d \in Clients, NEW p \in Options, NEW rest, d /= c \/ p /= o
      PROVE  SumOf(pins', p, next[d][p] \ rest) <= SumOf(pins, p, own[d][p] \ rest)
  <2>1. \A t \in Trips : t \in next[d][p] \ rest =>
          t \in own[d][p] \ rest /\ Seats(pins'[t][p]) <= Seats(pins[t][p])
    BY <1>3, <1>4, <1>7, <1>5b
  <2> QED
    BY <1>3, <2>1, SumShrinks
<1>8. ASSUME NEW d \in Clients, NEW p \in Options PROVE SumOf(pins', p, next[d][p]) <= MaxSeats
  <2>0. SumOf(pins', p, next[d][p]) \in Nat /\ SumOf(pins, p, own[d][p]) \in Nat
    BY <1>3, SeatsOfTyped
  <2>1. CASE d /= c \/ p /= o
    <3>1. SumOf(pins', p, next[d][p] \ {}) <= SumOf(pins, p, own[d][p] \ {})
      BY <1>7, <2>1
    <3>2. next[d][p] \ {} = next[d][p] /\ own[d][p] \ {} = own[d][p]
      OBVIOUS
    <3>3. SumOf(pins, p, own[d][p]) <= MaxSeats
      BY DEF Owned
    <3> QED
      BY <2>0, <3>1, <3>2, <3>3, SeatsAssumption
  <2>2. CASE d = c /\ p = o
    <3> DEFINE some == own[c][o] \ Uncounted(r)
               more == next[c][o]
    <3>1. SumOf(pins, o, some) <= r.taken
      BY DEF Owned, AddWrites, Counted
    <3>2. \A u \in Trips \ {r.trip} : u \in more => u \in some /\ Seats(pins'[u][o]) <= Seats(pins[u][o])
      BY <1>1, <1>2, <1>3, <1>4, <1>5a DEF Uncounted
    <3>3. Seats(pins'[r.trip][o]) <= r.ask.party /\ r.ask.party \in Nat
      BY <1>2, <1>3, SeatsTyped
    <3>4. SumOf(pins', o, more) <= SumOf(pins, o, some) + r.ask.party
      <4> HIDE DEF some, more, o, r
      <4> QED
        BY <1>2, <1>3, <3>2, <3>3, SumGrows
    <3>5. r.ask.party <= r.capacity - r.taken /\ r.capacity <= MaxSeats
      BY <1>1, <1>2, SeatsAssumption DEF Fits
    <3>6. SumOf(pins', o, more) \in Nat /\ SumOf(pins, o, some) \in Nat
      BY <1>2, <1>3, SeatsOfTyped
    <3>7. SumOf(pins', o, more) <= MaxSeats
      <4> HIDE DEF some, more, o, r
      <4> QED
        BY <1>2, <3>1, <3>3, <3>4, <3>5, <3>6, SeatsAssumption
    <3> QED
      BY <2>2, <3>7
  <2> QED
    BY <2>1, <2>2
<1>9. ASSUME NEW d \in Clients, requests'[d].at = "read_trips" PROVE Counted(requests[d], next[d][requests[d].option])'
  <2>1. d /= c /\ requests'[d] = requests[d]
    BY <1>3, <1>9 DEF TypeOK, Idle
  <2>2. requests[d] \in Reading /\ Counted(requests[d], own[d][requests[d].option])
    BY <1>9, <2>1, RequestKinds DEF Owned, TypeOK
  <2>3. requests[d].option \in Options /\ requests[d].taken \in Nat
    BY <2>2 DEF Reading
  <2> DEFINE p == requests[d].option
             rest == Uncounted(requests[d])
  <2>4. SumOf(pins', p, next[d][p] \ rest) <= SumOf(pins, p, own[d][p] \ rest)
    BY <1>7, <2>1, <2>3
  <2>5. SumOf(pins, p, own[d][p] \ rest) <= requests[d].taken
    BY <2>2 DEF Counted
  <2>6. SumOf(pins', p, next[d][p] \ rest) \in Nat /\ SumOf(pins, p, own[d][p] \ rest) \in Nat
    BY <1>3, <2>3, SeatsOfTyped
  <2>7. SumOf(pins', p, next[d][p] \ rest) <= requests[d].taken
    <3> HIDE DEF p, rest
    <3> QED
      BY <2>3, <2>4, <2>5, <2>6
  <2> QED
    BY <2>1, <2>7 DEF Counted, Uncounted
<1>10. Owned(next)'
  <2> QED
    BY <1>6, <1>8, <1>9 DEF Owned
<1> QED
  BY <1>5, <1>10 DEF OwnInv


\* Seats of one trip taken back, or of one trip that goes.
LEMMA LessPinned ==
  ASSUME TypeOK, TypeOK', NEW own \in Owners, Owned(own), requests' = requests,
         \A t \in Trips, o \in Options : pins'[t][o] \in {NoPin, pins[t][o]}
  PROVE  Owned(own)'
<1>1. ASSUME NEW t \in Trips, NEW o \in Options
      PROVE  Seats(pins'[t][o]) <= Seats(pins[t][o])
  <2>1. Seats(NoPin) = 0 /\ Seats(pins[t][o]) \in Nat
    BY SeatsTyped DEF TypeOK
  <2> QED
    BY <2>1
<1>2. \A o \in Options : Holding(o)' \subseteq Holding(o)
  BY DEF Holding
<1> QED
  BY <1>1, <1>2, LessOwned

LEMMA ClientOwned ==
  ASSUME TypeOK, TypeOK', NEW own \in Owners, Owned(own), NEW c \in Clients, ClientStep(c)
  PROVE  OwnInv'
<1>1. ASSUME NEW request, Becomes(c, request), request.at /= "read_trips", pins' = pins
      PROVE  Owned(own)'
  <2>1. \A d \in Clients : requests'[d] = requests[d] \/ requests'[d].at /= "read_trips"
    BY <1>1 DEF Becomes, TypeOK
  <2> QED
    BY <1>1, <2>1, TurnOwned
<1>2. ASSUME NEW t \in Trips, NEW o \in Options, NEW ask \in Pin, AddReadsOption(c, t, o, ask)
      PROVE  Owned(own)'
  BY <1>1, <1>2 DEF AddReadsOption
<1>3. ASSUME AddListsTrips(c) PROVE Owned(own)'
  BY <1>3, ListedCounts, TurnOwned
<1>4. ASSUME NEW t \in Trips, AddReadsTrip(c, t) PROVE Owned(own)'
  <2>1. requests[c].at = "read_trips"
    BY <1>4 DEF AddReadsTrip
  <2>2. Counted(requests[c], own[c][requests[c].option])
    BY <2>1 DEF Owned
  <2>3. /\ Counted(requests'[c], own[c][requests'[c].option]) /\ pins' = pins
        /\ \A d \in Clients \ {c} : requests'[d] = requests[d]
    BY <1>4, <2>2, ReadCounts
  <2> QED
    BY <2>3, TurnOwned
<1>5. CASE AddWrites(c)
  BY <1>5, WriteOwned
<1>6. ASSUME NEW t \in Trips, NEW o \in Options, Remove(c, t, o) PROVE Owned(own)'
  BY <1>6, LessPinned DEF Remove, Pinning, TypeOK
<1>7. ASSUME NEW o \in Options, NEW option \in Option, CreateOption(c, o, option) \/ UpdateOption(c, o, option)
      PROVE  Owned(own)'
  BY <1>7, TurnOwned DEF CreateOption, UpdateOption
<1>8. ASSUME NEW o \in Options, NEW asked \in {TRUE, ~Outages}, DeleteLooks(c, o, asked) PROVE Owned(own)'
  BY <1>1, <1>8 DEF DeleteLooks
<1>9. ASSUME DeleteWrites(c) \/ Refuse(c) PROVE Owned(own)'
  BY <1>1, <1>9 DEF DeleteWrites, Refuse, Idle
<1>10. Owned(own)' => OwnInv'
  BY DEF OwnInv
<1> QED
  BY <1>2, <1>3, <1>4, <1>5, <1>6, <1>7, <1>8, <1>9, <1>10 DEF ClientStep

LEMMA NextOwned == TypeOK /\ OwnInv /\ [Next]_vars => OwnInv'
<1> SUFFICES ASSUME TypeOK, OwnInv, [Next]_vars PROVE OwnInv'
  OBVIOUS
<1>0. TypeOK'
  BY NextTyped
<1>1. PICK own \in Owners : Owned(own)
  BY DEF OwnInv
<1>2. ASSUME NEW c \in Clients, ClientStep(c) PROVE OwnInv'
  BY <1>0, <1>1, <1>2, ClientOwned
<1>3. ASSUME NEW t \in Trips, CreateTrip(t) PROVE Owned(own)'
  BY <1>0, <1>1, <1>3, TurnOwned DEF CreateTrip
<1>4. ASSUME NEW t \in Trips, DeleteTrip(t) PROVE Owned(own)'
  BY <1>0, <1>1, <1>4, LessPinned, DeleteTripFacts
<1>5. ASSUME UNCHANGED vars PROVE Owned(own)'
  BY <1>0, <1>1, <1>5, TurnOwned DEF vars
<1>6. Owned(own)' => OwnInv'
  BY DEF OwnInv
<1> QED
  BY <1>2, <1>3, <1>4, <1>5, <1>6 DEF Next

LEMMA TakenIsSum == \A o \in Options : Taken(o) = SumOf(pins, o, Trips)
<1>1. \A o : SeatsOf(pins, o, Trips) = [t \in Trips |-> Seats(pins[t][o])]
  BY DEF SeatsOf
<1> QED
  BY <1>1 DEF Taken, SumOf

LEMMA OwnedBounds == TypeOK /\ OwnInv => OversellBounded
<1> SUFFICES ASSUME TypeOK, OwnInv, NEW o \in Options
             PROVE  Taken(o) <= Cardinality(Clients) * MaxSeats
  BY DEF OversellBounded
<1>1. PICK own \in Owners : Owned(own)
  BY DEF OwnInv
<1>2. PICK mine \in [Clients -> SUBSET Trips] : \A d \in Clients : mine[d] = own[d][o]
  <2>1. [d \in Clients |-> own[d][o]] \in [Clients -> SUBSET Trips]
    BY DEF Owners
  <2> QED
    BY <2>1
<1>3. pins \in Tables
  BY TablesTyped
<1> DEFINE all == UNION {mine[d] : d \in Clients}
<1>4. SumOf(pins, o, all) <= Cardinality(Clients) * MaxSeats
  <2>1. \A d \in Clients : SumOf(pins, o, mine[d]) <= MaxSeats
    BY <1>1, <1>2 DEF Owned
  <2> QED
    BY <1>3, <2>1, SumOfOwners
<1>5. Holding(o) \subseteq all
  BY <1>1, <1>2 DEF Owned
<1> DEFINE others == Trips \ Holding(o)
<1>6. SumOf(pins, o, Trips) <= SumOf(pins, o, all) + SumOf(pins, o, others)
  <2>1. \A t \in Trips \cap Trips : t \in all \/ t \in others
    BY <1>5
  <2> HIDE DEF all, others
  <2> QED
    BY <1>3, <2>1, SumOfBoth
<1>7. SumOf(pins, o, others) <= 0
  <2>1. \A t \in Trips \cap others : Seats(pins[t][o]) = 0
    BY SeatsTyped DEF Holding, TypeOK
  <2> HIDE DEF others
  <2> QED
    BY <1>3, <2>1, SumOfNone
<1>8. /\ SumOf(pins, o, Trips) \in Nat /\ SumOf(pins, o, all) \in Nat /\ SumOf(pins, o, others) \in Nat
      /\ Cardinality(Clients) * MaxSeats \in Nat
  <2>1. Cardinality(Clients) \in Nat
    BY FS_CardinalityType, SeatsAssumption
  <2> QED
    BY <1>3, <2>1, SeatsOfTyped, SeatsAssumption
<1> HIDE DEF all, others
<1> QED
  BY <1>4, <1>6, <1>7, <1>8, TakenIsSum

\* However many requests overlap and however often trips and selections come and go, an
\* option is oversold by no more than the requests in flight: each client's selections,
\* which its own last check has counted, fit its capacity.
THEOREM SeatsStaySound == Spec => []SeatsAreSound
<1>1. Init => TypeOK /\ OwnInv
  BY InitTyped, InitOwned
<1>2. TypeOK /\ OwnInv /\ [Next]_vars => (TypeOK /\ OwnInv)'
  BY NextTyped, NextOwned
<1>3. TypeOK /\ OwnInv => SeatsAreSound
  BY OwnedBounds DEF SeatsAreSound
<1> QED
  BY <1>1, <1>2, <1>3, PTL DEF Spec


-----------------------------------------------------------------------------
(* While requests come one at a time                                       *)

\* The request in flight knows the option as it is, has counted every other trip's
\* seats or has yet to read them, and deletes what nobody holds.
AloneSound(request) ==
  /\ request.at \in {"list_trips", "read_trips"} =>
       options[request.option].capacity = request.capacity
  /\ request.at = "read_trips" =>
       Counted(request, Trips)
  /\ request.at = "delete" => Holding(request.option) = {}
OneRequest == \A c, d \in Clients : requests[c] /= Idle /\ requests[d] /= Idle => c = d
AloneInv == ~strained => /\ OneRequest /\ PinsNameOptions
                         /\ \A c \in Clients : AloneSound(requests[c])

\* What a step leaves alone that does not strain.
LEMMA CalmStep ==
  ASSUME TypeOK, TypeOK', AloneInv, Next, strained' = (strained \/ Strains), ~strained'
  PROVE  /\ OneRequest' /\ OneRequest /\ PinsNameOptions /\ \A c \in Clients : AloneSound(requests[c])
         /\ \A c \in Clients : requests[c] /= Idle /\ requests'[c] = requests[c] =>
              options' = options /\ (pins' = pins \/ live' /= live)
BY DEF AloneInv, Strains, OneRequest, Free

\* A request that stays as it is, while the option does and no trip gets more seats.
LEMMA AloneKeeps ==
  ASSUME TypeOK, TypeOK', NEW c \in Clients, AloneSound(requests[c]), requests'[c] = requests[c],
         options' = options, \A t \in Trips, o \in Options : pins'[t][o] \in {NoPin, pins[t][o]}
  PROVE  AloneSound(requests[c])'
<1> DEFINE r == requests[c]
<1>1. r \in Request
  BY DEF TypeOK
<1>2. CASE r.at = "read_trips"
  <2>1. r \in Reading
    BY <1>1, <1>2, RequestKinds
  <2>2. r.option \in Options /\ r.taken \in Nat
    BY <2>1 DEF Reading
  <2> DEFINE some == Trips \ Uncounted(r)
  <2>3. pins \in Tables /\ pins' \in Tables
    BY TablesTyped DEF TypeOK, Tables
  <2>4. \A t \in Trips : t \in some => t \in some /\ Seats(pins'[t][r.option]) <= Seats(pins[t][r.option])
    <3>1. ASSUME NEW t \in Trips PROVE Seats(pins'[t][r.option]) <= Seats(pins[t][r.option])
      <4>1. Seats(NoPin) = 0 /\ Seats(pins[t][r.option]) \in Nat
        BY <2>2, SeatsTyped DEF TypeOK
      <4> QED
        BY <2>2, <4>1
    <3> QED
      BY <3>1
  <2>5. SumOf(pins', r.option, some) <= SumOf(pins, r.option, some)
    <3> HIDE DEF some, r
    <3> QED
      BY <2>2, <2>3, <2>4, SumShrinks
  <2>6. SumOf(pins', r.option, some) \in Nat /\ SumOf(pins, r.option, some) \in Nat
    BY <2>2, <2>3, SeatsOfTyped
  <2>7. SumOf(pins, r.option, some) <= r.taken
    BY <1>2 DEF AloneSound, Counted
  <2>8. SumOf(pins', r.option, some) <= r.taken
    <3> HIDE DEF some, r
    <3> QED
      BY <2>2, <2>5, <2>6, <2>7
  <2> QED
    BY <1>2, <2>8 DEF AloneSound, Counted, Uncounted
<1>3. CASE r.at = "list_trips"
  BY <1>3 DEF AloneSound
<1>4. CASE r.at = "delete"
  <2>1. r.option \in Options
    BY <1>1, <1>4, RequestKinds DEF Deleting
  <2> QED
    BY <1>4, <2>1 DEF AloneSound, Holding
<1>5. CASE r.at = "idle"
  BY <1>5 DEF AloneSound
<1>6. r.at \in {"idle", "list_trips", "read_trips", "delete"}
  BY <1>1, RequestKinds DEF Idle, Listing, Reading, Deleting
<1> QED
  BY <1>2, <1>3, <1>4, <1>5, <1>6

LEMMA IdleSound == AloneSound(Idle)
BY DEF AloneSound, Idle

\* The seats an option has, with what a request without company writes.
LEMMA AloneWrites ==
  ASSUME TypeOK, TypeOK', NEW c \in Clients, AloneSound(requests[c]), AddWrites(c)
  PROVE  \E o \in Options :
           /\ options[o] /= NoOption
           /\ Taken(o)' <= options[o].capacity
           /\ \A t \in Trips, p \in Options \ {o} : pins'[t][p] = pins[t][p]
<1> DEFINE r == requests[c]
<1>0. PICK o \in Options : o = r.option
  BY RequestKinds DEF TypeOK, AddWrites, Reading
<1>1. r \in Reading /\ r.left = {} /\ Fits(r)
  BY RequestKinds DEF TypeOK, AddWrites
<1>2. /\ r.taken \in Nat /\ r.trip \in Trips /\ r.ask \in Pin
      /\ r.capacity \in 1..MaxSeats
  BY <1>1 DEF Reading
<1>3. /\ pins \in Tables /\ pins' \in Tables
      /\ \A t \in Trips, p \in Options : pins'[t][p] = IF t = r.trip /\ p = o THEN r.ask ELSE pins[t][p]
  BY <1>0, <1>2 DEF AddWrites, Pinning, TypeOK, Tables
<1>4. options[o].capacity = r.capacity /\ options[o] /= NoOption
  BY <1>0, <1>1, <1>2, SeatsAssumption DEF AloneSound, AddWrites, NoOption
<1> DEFINE some == Trips \ Uncounted(r)
<1>5. SumOf(pins, o, some) <= r.taken
  BY <1>0 DEF AloneSound, AddWrites, Counted
<1>6. \A t \in Trips : Seats(pins[t][o]) \in Nat
  BY <1>2, <1>3, SeatsTyped DEF Tables
<1>7. \A t \in Trips \ {r.trip} : t \in Trips => t \in some /\ Seats(pins'[t][o]) <= Seats(pins[t][o])
  BY <1>1, <1>2, <1>3, <1>6 DEF Uncounted
<1>8. Seats(pins'[r.trip][o]) <= r.ask.party /\ r.ask.party \in Nat
  BY <1>2, <1>3, SeatsTyped
<1>9. SumOf(pins', o, Trips) <= SumOf(pins, o, some) + r.ask.party
  <2> HIDE DEF some, r
  <2> QED
    BY <1>2, <1>3, <1>7, <1>8, SumGrows
<1>10. r.ask.party <= r.capacity - r.taken /\ r.capacity \in Nat
  BY <1>1, <1>2, SeatsAssumption DEF Fits
<1>11. SumOf(pins', o, Trips) \in Nat /\ SumOf(pins, o, some) \in Nat
  BY <1>2, <1>3, SeatsOfTyped
<1>12. SumOf(pins', o, Trips) <= options[o].capacity
  <2> HIDE DEF some, r
  <2> QED
    BY <1>2, <1>4, <1>5, <1>8, <1>9, <1>10, <1>11
<1>13. Taken(o)' <= options[o].capacity
  <2>1. \A p : SeatsOf(pins', p, Trips) = [t \in Trips |-> Seats(pins'[t][p])]
    BY DEF SeatsOf
  <2> QED
    BY <1>12, <2>1 DEF SumOf, Taken
<1> QED
  BY <1>3, <1>4, <1>13


LEMMA ClientLeaves ==
  ASSUME TypeOK, NEW c \in Clients, ClientStep(c)
  PROVE  live' = live /\ \A d \in Clients \ {c} : requests'[d] = requests[d]
<1>1. ASSUME NEW request, Becomes(c, request)
      PROVE  \A d \in Clients \ {c} : requests'[d] = requests[d]
  BY <1>1 DEF Becomes, TypeOK
<1> QED
  BY <1>1 DEF ClientStep, AddReadsOption, AddListsTrips, AddReadsTrip, AddWrites, Remove, CreateOption,
              UpdateOption, DeleteLooks, DeleteWrites, Refuse

\* The request of the client at work stays sound, and no held option goes.
LEMMA ClientAlone ==
  ASSUME TypeOK, TypeOK', NEW c \in Clients, ClientStep(c), AloneSound(requests[c]), PinsNameOptions,
         requests'[c].at = "delete" => requests'[c].asked
  PROVE  AloneSound(requests[c])' /\ PinsNameOptions'
<1>0. NoOption \notin Option /\ \A o \in Options : options[o] \in Option \cup {NoOption}
  BY DEF TypeOK, NoOption, Option
<1>1. ASSUME NEW t \in Trips, NEW o \in Options, NEW ask \in Pin, AddReadsOption(c, t, o, ask)
      PROVE  AloneSound(requests[c])' /\ PinsNameOptions'
  <2>1. /\ requests'[c] = [at |-> "list_trips", trip |-> t, option |-> o, ask |-> ask,
                           capacity |-> options[o].capacity]
        /\ UNCHANGED <<options, live, pins>>
    BY <1>1 DEF AddReadsOption, Becomes, TypeOK
  <2> QED
    BY <2>1 DEF AloneSound, PinsNameOptions, Holding
<1>2. ASSUME AddListsTrips(c) PROVE AloneSound(requests[c])' /\ PinsNameOptions'
  <2>1. Counted(requests'[c], Trips) /\ pins' = pins
    BY <1>2, ListedCounts
  <2>2. /\ requests'[c].at = "read_trips" /\ requests'[c].option = requests[c].option
        /\ requests'[c].capacity = requests[c].capacity /\ options' = options
        /\ options[requests[c].option].capacity = requests[c].capacity
    BY <1>2 DEF AddListsTrips, Becomes, TypeOK, AloneSound
  <2> QED
    BY <2>1, <2>2 DEF AloneSound, Counted, PinsNameOptions, Holding
<1>3. ASSUME NEW t \in Trips, AddReadsTrip(c, t) PROVE AloneSound(requests[c])' /\ PinsNameOptions'
  <2>1. requests[c].at = "read_trips" /\ Counted(requests[c], Trips)
    BY <1>3 DEF AddReadsTrip, AloneSound
  <2>2. Counted(requests'[c], Trips) /\ pins' = pins
    BY <1>3, <2>1, ReadCounts
  <2>3. requests[c] \in Reading
    BY <2>1, RequestKinds DEF TypeOK
  <2> DEFINE r == requests[c]
             seats == IF t = r.trip THEN 0 ELSE Seats(pins[t][r.option])
  <2>4. requests'[c] = [r EXCEPT !.left = @ \ {t}, !.taken = @ + seats] /\ options' = options
    BY <1>3 DEF AddReadsTrip, Becomes, TypeOK
  <2>5. /\ requests'[c].at = "read_trips" /\ requests'[c].option = r.option
        /\ requests'[c].capacity = r.capacity /\ options[r.option].capacity = r.capacity
    BY <2>1, <2>3, <2>4 DEF Reading, AloneSound
  <2> QED
    BY <2>2, <2>4, <2>5 DEF AloneSound, Counted, PinsNameOptions, Holding
<1>4. ASSUME AddWrites(c) PROVE AloneSound(requests[c])' /\ PinsNameOptions'
  <2>1. requests'[c] = Idle /\ options' = options
    BY <1>4 DEF AddWrites, Becomes, TypeOK
  <2>2. PICK o \in Options : /\ options[o] /= NoOption
                             /\ \A t \in Trips, p \in Options \ {o} : pins'[t][p] = pins[t][p]
    BY <1>4, AloneWrites
  <2> QED
    BY <2>1, <2>2 DEF AloneSound, PinsNameOptions, Holding, Idle
<1>5. ASSUME NEW t \in Trips, NEW o \in Options, Remove(c, t, o)
      PROVE  AloneSound(requests[c])' /\ PinsNameOptions'
  <2>1. requests'[c] = Idle /\ options' = options /\ \A p \in Options : Holding(p)' \subseteq Holding(p)
    BY <1>5 DEF Remove, Free, Pinning, TypeOK, Holding
  <2> QED
    BY <2>1 DEF AloneSound, PinsNameOptions, Idle
<1>6. ASSUME NEW o \in Options, NEW option \in Option, CreateOption(c, o, option) \/ UpdateOption(c, o, option)
      PROVE  AloneSound(requests[c])' /\ PinsNameOptions'
  <2>1. requests'[c] = Idle /\ pins' = pins /\ options' = [options EXCEPT ![o] = option]
    BY <1>6 DEF CreateOption, UpdateOption, Free
  <2>2. \A p \in Options : options[p] /= NoOption => options'[p] /= NoOption
    BY <1>0, <2>1 DEF TypeOK
  <2> QED
    BY <2>1, <2>2 DEF AloneSound, PinsNameOptions, Holding, Idle
<1>7. ASSUME NEW o \in Options, NEW asked \in {TRUE, ~Outages}, DeleteLooks(c, o, asked)
      PROVE  AloneSound(requests[c])' /\ PinsNameOptions'
  <2>1. requests'[c] = [at |-> "delete", option |-> o, asked |-> asked] /\ UNCHANGED <<options, live, pins>>
    BY <1>7 DEF DeleteLooks, Becomes, TypeOK
  <2>2. Holding(o) = {}
    BY <1>7, <2>1 DEF DeleteLooks
  <2> QED
    BY <2>1, <2>2 DEF AloneSound, PinsNameOptions, Holding
<1>8. ASSUME DeleteWrites(c) PROVE AloneSound(requests[c])' /\ PinsNameOptions'
  <2> DEFINE o == requests[c].option
  <2>1. /\ requests'[c] = Idle /\ pins' = pins /\ options' = [options EXCEPT ![o] = NoOption]
        /\ Holding(o) = {}
    BY <1>8 DEF DeleteWrites, Becomes, TypeOK, AloneSound
  <2>2. \A p \in Options : p /= o => options'[p] = options[p]
    BY <2>1 DEF TypeOK
  <2> QED
    BY <2>1, <2>2 DEF AloneSound, PinsNameOptions, Holding, Idle
<1>9. ASSUME Refuse(c) PROVE AloneSound(requests[c])' /\ PinsNameOptions'
  <2>1. requests'[c] = Idle /\ UNCHANGED <<options, live, pins>>
    BY <1>9 DEF Refuse, Becomes, TypeOK
  <2> QED
    BY <2>1 DEF AloneSound, PinsNameOptions, Holding, Idle
<1> QED
  BY <1>1, <1>2, <1>3, <1>4, <1>5, <1>6, <1>7, <1>8, <1>9 DEF ClientStep

Watched == [Next /\ strained' = (strained \/ Strains)]_watchedVars

LEMMA AloneStep == TypeOK /\ TypeOK' /\ AloneInv /\ Watched => AloneInv'
<1> SUFFICES ASSUME TypeOK, TypeOK', AloneInv, Watched, ~strained'
             PROVE  OneRequest' /\ PinsNameOptions' /\ \A c \in Clients : AloneSound(requests[c])'
  BY DEF AloneInv
<1>1. CASE UNCHANGED watchedVars
  BY <1>1 DEF watchedVars, vars, AloneInv, OneRequest, PinsNameOptions, AloneSound, Counted, Holding
<1>2. CASE Next /\ strained' = (strained \/ Strains)
  <2>1. /\ OneRequest' /\ PinsNameOptions /\ \A c \in Clients : AloneSound(requests[c])
        /\ \A c \in Clients : requests[c] /= Idle /\ requests'[c] = requests[c] =>
             options' = options /\ (pins' = pins \/ live' /= live)
    BY <1>2, CalmStep
  <2>2. ASSUME NEW c \in Clients, ClientStep(c)
        PROVE  PinsNameOptions' /\ \A d \in Clients : AloneSound(requests[d])'
    <3>1. requests'[c].at = "delete" => requests'[c].asked
      BY <1>2 DEF Strains
    <3>2. PinsNameOptions' /\ AloneSound(requests[c])'
      BY <2>1, <2>2, <3>1, ClientAlone
    <3>3. ASSUME NEW d \in Clients \ {c} PROVE AloneSound(requests[d])'
      <4>1. requests'[d] = requests[d] /\ live' = live
        BY <2>2, ClientLeaves
      <4>2. CASE requests[d] = Idle
        BY <4>1, <4>2 DEF AloneSound, Idle
      <4>3. CASE requests[d] /= Idle
        BY <2>1, <4>1, <4>3, AloneKeeps
      <4> QED
        BY <4>2, <4>3
    <3> QED
      BY <3>2, <3>3
  <2>3. ASSUME NEW t \in Trips, CreateTrip(t) \/ DeleteTrip(t)
        PROVE  PinsNameOptions' /\ \A d \in Clients : AloneSound(requests[d])'
    <3>1. /\ UNCHANGED <<options, requests>>
          /\ \A u \in Trips, o \in Options : pins'[u][o] \in {NoPin, pins[u][o]}
      BY <2>3, DeleteTripFacts DEF CreateTrip
    <3>2. PinsNameOptions'
      BY <2>1, <3>1 DEF PinsNameOptions, Holding
    <3> QED
      BY <2>1, <3>1, <3>2, AloneKeeps
  <2> QED
    BY <1>2, <2>1, <2>2, <2>3 DEF Next
<1> QED
  BY <1>1, <1>2 DEF Watched

LEMMA InitAlone == WatchedInit => TypeOK /\ AloneInv
BY InitTyped DEF WatchedInit, Init, AloneInv, OneRequest, PinsNameOptions, Holding, AloneSound, Idle

LEMMA AlwaysAlone == WatchedSpec => [](TypeOK /\ AloneInv)
<1>1. Watched => [Next]_vars
  BY DEF Watched, watchedVars
<1>2. TypeOK /\ AloneInv /\ Watched => (TypeOK /\ AloneInv)'
  BY <1>1, NextTyped, AloneStep
<1>3. Watched <=> [Next /\ strained' = (strained \/ Strains)]_watchedVars
  BY DEF Watched
<1> QED
  BY InitAlone, <1>2, <1>3, PTL DEF WatchedSpec

\* While requests come one at a time and student 1 can be asked, no option that a trip
\* holds is deleted: the look, the deletion and the write agree on one state.
THEOREM HeldOptionsStayAlone == WatchedSpec => []PinsNameOptionsAlone
<1>1. AloneInv => PinsNameOptionsAlone
  BY DEF AloneInv, PinsNameOptionsAlone
<1> QED
  BY AlwaysAlone, <1>1, PTL

\* A step that takes seats is a write of a request; the seats then taken fit the option.
LEMMA StepFits ==
  ASSUME TypeOK, TypeOK', AloneInv, Watched, ~strained', NEW o \in Options, Taken(o)' > Taken(o)
  PROVE  Taken(o)' <= options[o].capacity
<1>0. pins \in Tables /\ pins' \in Tables
  BY TablesTyped DEF TypeOK, Tables
<1>1. Taken(o) = SumOf(pins, o, Trips) /\ Taken(o)' = SumOf(pins', o, Trips)
  <2>1. \A p : SeatsOf(pins', p, Trips) = [t \in Trips |-> Seats(pins'[t][p])]
    BY DEF SeatsOf
  <2> QED
    BY <2>1, TakenIsSum DEF Taken, SumOf
<1>2. SumOf(pins, o, Trips) \in Nat /\ SumOf(pins', o, Trips) \in Nat
  BY <1>0, SeatsOfTyped
<1>3. ASSUME \A t \in Trips : pins'[t][o] \in {NoPin, pins[t][o]} PROVE FALSE
  <2>1. ASSUME NEW t \in Trips PROVE Seats(pins'[t][o]) <= Seats(pins[t][o])
    <3>1. Seats(NoPin) = 0 /\ Seats(pins[t][o]) \in Nat
      BY SeatsTyped DEF TypeOK
    <3> QED
      BY <1>3, <3>1
  <2>2. SumOf(pins', o, Trips) <= SumOf(pins, o, Trips)
    BY <1>0, <2>1, SumShrinks
  <2> QED
    BY <1>1, <1>2, <2>2
<1>4. Next /\ strained' = (strained \/ Strains)
  BY <1>3 DEF Watched, watchedVars, vars
<1>5. \A c \in Clients : AloneSound(requests[c])
  BY <1>4, CalmStep
<1>6. ASSUME NEW c \in Clients, AddWrites(c) PROVE Taken(o)' <= options[o].capacity
  <2>1. PICK p \in Options : /\ Taken(p)' <= options[p].capacity
                             /\ \A t \in Trips, q \in Options \ {p} : pins'[t][q] = pins[t][q]
    BY <1>5, <1>6, AloneWrites
  <2>2. o = p
    BY <1>3, <2>1
  <2> QED
    BY <2>1, <2>2
<1>7. ASSUME NEW c \in Clients, ClientStep(c), ~AddWrites(c) PROVE FALSE
  <2>1. \A t \in Trips : pins'[t][o] \in {NoPin, pins[t][o]}
    <3>1. CASE pins' = pins
      BY <3>1
    <3>2. ASSUME NEW t \in Trips, NEW p \in Options, Remove(c, t, p)
          PROVE  \A u \in Trips : pins'[u][o] \in {NoPin, pins[u][o]}
      BY <3>2 DEF Remove, Pinning, TypeOK
    <3> QED
      BY <1>7, <3>1, <3>2 DEF ClientStep, AddReadsOption, AddListsTrips, AddReadsTrip, CreateOption,
                              UpdateOption, DeleteLooks, DeleteWrites, Refuse
  <2> QED
    BY <1>3, <2>1
<1>8. ASSUME NEW t \in Trips, CreateTrip(t) \/ DeleteTrip(t) PROVE FALSE
  <2>1. \A u \in Trips : pins'[u][o] \in {NoPin, pins[u][o]}
    BY <1>8, DeleteTripFacts DEF CreateTrip
  <2> QED
    BY <1>3, <2>1
<1> QED
  BY <1>4, <1>6, <1>7, <1>8 DEF Next

\* While requests come one at a time no selection oversubscribes an option, however
\* trips come and go between the reads of a request.
THEOREM SelectionsFitTheirOption == WatchedSpec => SelectionsFitAlone
<1>1. TypeOK /\ TypeOK' /\ AloneInv /\ Watched =>
        [~strained' => \A o \in Options : Taken(o)' > Taken(o) /\ options[o] /= NoOption =>
                                            Taken(o)' <= options[o].capacity]_watchedVars
  BY StepFits
<1>2. Watched <=> [Next /\ strained' = (strained \/ Strains)]_watchedVars
  BY DEF Watched
<1> QED
  BY AlwaysAlone, <1>1, <1>2, PTL DEF WatchedSpec, SelectionsFitAlone
===============================================================================
