----------------------------- MODULE Services_proof -----------------------------
(***************************************************************************)
(* TLAPS proofs about services that the other parts call, each for itself: *)
(* the index of documents (RagIndex), the shared tables of places and      *)
(* currencies with the caches in front of them (SharedReference,           *)
(* PlaceNames), the pages on which agent runs are decided (AgentPages) and *)
(* the other pages of the frontends (WebPages), and the suggestions for a  *)
(* day of a trip (TripSuggestions).                                        *)
(***************************************************************************)
EXTENDS RagIndex, PlaceNames, AgentPages, WebPages, TripSuggestions,
        NaturalsInduction, FiniteSetTheorems, SequenceTheorems, TLAPS

-----------------------------------------------------------------------------
(* RagIndex: for any sources, manifests, models and dimensions, and any    *)
(* number of ingest commands and queries, the index is whole and fresh,    *)
(* and what a query reads is one published corpus.                         *)

\* An ingest command at work.
Rows == [at : {"read", "embed"}, model : Models, left : Seq(Sources),
         prior : SUBSET Chunks, dim : Dims \cup {NoDim},
         documents : SUBSET Documents, chunks : SUBSET Chunks,
         since : [Sources -> Versions]]

Distinct(m) == \A i, j \in DOMAIN m : m[i] = m[j] => i = j
SourcesOf(documents) == {d.source : d \in documents}
OnePerSource(documents) == \A d1, d2 \in documents : d1.source = d2.source => d1 = d2
Alike(chunks, model, dim) == \A c \in chunks : c.model = model /\ c.dim = dim

\* What was read lies between the files as they were and as they are.
Between(documents, since, now) ==
  /\ \A s \in Sources : since[s] <= now[s]
  /\ \A d \in documents : since[d.source] <= d.version /\ d.version <= now[d.source]

\* What was read and what is left make up a manifest, and every chunk, taken over
\* or new, is of a document that was read and has the model and dimension of the build.
RowSound(build, now) ==
  /\ build.at = "read" <=> build.left /= <<>>
  /\ Distinct(build.left)
  /\ \E m \in Manifests : SourcesOf(build.documents) \cup Listed(build.left) = Listed(m)
  /\ SourcesOf(build.documents) \cap Listed(build.left) = {}
  /\ OnePerSource(build.documents)
  /\ Between(build.documents, build.since, now)
  /\ Section(build.chunks) \subseteq build.documents
  /\ Alike(build.chunks, build.model, build.dim)
  /\ Alike(build.prior, build.model, build.dim)

BuildsSound == \A b \in Builders : builds[b] /= Idle => RowSound(builds[b], files)

IndexSound == index /= NoIndex =>
  /\ \E m \in Manifests : SourcesOf(index.documents) = Listed(m)
  /\ OnePerSource(index.documents)
  /\ Section(index.chunks) = index.documents
  /\ Alike(index.chunks, index.model, index.dim)
  /\ Between(index.documents, index.since, files)

\* A question is asked only when there is an index, and an index is never taken away.
AskedOfIndex == \A q \in Questions : questions[q] /= Idle => index /= NoIndex

IInv == TypeOK /\ BuildsSound /\ IndexSound /\ AskedOfIndex

-----------------------------------------------------------------------------
(* Facts about the data                                                    *)

LEMMA Alternatives == Build = {Idle} \cup Rows /\ Idle \notin Rows
BY DEF Build, Rows, Idle

\* A list is its head and the rest of it.
LEMMA ListStep ==
  ASSUME NEW m \in Seq(Sources), m /= <<>>
  PROVE  /\ Head(m) \in Sources /\ Tail(m) \in Seq(Sources)
         /\ Listed(m) = {Head(m)} \cup Listed(Tail(m))
         /\ Len(m) = 1 <=> Tail(m) = <<>>
         /\ Distinct(m) => Distinct(Tail(m)) /\ Head(m) \notin Listed(Tail(m))
<1>1. /\ Head(m) \in Sources /\ Tail(m) \in Seq(Sources) /\ Len(m) \in Nat /\ Len(m) >= 1
      /\ Head(m) = m[1] /\ Len(Tail(m)) = Len(m) - 1
      /\ DOMAIN m = 1..Len(m) /\ DOMAIN Tail(m) = 1..(Len(m) - 1)
  OBVIOUS
<1>2. \A i \in DOMAIN Tail(m) : Tail(m)[i] = m[i + 1] /\ i + 1 \in DOMAIN m
  BY <1>1
<1>3. \A i \in DOMAIN m : i = 1 \/ (i - 1 \in DOMAIN Tail(m) /\ Tail(m)[i - 1] = m[i])
  BY <1>1, <1>2
<1>4. Listed(m) = {Head(m)} \cup Listed(Tail(m))
  <2>1. ASSUME NEW s \in Listed(m) PROVE s \in {Head(m)} \cup Listed(Tail(m))
    <3> PICK i \in DOMAIN m : s = m[i]
      BY <2>1 DEF Listed
    <3> QED
      BY <1>1, <1>3 DEF Listed
  <2>2. ASSUME NEW s \in Listed(Tail(m)) PROVE s \in Listed(m)
    BY <1>2, <2>2 DEF Listed
  <2>3. Head(m) \in Listed(m)
    BY <1>1 DEF Listed
  <2> QED
    BY <2>1, <2>2, <2>3
<1>5. Len(m) = 1 <=> Tail(m) = <<>>
  BY <1>1, EmptySeq
<1>6. ASSUME Distinct(m)
      PROVE  Distinct(Tail(m)) /\ Head(m) \notin Listed(Tail(m))
  <2>1. Distinct(Tail(m))
    <3> SUFFICES ASSUME NEW i \in DOMAIN Tail(m), NEW j \in DOMAIN Tail(m), Tail(m)[i] = Tail(m)[j]
                 PROVE  i = j
      BY DEF Distinct
    <3>1. m[i + 1] = m[j + 1]
      BY <1>2
    <3>2. i + 1 = j + 1
      BY <1>2, <1>6, <3>1 DEF Distinct
    <3> QED
      BY <1>1, <3>2
  <2>2. Head(m) \notin Listed(Tail(m))
    <3> SUFFICES ASSUME NEW i \in DOMAIN Tail(m), Head(m) = Tail(m)[i]
                 PROVE  FALSE
      BY DEF Listed
    <3>1. m[1] = m[i + 1] /\ 1 \in DOMAIN m
      BY <1>1, <1>2
    <3>2. 1 = i + 1
      BY <1>2, <1>6, <3>1 DEF Distinct
    <3> QED
      BY <1>1, <3>2
  <2> QED
    BY <2>1, <2>2
<1> QED
  BY <1>1, <1>4, <1>5, <1>6

LEMMA EmptyList == Listed(<<>>) = {}
BY DEF Listed

LEMMA SourceAdded ==
  ASSUME NEW documents, NEW d
  PROVE  SourcesOf(documents \cup {d}) = SourcesOf(documents) \cup {d.source}
BY DEF SourcesOf

LEMMA ManifestFacts ==
  ASSUME NEW m \in Manifests
  PROVE  m \in Seq(Sources) /\ m /= <<>> /\ Distinct(m) /\ Listed(m) /= {}
<1>1. m \in Seq(Sources) /\ m /= <<>> /\ Distinct(m)
  BY RagAssumption DEF Distinct
<1> QED
  BY <1>1, ListStep

-----------------------------------------------------------------------------
(* The inductive invariant                                                 *)

\* What holds at the start holds the empty index and no command and no query.
LEMMA InitHolds == Init => IInv
<1> SUFFICES ASSUME Init PROVE IInv
  OBVIOUS
<1>1. 1 \in Versions
  BY RagAssumption DEF Versions
<1>2. TypeOK
  BY <1>1, Alternatives DEF Init, TypeOK, Question
<1>3. BuildsSound /\ IndexSound /\ AskedOfIndex
  BY DEF Init, BuildsSound, IndexSound, AskedOfIndex
<1> QED
  BY <1>2, <1>3 DEF IInv

\* A build stays sound while the sources are written.
LEMMA EditHolds ==
  ASSUME IInv, NEW s \in Sources, Edits(s)
  PROVE  IInv'
<1>1. /\ files \in [Sources -> Versions] /\ files' \in [Sources -> Versions]
      /\ \A t \in Sources : files[t] \in Nat /\ files'[t] \in Nat /\ files[t] <= files'[t]
  BY RagAssumption DEF IInv, TypeOK, Edits, Versions
<1>2. UNCHANGED <<manifest, serves, index, builds, questions>>
  BY DEF Edits
<1>3. TypeOK'
  BY <1>1, <1>2 DEF IInv, TypeOK
<1>4. ASSUME NEW documents \in SUBSET Documents, NEW since \in [Sources -> Versions],
             Between(documents, since, files)
      PROVE  Between(documents, since, files')
  <2>1. \A d \in documents : d.source \in Sources /\ d.version \in Nat
    BY DEF Documents, Versions
  <2>2. \A t \in Sources : since[t] \in Nat
    BY DEF Versions
  <2> QED
    BY <1>1, <1>4, <2>1, <2>2 DEF Between
<1>5. BuildsSound'
  <2> SUFFICES ASSUME NEW b \in Builders, builds[b] /= Idle PROVE RowSound(builds[b], files')
    BY <1>2 DEF BuildsSound
  <2>1. RowSound(builds[b], files) /\ builds[b] \in Rows
    BY Alternatives DEF IInv, BuildsSound, TypeOK
  <2>2. builds[b].documents \in SUBSET Documents /\ builds[b].since \in [Sources -> Versions]
    BY <2>1 DEF Rows
  <2> QED
    BY <1>4, <2>1, <2>2 DEF RowSound
<1>6. IndexSound'
  <2> SUFFICES ASSUME index /= NoIndex PROVE Between(index.documents, index.since, files')
    BY <1>2 DEF IInv, IndexSound
  <2>1. index \in Index
    BY DEF IInv, TypeOK
  <2>2. index.documents \in SUBSET Documents /\ index.since \in [Sources -> Versions]
    BY <2>1 DEF Index
  <2> QED
    BY <1>4, <2>2 DEF IInv, IndexSound
<1>7. AskedOfIndex'
  BY <1>2 DEF IInv, AskedOfIndex
<1> QED
  BY <1>3, <1>5, <1>6, <1>7 DEF IInv

LEMMA OtherEnvironmentHolds ==
  ASSUME IInv, Relists \/ \E m \in Models : Repulls(m)
  PROVE  IInv'
<1>1. UNCHANGED <<files, index, builds, questions>>
  BY DEF Relists, Repulls
<1>2. manifest' \in Manifests /\ serves' \in [Models -> Dims]
  BY DEF IInv, TypeOK, Relists, Repulls
<1> QED
  BY <1>1, <1>2 DEF IInv, TypeOK, BuildsSound, IndexSound, AskedOfIndex

\* A build that becomes another sound one, and leaves the index as it is.
LEMMA TurnHolds ==
  ASSUME IInv, NEW b \in Builders, NEW row, Turns(b, row), UNCHANGED index,
         row = Idle \/ (row \in Rows /\ RowSound(row, files))
  PROVE  IInv'
<1>1. UNCHANGED <<files, manifest, serves, questions>> /\ builds' = [builds EXCEPT ![b] = row]
  BY DEF Turns, environment
<1>2. TypeOK'
  BY <1>1, Alternatives DEF IInv, TypeOK
<1>3. BuildsSound'
  BY <1>1 DEF IInv, TypeOK, BuildsSound
<1>4. IndexSound' /\ AskedOfIndex'
  BY <1>1 DEF IInv, IndexSound, AskedOfIndex
<1> QED
  BY <1>2, <1>3, <1>4 DEF IInv

LEMMA StartHolds ==
  ASSUME IInv, NEW b \in Builders, NEW m \in Models, Starts(b, m)
  PROVE  IInv'
<1> DEFINE row == [at |-> "read", model |-> m, left |-> manifest,
                   prior |-> IF Reusable(m) THEN index.chunks ELSE {},
                   dim |-> IF Reusable(m) THEN index.dim ELSE NoDim,
                   documents |-> {}, chunks |-> {}, since |-> files]
<1>1. Turns(b, row) /\ UNCHANGED index
  BY DEF Starts
<1>2. /\ manifest \in Seq(Sources) /\ manifest /= <<>> /\ Distinct(manifest)
      /\ manifest \in Manifests /\ files \in [Sources -> Versions]
  BY ManifestFacts DEF IInv, TypeOK
<1>3. Reusable(m) => index \in Index /\ index.model = m /\ index.chunks \in SUBSET Chunks
                     /\ index.dim \in Dims /\ Alike(index.chunks, m, index.dim)
  BY DEF Reusable, IInv, TypeOK, Index, IndexSound
<1>4. row.prior \in SUBSET Chunks /\ row.dim \in Dims \cup {NoDim} /\ Alike(row.prior, row.model, row.dim)
  BY <1>3 DEF Alike
<1>5. row \in Rows
  BY <1>2, <1>4 DEF Rows
<1>6. \A s \in Sources : files[s] <= files[s]
  BY <1>2 DEF Versions
<1>7. RowSound(row, files)
  BY <1>2, <1>4, <1>6 DEF RowSound, SourcesOf, OnePerSource, Between, Alike, Section
<1> HIDE DEF row
<1> QED
  BY <1>1, <1>5, <1>7, TurnHolds

LEMMA BuildTyped ==
  ASSUME TypeOK, NEW b \in Builders, builds[b] /= Idle
  PROVE  /\ builds[b] \in Rows
         /\ builds[b].model \in Models /\ builds[b].left \in Seq(Sources)
         /\ builds[b].prior \in SUBSET Chunks /\ builds[b].dim \in Dims \cup {NoDim}
         /\ builds[b].documents \in SUBSET Documents /\ builds[b].chunks \in SUBSET Chunks
         /\ builds[b].since \in [Sources -> Versions]
BY Alternatives DEF TypeOK, Rows

\* A source is read in the version it has now, and its chunks of that version are kept.
LEMMA ReadHolds ==
  ASSUME IInv, NEW b \in Builders, ReadsSource(b)
  PROVE  IInv'
<1> DEFINE build == builds[b]
           s == Head(build.left)
           document == [source |-> s, version |-> files[s]]
           row == [build EXCEPT !.at = IF Len(build.left) = 1 THEN "embed" ELSE "read",
                                !.left = Tail(@),
                                !.documents = @ \cup {document},
                                !.chunks = @ \cup {c \in build.prior : DocumentOf(c) = document}]
<1>1. build.at = "read" /\ Turns(b, row) /\ UNCHANGED index
  BY DEF ReadsSource
<1>2. build /= Idle
  BY <1>1 DEF Idle
<1>3. build \in Rows /\ RowSound(build, files)
  BY <1>2, BuildTyped DEF IInv, BuildsSound
<1>4. /\ build.left \in Seq(Sources) /\ build.left /= <<>>
      /\ build.documents \in SUBSET Documents
      /\ build.since \in [Sources -> Versions] /\ files \in [Sources -> Versions]
  BY <1>1, <1>2, <1>3, BuildTyped DEF RowSound, IInv, TypeOK
<1>5. /\ s \in Sources /\ Tail(build.left) \in Seq(Sources)
      /\ Listed(build.left) = {s} \cup Listed(Tail(build.left))
      /\ Len(build.left) = 1 <=> Tail(build.left) = <<>>
      /\ Distinct(Tail(build.left)) /\ s \notin Listed(Tail(build.left))
  BY <1>3, <1>4, ListStep DEF RowSound
<1>6. /\ row.at = (IF Len(build.left) = 1 THEN "embed" ELSE "read")
      /\ row.left = Tail(build.left)
      /\ row.documents = build.documents \cup {document}
      /\ row.chunks = build.chunks \cup {c \in build.prior : DocumentOf(c) = document}
      /\ row.model = build.model /\ row.prior = build.prior
      /\ row.dim = build.dim /\ row.since = build.since
  BY <1>3 DEF Rows
<1>7. document \in Documents
  BY <1>4, <1>5 DEF Documents
<1>8. row \in Rows
  BY <1>3, <1>5, <1>7 DEF Rows
<1>9. SourcesOf(row.documents) = SourcesOf(build.documents) \cup {s}
  <2>1. document.source = s
    OBVIOUS
  <2> HIDE DEF document
  <2> QED
    BY <1>6, <2>1, SourceAdded
<1>10. \E m \in Manifests : SourcesOf(row.documents) \cup Listed(row.left) = Listed(m)
  BY <1>3, <1>5, <1>6, <1>9 DEF RowSound
<1>11. SourcesOf(row.documents) \cap Listed(row.left) = {} /\ s \notin SourcesOf(build.documents)
  <2>1. SourcesOf(build.documents) \cap Listed(build.left) = {} /\ row.left = Tail(build.left)
    BY <1>3, <1>6 DEF RowSound
  <2> HIDE DEF row, s, document
  <2> QED
    BY <1>5, <1>9, <2>1
<1>12. OnePerSource(row.documents)
  BY <1>3, <1>6, <1>11 DEF RowSound, OnePerSource, SourcesOf
<1>13. Between(row.documents, row.since, files)
  <2>1. build.since[s] <= files[s] /\ files[s] <= files[s]
    BY <1>3, <1>4, <1>5 DEF RowSound, Between, Versions
  <2> QED
    BY <1>3, <1>6, <2>1 DEF RowSound, Between
<1>14. Section(row.chunks) \subseteq row.documents
  BY <1>3, <1>6 DEF RowSound, Section
<1>15. Alike(row.chunks, row.model, row.dim) /\ Alike(row.prior, row.model, row.dim)
  BY <1>3, <1>6 DEF RowSound, Alike
<1>16. row.at = "read" <=> row.left /= <<>>
  BY <1>5, <1>6
<1>17. RowSound(row, files)
  BY <1>5, <1>6, <1>10, <1>11, <1>12, <1>13, <1>14, <1>15, <1>16 DEF RowSound
<1> HIDE DEF row
<1> QED
  BY <1>1, <1>8, <1>17, TurnHolds

\* A chunk of what was read gets a vector of the dimension all the others have.
LEMMA EmbedHolds ==
  ASSUME IInv, NEW b \in Builders, NEW document \in Documents, Embeds(b, document)
  PROVE  IInv'
<1> DEFINE build == builds[b]
           chunk == [source |-> document.source, version |-> document.version,
                     model |-> build.model, dim |-> serves[build.model]]
           row == [build EXCEPT !.chunks = @ \cup {chunk}, !.dim = serves[build.model]]
<1>1. /\ build.at = "embed" /\ document \in Pending(build) /\ SameDimension(build)
      /\ Turns(b, row) /\ UNCHANGED index
  BY DEF Embeds
<1>2. build /= Idle
  BY <1>1 DEF Idle
<1>3. build \in Rows /\ RowSound(build, files)
  BY <1>2, BuildTyped DEF IInv, BuildsSound
<1>4. build.model \in Models /\ serves[build.model] \in Dims /\ NoDim \notin Dims
  BY <1>2, BuildTyped, RagAssumption DEF IInv, TypeOK
<1>5. chunk \in Chunks /\ DocumentOf(chunk) = document
  BY <1>4 DEF Chunks, Documents, DocumentOf
<1>6. /\ row.at = build.at /\ row.left = build.left
      /\ row.documents = build.documents
      /\ row.chunks = build.chunks \cup {chunk}
      /\ row.model = build.model /\ row.prior = build.prior
      /\ row.dim = serves[build.model] /\ row.since = build.since
  BY <1>3 DEF Rows
<1>7. row \in Rows
  BY <1>3, <1>4, <1>5 DEF Rows
<1>8. build.dim = row.dim \/ (build.chunks = {} /\ build.prior = {})
  <2> SUFFICES ASSUME build.dim = NoDim PROVE build.chunks = {} /\ build.prior = {}
    BY <1>1, <1>6 DEF SameDimension
  <2>1. \A c \in build.chunks \cup build.prior : c.dim \in Dims /\ c.dim = NoDim
    BY <1>2, <1>3, BuildTyped DEF IInv, RowSound, Alike, Chunks
  <2> QED
    BY <1>4, <2>1
<1>9. Alike(row.chunks, row.model, row.dim) /\ Alike(row.prior, row.model, row.dim)
  BY <1>3, <1>6, <1>8 DEF RowSound, Alike
<1>10. Section(row.chunks) \subseteq row.documents
  BY <1>1, <1>3, <1>5, <1>6 DEF RowSound, Section, Pending
<1>11. RowSound(row, files)
  BY <1>3, <1>6, <1>9, <1>10 DEF RowSound
<1> HIDE DEF row
<1> QED
  BY <1>1, <1>7, <1>11, TurnHolds

\* The file that replaces the index is whole: nothing is left and nothing pending.
LEMMA WriteHolds ==
  ASSUME IInv, NEW b \in Builders, Writes(b)
  PROVE  /\ IInv' /\ index' \in Index
         /\ Section(index'.chunks) = builds[b].documents
<1> DEFINE build == builds[b]
           new == [model |-> build.model, dim |-> build.dim, since |-> build.since,
                   documents |-> build.documents, chunks |-> build.chunks]
<1>1. build.at = "embed" /\ Pending(build) = {} /\ index' = new /\ Turns(b, Idle)
  BY DEF Writes
<1>2. build /= Idle
  BY <1>1 DEF Idle
<1>3. build \in Rows /\ RowSound(build, files)
  BY <1>2, BuildTyped DEF IInv, BuildsSound
<1>4. UNCHANGED <<files, manifest, serves, questions>> /\ builds' = [builds EXCEPT ![b] = Idle]
  BY <1>1 DEF Turns, environment
<1>5. Section(build.chunks) = build.documents
  BY <1>1, <1>3 DEF Pending, RowSound, Section
<1>6. \E m \in Manifests : SourcesOf(build.documents) = Listed(m)
  BY <1>1, <1>3, EmptyList DEF RowSound
<1>7. build.chunks /= {}
  <2>1. build.documents /= {}
    BY <1>6, ManifestFacts DEF SourcesOf
  <2> QED
    BY <1>5, <2>1 DEF Section
<1>8. build.dim \in Dims
  <2> PICK c \in build.chunks : TRUE
    BY <1>7
  <2>1. c.dim \in Dims /\ c.dim = build.dim
    BY <1>2, <1>3, BuildTyped DEF IInv, RowSound, Alike, Chunks
  <2> QED
    BY <2>1
<1>9. new \in Index
  BY <1>2, <1>8, BuildTyped DEF IInv, Index
<1>10. TypeOK'
  BY <1>1, <1>4, <1>9, Alternatives DEF IInv, TypeOK
<1>11. BuildsSound'
  BY <1>4 DEF IInv, TypeOK, BuildsSound
<1>12. IndexSound'
  BY <1>1, <1>3, <1>4, <1>5, <1>6 DEF IndexSound, RowSound
<1>13. AskedOfIndex'
  BY <1>1, <1>9, RagAssumption DEF AskedOfIndex
<1> QED
  BY <1>1, <1>5, <1>9, <1>10, <1>11, <1>12, <1>13 DEF IInv

LEMMA AbortHolds ==
  ASSUME IInv, NEW b \in Builders, Aborts(b)
  PROVE  IInv'
BY TurnHolds DEF Aborts

\* A question that becomes another one, of an index that is there.
LEMMA BecomeHolds ==
  ASSUME IInv, NEW q \in Questions, NEW question \in Question, Becomes(q, question),
         question = Idle \/ index /= NoIndex
  PROVE  IInv'
<1>1. UNCHANGED <<files, manifest, serves, index, builds>>
      /\ questions' = [questions EXCEPT ![q] = question]
  BY DEF Becomes, environment
<1>2. TypeOK'
  BY <1>1 DEF IInv, TypeOK
<1>3. BuildsSound' /\ IndexSound'
  BY <1>1 DEF IInv, BuildsSound, IndexSound
<1>4. AskedOfIndex'
  BY <1>1 DEF IInv, TypeOK, AskedOfIndex
<1> QED
  BY <1>2, <1>3, <1>4 DEF IInv

\* What a question has when it goes on.
LEMMA QuestionTyped ==
  ASSUME IInv, NEW q \in Questions
  PROVE  /\ questions[q] \in Question
         /\ questions[q] /= Idle => index \in Index
         /\ questions[q].at \in {"search", "select"} => questions[q].dim \in Dims
         /\ questions[q].at \in {"generate", "answered"} => questions[q].chunks \in SUBSET Chunks
<1>1. questions[q] \in Question
  BY DEF IInv, TypeOK
<1>2. questions[q] /= Idle => index \in Index
  BY DEF IInv, TypeOK, AskedOfIndex
<1> QED
  BY <1>1, <1>2 DEF Question, Idle

LEMMA QuestionHolds ==
  ASSUME IInv, NEW q \in Questions, AsksQuestion(q) \/ QuestionStep(q)
  PROVE  IInv'
<1>1. CASE AsksQuestion(q)
  BY <1>1, BecomeHolds DEF AsksQuestion, Ready, Question
<1>2. CASE EmbedsQuery(q)
  <2>1. [at |-> "search", dim |-> serves[ServerModel]] \in Question
    BY RagAssumption DEF IInv, TypeOK, Question
  <2>2. index /= NoIndex
    BY <1>2 DEF EmbedsQuery, Idle, IInv, AskedOfIndex
  <2> QED
    BY <1>2, <2>1, <2>2, BecomeHolds DEF EmbedsQuery
<1>3. CASE Checks(q)
  <2>1. [at |-> "select", dim |-> questions[q].dim] \in Question
    BY <1>3, QuestionTyped DEF Checks, Question
  <2> QED
    BY <1>3, <2>1, BecomeHolds DEF Checks, Ready
<1>4. CASE Selects(q)
  <2>1. index /= NoIndex /\ index.chunks \in SUBSET Chunks
    BY <1>4, QuestionTyped DEF Selects, Idle, IInv, AskedOfIndex, Index
  <2>2. PICK chunks \in (SUBSET index.chunks) \ {{}} : Becomes(q, [at |-> "generate", chunks |-> chunks])
    BY <1>4 DEF Selects
  <2>3. [at |-> "generate", chunks |-> chunks] \in Question
    BY <2>1 DEF Question
  <2> QED
    BY <2>1, <2>2, <2>3, BecomeHolds
<1>5. CASE Cites(q)
  <2>1. index /= NoIndex /\ questions[q].chunks \in SUBSET Chunks
    BY <1>5, QuestionTyped DEF Cites, Idle, IInv, AskedOfIndex
  <2>2. PICK cited \in (SUBSET questions[q].chunks) \ {{}} : Becomes(q, [at |-> "answered", chunks |-> cited])
    BY <1>5 DEF Cites
  <2>3. [at |-> "answered", chunks |-> cited] \in Question
    BY <2>1 DEF Question
  <2> QED
    BY <2>1, <2>2, <2>3, BecomeHolds
<1>6. CASE Ends(q)
  BY <1>6, BecomeHolds DEF Ends, Question
<1> QED
  BY <1>1, <1>2, <1>3, <1>4, <1>5, <1>6 DEF QuestionStep

LEMMA NextHolds == IInv /\ [Next]_vars => IInv'
<1> SUFFICES ASSUME IInv, [Next]_vars PROVE IInv'
  OBVIOUS
<1>1. ASSUME NEW s \in Sources, Edits(s) PROVE IInv'
  BY <1>1, EditHolds
<1>2. CASE Relists \/ \E m \in Models : Repulls(m)
  BY <1>2, OtherEnvironmentHolds
<1>3. ASSUME NEW b \in Builders, BuilderStep(b) PROVE IInv'
  BY <1>3, StartHolds, ReadHolds, EmbedHolds, WriteHolds, AbortHolds DEF BuilderStep
<1>4. ASSUME NEW q \in Questions, AsksQuestion(q) \/ QuestionStep(q) PROVE IInv'
  BY <1>4, QuestionHolds
<1>5. CASE UNCHANGED vars
  BY <1>5 DEF vars, environment, IInv, TypeOK, BuildsSound, IndexSound, AskedOfIndex
<1> QED
  BY <1>1, <1>2, <1>3, <1>4, <1>5 DEF Next

\* What every build has read, what the index file holds and what a question was told
\* go together at every moment: the invariant that the theorems below rest on.
THEOREM Invariant == Spec => []IInv
BY InitHolds, NextHolds, PTL DEF Spec

LEMMA IInvSound == IInv => IndexIsSound
<1> SUFFICES ASSUME IInv PROVE IndexIsWhole /\ IndexIsFresh
  BY DEF IInv, IndexIsSound
<1>1. IndexIsWhole
  BY DEF IInv, IndexSound, IndexIsWhole, SourcesOf, OnePerSource, Section, Alike
<1>2. IndexIsFresh
  <2> SUFFICES ASSUME index /= NoIndex, NEW d \in index.documents
               PROVE  d.version >= index.since[d.source]
    BY DEF IndexIsFresh
  <2>1. d \in Documents /\ index.since \in [Sources -> Versions]
    BY DEF IInv, TypeOK, Index
  <2>2. index.since[d.source] <= d.version
    BY DEF IInv, IndexSound, Between
  <2> QED
    BY <2>1, <2>2 DEF Documents, Versions
<1> QED
  BY <1>1, <1>2

\* Whatever ingest commands overlap, fail or see change under them, the index file
\* holds all sources of a manifest once, chunks of exactly what is recorded, vectors of
\* one model and dimension, and nothing older than the files when its build began.
THEOREM IndexStaysSound == Spec => []IndexIsSound
BY Invariant, IInvSound, PTL

-----------------------------------------------------------------------------
(* The refinement of PublishedCorpus                                       *)

LEMMA InitPublishes == Init => Published!Init
BY DEF Init, Published!Init, Idle

\* A corpus is only replaced by the write of a command, as a whole.
LEMMA WritePublishes ==
  ASSUME IInv, NEW b \in Builders, Writes(b)
  PROVE  Published!Next
<1> DEFINE corpus == IF index = NoIndex THEN {} ELSE Section(index.chunks)
           build == builds[b]
<1>1. /\ index' /= NoIndex /\ Section(index'.chunks) = build.documents
      /\ UNCHANGED <<files, questions>>
  BY WriteHolds, RagAssumption DEF Writes, Turns, environment
<1>2. corpus' = build.documents
  BY <1>1
<1>3. build /= Idle
  BY DEF Writes, Idle
<1>4. build.documents \in SUBSET Documents /\ RowSound(build, files) /\ build.left = <<>>
  BY <1>3, BuildTyped DEF IInv, BuildsSound, RowSound, Writes
<1>5. files \in [Sources -> Versions] /\ build.since \in [Sources -> Versions]
  BY <1>3, BuildTyped DEF IInv, TypeOK
<1>6. build.documents \in SUBSET Published!Sections
  BY <1>4 DEF Documents, Versions, Published!Sections
<1>7. {d.source : d \in build.documents} \in {Listed(m) : m \in Manifests}
  BY <1>4, EmptyList DEF RowSound, SourcesOf
<1>8. \A d \in build.documents : d.version \in 1..files[d.source]
  BY <1>4, <1>5 DEF Documents, Versions, RowSound, Between
<1>9. \A one, other \in build.documents : one.source = other.source => one = other
  BY <1>4 DEF RowSound, OnePerSource
<1> HIDE DEF build
<1>10. Published!Publish(build.documents)
  BY <1>1, <1>2, <1>7, <1>8, <1>9 DEF Published!Publish
<1> QED
  BY <1>2, <1>6, <1>10 DEF Published!Next

LEMMA EditPublishes ==
  ASSUME IInv, NEW s \in Sources, Edits(s)
  PROVE  Published!Next
BY DEF Edits, Published!Next, Published!Edit

\* Nothing else touches the files or the index.
LEMMA StayPublishes ==
  ASSUME UNCHANGED <<files, index, questions>>
  PROVE  UNCHANGED Published!corpusVars
BY DEF Published!corpusVars

\* The sections a question is answered from.
Uses(question) == IF question.at \in {"generate", "answered"} THEN Section(question.chunks) ELSE {}
used == [q \in Questions |-> IF questions[q].at \in {"generate", "answered"}
                             THEN Section(questions[q].chunks) ELSE {}]
corpus == IF index = NoIndex THEN {} ELSE Section(index.chunks)

LEMMA BecomePublishes ==
  ASSUME TypeOK, NEW q \in Questions, NEW question, Becomes(q, question)
  PROVE  /\ used[q] = Uses(questions[q])
         /\ used' = [used EXCEPT ![q] = Uses(question)]
         /\ UNCHANGED <<files, corpus>>
<1>1. questions' = [questions EXCEPT ![q] = question] /\ UNCHANGED <<files, index>>
  BY DEF Becomes, environment
<1>2. UNCHANGED <<files, corpus>>
  BY <1>1 DEF corpus
<1>3. \A r \in Questions : questions'[r] = IF r = q THEN question ELSE questions[r]
  BY <1>1 DEF TypeOK
<1>4. used' = [r \in Questions |-> IF r = q THEN Uses(question) ELSE used[r]]
  BY <1>3 DEF used, Uses
<1>5. used' = [used EXCEPT ![q] = Uses(question)]
  BY <1>4 DEF used
<1>6. used[q] = Uses(questions[q])
  BY DEF used, Uses
<1> QED
  BY <1>2, <1>5, <1>6

\* What a question uses becomes part of the corpus that is there, or of what it used.
LEMMA UsePublishes ==
  ASSUME TypeOK, NEW q \in Questions, NEW question, Becomes(q, question),
         \/ Uses(question) \subseteq Uses(questions[q])
         \/ Uses(questions[q]) = {} /\ Uses(question) \subseteq corpus
  PROVE  Published!Next
<1>1. /\ used[q] = Uses(questions[q])
      /\ used' = [used EXCEPT ![q] = Uses(question)]
      /\ UNCHANGED <<files, corpus>>
  BY BecomePublishes
<1>2. CASE Uses(question) \subseteq Uses(questions[q])
  <2>1. \E sections \in SUBSET used[q] : used' = [used EXCEPT ![q] = sections]
    BY <1>1, <1>2
  <2>2. Published!Cite(q)
    BY <1>1, <2>1 DEF Published!Cite, used, corpus
  <2> QED
    BY <2>2 DEF Published!Next
<1>3. CASE Uses(questions[q]) = {} /\ Uses(question) \subseteq corpus
  <2>1. used[q] = {} /\ \E sections \in SUBSET corpus : used' = [used EXCEPT ![q] = sections]
    BY <1>1, <1>3
  <2>2. Published!Retrieve(q)
    BY <1>1, <2>1 DEF Published!Retrieve, used, corpus
  <2> QED
    BY <2>2 DEF Published!Next
<1> QED
  BY <1>2, <1>3

LEMMA QuestionPublishes ==
  ASSUME IInv, NEW q \in Questions, AsksQuestion(q) \/ QuestionStep(q)
  PROVE  Published!Next
<1>0. TypeOK
  BY DEF IInv
<1>1. ASSUME NEW question, Becomes(q, question), question.at \notin {"generate", "answered"}
      PROVE  Published!Next
  <2>1. Uses(question) = {}
    BY <1>1 DEF Uses
  <2> QED
    BY <1>0, <1>1, <2>1, UsePublishes
<1>2. CASE AsksQuestion(q) \/ EmbedsQuery(q) \/ Checks(q) \/ Ends(q)
  BY <1>1, <1>2 DEF AsksQuestion, EmbedsQuery, Checks, Ends, Idle
<1>3. CASE Selects(q)
  <2>1. index /= NoIndex
    BY <1>3 DEF Selects, Idle, IInv, AskedOfIndex
  <2>2. PICK chunks \in SUBSET index.chunks : Becomes(q, [at |-> "generate", chunks |-> chunks])
    BY <1>3 DEF Selects
  <2>3. Uses([at |-> "generate", chunks |-> chunks]) = Section(chunks)
    BY DEF Uses
  <2>4. Section(chunks) \subseteq corpus
    BY <2>1 DEF corpus, Section
  <2>5. Uses(questions[q]) = {}
    BY <1>3 DEF Selects, Uses
  <2> QED
    BY <1>0, <2>2, <2>3, <2>4, <2>5, UsePublishes
<1>4. CASE Cites(q)
  <2>1. questions[q].at = "generate"
    BY <1>4 DEF Cites
  <2>2. PICK cited \in SUBSET questions[q].chunks : Becomes(q, [at |-> "answered", chunks |-> cited])
    BY <1>4 DEF Cites
  <2>3. Uses([at |-> "answered", chunks |-> cited]) = Section(cited)
    BY DEF Uses
  <2>4. Section(cited) \subseteq Uses(questions[q])
    BY <2>1 DEF Uses, Section
  <2> QED
    BY <1>0, <2>2, <2>3, <2>4, UsePublishes
<1> QED
  BY <1>2, <1>3, <1>4 DEF QuestionStep

LEMMA NextPublishes == IInv /\ [Next]_vars => [Published!Next]_(Published!corpusVars)
<1> SUFFICES ASSUME IInv, [Next]_vars PROVE Published!Next \/ UNCHANGED Published!corpusVars
  OBVIOUS
<1>1. ASSUME NEW s \in Sources, Edits(s) PROVE Published!Next
  BY <1>1, EditPublishes
<1>2. CASE Relists \/ (\E m \in Models : Repulls(m)) \/ UNCHANGED vars
  BY <1>2, StayPublishes DEF Relists, Repulls, vars, environment
<1>3. ASSUME NEW b \in Builders, BuilderStep(b)
      PROVE  Published!Next \/ UNCHANGED Published!corpusVars
  <2>1. CASE Writes(b)
    BY <2>1, WritePublishes
  <2>2. CASE ~Writes(b)
    <3>1. UNCHANGED <<files, index, questions>>
      BY <1>3, <2>2 DEF BuilderStep, Starts, ReadsSource, Embeds, Aborts, Turns, environment
    <3> QED
      BY <3>1, StayPublishes
  <2> QED
    BY <2>1, <2>2
<1>4. ASSUME NEW q \in Questions, AsksQuestion(q) \/ QuestionStep(q) PROVE Published!Next
  BY <1>4, QuestionPublishes
<1> QED
  BY <1>1, <1>2, <1>3, <1>4 DEF Next

\* However builds, edits and queries overlap, a reader sees what PublishedCorpus says:
\* a corpus is replaced as a whole by one that a manifest and the files made, and a
\* question is answered from sections of one corpus.
THEOREM IndexImplementsCorpus == Spec => ImplementsCorpus
BY InitPublishes, NextPublishes, Invariant, PTL DEF Spec, ImplementsCorpus, Published!Spec

-----------------------------------------------------------------------------
(* SharedReference: callers racing to create rows                          *)

CreateRecord == [at : CreateSteps, key : RefKey \cup {NoKey}, created : BOOLEAN,
                 answer : CreateAnswers, began : SUBSET RefKey]

CurrenciesAmong(keys, country) == {k \in keys : k.kind = "currency" /\ k.country = country}

\* What an answered request told, against the keys that are stored.
AnswerHolds(create, keys) ==
  \/ create.answer = "created" /\ create.key \in keys /\ create.key \notin create.began
  \/ create.answer = "ok" /\ create.key \in keys
  \/ /\ create.answer = "conflict"
     /\ CurrenciesAmong(keys, create.key.country) \ {create.key} /= {}
  \/ create.answer = "not found" /\ CountryKey(create.key.country) \notin create.began
  \/ /\ create.answer = "error" /\ create.key \notin create.began
     /\ \/ create.key \in keys
        \/ create.key.kind = "currency" /\ CurrenciesAmong(keys, create.key.country) /= {}
     /\ create.key.kind = "currency" => CurrenciesAmong(create.began, create.key.country) = {}

\* What a request under way has found out, and relies on later.
CreateSound(create, keys) ==
  /\ create.at /= "idle" => create.key \in RefKey
  /\ create.began \subseteq keys
  /\ create.at = "country" => create.key.kind /= "country"
  /\ create.at = "currency" => create.key.kind = "currency"
  /\ create.at \in {"currency", "flag", "look", "insert"} /\ create.key.kind /= "country" =>
       CountryKey(create.key.country) \in keys
  /\ create.at \in {"flag", "look", "insert"} /\ create.key.kind = "currency" =>
       CurrenciesAmong(create.began, create.key.country) \subseteq {create.key}
  /\ create.at \in {"look", "insert"} /\ create.created => create.key \notin create.began
  /\ create.at = "insert" => create.key \notin create.began
  /\ create.at = "done" => AnswerHolds(create, keys)

RowsInv ==
  /\ reference \subseteq RefRow
  /\ IsFiniteSet(reference)
  /\ \A r, q \in reference : r.key = q.key => r = q
  /\ \A k \in KeysOf(reference) : CountryKey(k.country) \in KeysOf(reference)
  /\ \A j, k \in KeysOf(reference) :
       j.kind = "currency" /\ k.kind = "currency" /\ j.country = k.country => j = k

RefInv ==
  /\ RowsInv
  /\ creates \in [Creators -> CreateRecord]
  /\ \A c \in Creators : CreateSound(creates[c], KeysOf(reference))

LEMMA KeyFacts ==
  /\ \A k \in RefKey : k.country \in Places /\ k.name \in Places /\ k.kind \in Kinds
  /\ \A k \in RefKey : k.kind = "country" => k = CountryKey(k.country)
  /\ \A k \in RefKey : k = [kind |-> k.kind, country |-> k.country, name |-> k.name]
  /\ NoKey \notin RefKey
<1> SUFFICES ASSUME NEW k \in RefKey
             PROVE  /\ k.country \in Places /\ k.name \in Places /\ k.kind \in Kinds
                    /\ k.kind = "country" => k = CountryKey(k.country)
                    /\ k = [kind |-> k.kind, country |-> k.country, name |-> k.name]
                    /\ k /= NoKey
  OBVIOUS
<1>1. CASE k \in {[kind |-> "country", country |-> c, name |-> c] : c \in Places}
  BY <1>1 DEF Kinds, CountryKey, NoKey
<1>2. ASSUME NEW kind \in {"city", "currency"}, NEW c \in Places, NEW n \in Places,
             k = [kind |-> kind, country |-> c, name |-> n]
      PROVE  /\ k.country \in Places /\ k.name \in Places /\ k.kind \in Kinds
             /\ k.kind /= "country"
             /\ k = [kind |-> k.kind, country |-> k.country, name |-> k.name]
             /\ k /= NoKey
  BY <1>2 DEF Kinds, NoKey
<1> QED
  BY <1>1, <1>2 DEF RefKey

LEMMA SeedFacts ==
  /\ SeedRows \subseteq RefRow /\ IsFiniteSet(SeedRows)
  /\ \A r, q \in SeedRows : r.key = q.key => r = q
  /\ \A k \in KeysOf(SeedRows) : CountryKey(k.country) \in KeysOf(SeedRows)
  /\ \A j, k \in KeysOf(SeedRows) :
       j.kind = "currency" /\ k.kind = "currency" /\ j.country = k.country => j = k
<1> USE ReferenceAssumption
<1>1. SeedRows \subseteq RefRow
  BY DEF SeedRows, RefRow, RefKey, RefBody, CountryKey, CityKey
<1>2. IsFiniteSet(SeedRows)
  <2>1. /\ IsFiniteSet({[key |-> CountryKey(c), body |-> "seed"] : c \in SeedCountries})
        /\ IsFiniteSet({[key |-> CityKey(c, c), body |-> "seed"] : c \in SeedCountries})
        /\ IsFiniteSet({[key |-> [kind |-> "currency", country |-> c, name |-> c], body |-> "seed"] :
                          c \in SeedCountries})
    <3> DEFINE F1 == [c \in SeedCountries |-> [key |-> CountryKey(c), body |-> "seed"]]
               F2 == [c \in SeedCountries |-> [key |-> CityKey(c, c), body |-> "seed"]]
               F3 == [c \in SeedCountries |->
                        [key |-> [kind |-> "currency", country |-> c, name |-> c], body |-> "seed"]]
               T(f) == {f[c] : c \in SeedCountries}
    <3>1. \A f : f = [c \in SeedCountries |-> f[c]] => f \in Surjection(SeedCountries, T(f))
      BY DEF Surjection
    <3>2. \A f : f \in Surjection(SeedCountries, T(f)) => IsFiniteSet(T(f))
      BY FS_Surjection
    <3>3. IsFiniteSet(T(F1)) /\ IsFiniteSet(T(F2)) /\ IsFiniteSet(T(F3))
      BY <3>1, <3>2
    <3> QED
      BY <3>3
  <2> QED
    BY <2>1, FS_Union DEF SeedRows
<1>3. \A r, q \in SeedRows : r.key = q.key => r = q
  BY DEF SeedRows, CountryKey, CityKey
<1>4. ASSUME NEW k \in KeysOf(SeedRows) PROVE CountryKey(k.country) \in KeysOf(SeedRows)
  <2>1. k.country \in SeedCountries
    BY DEF KeysOf, SeedRows, CountryKey, CityKey
  <2>2. [key |-> CountryKey(k.country), body |-> "seed"] \in SeedRows
    BY <2>1 DEF SeedRows
  <2> QED
    BY <2>2 DEF KeysOf
<1>5. \A j, k \in KeysOf(SeedRows) :
        j.kind = "currency" /\ k.kind = "currency" /\ j.country = k.country => j = k
  BY DEF KeysOf, SeedRows, CountryKey, CityKey
<1> QED
  BY <1>1, <1>2, <1>3, <1>4, <1>5

LEMMA RefStart == RefInit => RefInv
BY SeedFacts
   DEF RefInit, RefInv, RowsInv, CreateRecord, NoCreate, CreateSteps, CreateAnswers, CreateSound

\* Rows are only added, and what a request relies on stays so.
LEMMA SoundIsStable ==
  ASSUME NEW create, NEW keys, NEW more, keys \subseteq more, CreateSound(create, keys)
  PROVE  CreateSound(create, more)
<1>1. CurrenciesAmong(keys, create.key.country) \subseteq CurrenciesAmong(more, create.key.country)
  BY DEF CurrenciesAmong
<1>2. AnswerHolds(create, keys) => AnswerHolds(create, more)
  BY <1>1 DEF AnswerHolds
<1> QED
  BY <1>2 DEF CreateSound

\* A step of one request that adds no row.
LEMMA QuietCreate ==
  ASSUME RefInv, UNCHANGED reference, NEW c \in Creators, NEW create \in CreateRecord,
         creates' = [creates EXCEPT ![c] = create], CreateSound(create, KeysOf(reference))
  PROVE  RefInv'
BY DEF RefInv, RowsInv, KeysOf

LEMMA AskCreateHolds ==
  ASSUME RefInv, NEW c \in Creators, NEW key \in AskedKeys, AskCreate(c, key)
  PROVE  RefInv'
<1> DEFINE create == [at |-> FirstStep(key), key |-> key, created |-> FALSE, answer |-> "none",
                      began |-> KeysOf(reference)]
<1>1. key \in RefKey /\ KeysOf(reference) \subseteq RefKey
  BY ReferenceAssumption DEF RefInv, RowsInv, RefRow, KeysOf
<1>2. create \in CreateRecord
  BY <1>1 DEF CreateRecord, FirstStep, CreateSteps, CreateAnswers
<1>3. CreateSound(create, KeysOf(reference))
  BY <1>1, KeyFacts DEF CreateSound, FirstStep
<1> QED
  BY <1>2, <1>3, QuietCreate DEF AskCreate

\* The changes of a request's step and of its answer, as records.
LEMMA CreateMoves ==
  ASSUME RefInv, NEW c \in Creators
  PROVE  /\ creates[c] \in CreateRecord
         /\ \A at : Goes(c, at) => creates' = [creates EXCEPT ![c] = [creates[c] EXCEPT !.at = at]]
         /\ \A a : AnswersCreate(c, a) =>
              creates' = [creates EXCEPT ![c] = [creates[c] EXCEPT !.at = "done", !.answer = a]]
BY DEF RefInv, Goes, AnswersCreate, CreateRecord

LEMMA FindsCountryHolds ==
  ASSUME RefInv, NEW c \in Creators, FindsCountry(c)
  PROVE  RefInv'
<1> DEFINE old == creates[c]
<1>1. /\ old \in CreateRecord /\ CreateSound(old, KeysOf(reference)) /\ old.at = "country"
      /\ UNCHANGED reference
  BY CreateMoves DEF RefInv, FindsCountry
<1>2. CASE Stored(CountryKey(old.key.country))
  <2> DEFINE create == [old EXCEPT !.at = IF old.key.kind = "currency" THEN "currency" ELSE "flag"]
  <2>1. creates' = [creates EXCEPT ![c] = create]
    BY <1>2, CreateMoves DEF FindsCountry
  <2>2. create \in CreateRecord
    BY <1>1 DEF CreateRecord, CreateSteps
  <2>3. CreateSound(create, KeysOf(reference))
    BY <1>1, <1>2 DEF CreateSound, CreateRecord, Stored
  <2> QED
    BY <1>1, <2>1, <2>2, <2>3, QuietCreate
<1>3. CASE ~Stored(CountryKey(old.key.country))
  <2> DEFINE create == [old EXCEPT !.at = "done", !.answer = "not found"]
  <2>1. creates' = [creates EXCEPT ![c] = create]
    BY <1>3, CreateMoves DEF FindsCountry
  <2>2. create \in CreateRecord
    BY <1>1 DEF CreateRecord, CreateSteps, CreateAnswers
  <2>3. CreateSound(create, KeysOf(reference))
    BY <1>1, <1>3 DEF CreateSound, CreateRecord, Stored, AnswerHolds
  <2> QED
    BY <1>1, <2>1, <2>2, <2>3, QuietCreate
<1> QED
  BY <1>2, <1>3

LEMMA ChecksCurrencyHolds ==
  ASSUME RefInv, NEW c \in Creators, ChecksCurrency(c)
  PROVE  RefInv'
<1> DEFINE old == creates[c]
<1>1. /\ old \in CreateRecord /\ CreateSound(old, KeysOf(reference)) /\ old.at = "currency"
      /\ UNCHANGED reference
  BY CreateMoves DEF RefInv, ChecksCurrency
<1>2. /\ CurrenciesOf(old.key.country) = CurrenciesAmong(KeysOf(reference), old.key.country)
      /\ CurrenciesAmong(old.began, old.key.country) \subseteq CurrenciesOf(old.key.country)
  BY <1>1 DEF CurrenciesOf, CurrenciesAmong, CreateSound
<1>3. CASE CurrenciesOf(old.key.country) \subseteq {old.key}
  <2> DEFINE create == [old EXCEPT !.at = "flag"]
  <2>1. creates' = [creates EXCEPT ![c] = create]
    BY <1>3, CreateMoves DEF ChecksCurrency
  <2>2. create \in CreateRecord
    BY <1>1 DEF CreateRecord, CreateSteps
  <2>3. CreateSound(create, KeysOf(reference))
    BY <1>1, <1>2, <1>3 DEF CreateSound, CreateRecord
  <2> QED
    BY <1>1, <2>1, <2>2, <2>3, QuietCreate
<1>4. CASE ~(CurrenciesOf(old.key.country) \subseteq {old.key})
  <2> DEFINE create == [old EXCEPT !.at = "done", !.answer = "conflict"]
  <2>1. creates' = [creates EXCEPT ![c] = create]
    BY <1>4, CreateMoves DEF ChecksCurrency
  <2>2. create \in CreateRecord
    BY <1>1 DEF CreateRecord, CreateSteps, CreateAnswers
  <2>3. CreateSound(create, KeysOf(reference))
    BY <1>1, <1>2, <1>4 DEF CreateSound, CreateRecord, AnswerHolds
  <2> QED
    BY <1>1, <2>1, <2>2, <2>3, QuietCreate
<1> QED
  BY <1>3, <1>4

LEMMA ReadsFlagHolds ==
  ASSUME RefInv, NEW c \in Creators, ReadsFlag(c)
  PROVE  RefInv'
<1> DEFINE old == creates[c]
           create == [old EXCEPT !.at = "look", !.created = ~Stored(old.key)]
<1>1. /\ old \in CreateRecord /\ CreateSound(old, KeysOf(reference)) /\ old.at = "flag"
      /\ UNCHANGED reference
  BY CreateMoves DEF RefInv, ReadsFlag
<1> DEFINE missing == ~Stored(old.key)
<1>2. missing \in BOOLEAN /\ (missing => old.key \notin old.began)
  BY <1>1 DEF Stored, CreateSound
<1>3. creates' = [creates EXCEPT ![c] = [old EXCEPT !.at = "look", !.created = missing]]
  <2>1. creates \in [Creators -> CreateRecord]
    BY DEF RefInv
  <2>2. creates' = [creates EXCEPT ![c].at = "look", ![c].created = missing]
    BY DEF ReadsFlag
  <2> HIDE DEF missing
  <2> QED
    BY <2>1, <2>2 DEF CreateRecord
<1> HIDE DEF missing
<1>4. [old EXCEPT !.at = "look", !.created = missing] \in CreateRecord
  BY <1>1, <1>2 DEF CreateRecord, CreateSteps
<1>5. CreateSound([old EXCEPT !.at = "look", !.created = missing], KeysOf(reference))
  BY <1>1, <1>2 DEF CreateSound, CreateRecord
<1> QED
  BY <1>1, <1>3, <1>4, <1>5, QuietCreate

LEMMA LooksAgainHolds ==
  ASSUME RefInv, NEW c \in Creators, LooksAgain(c)
  PROVE  RefInv'
<1> DEFINE old == creates[c]
<1>1. /\ old \in CreateRecord /\ CreateSound(old, KeysOf(reference)) /\ old.at = "look"
      /\ UNCHANGED reference
  BY CreateMoves DEF RefInv, LooksAgain
<1>2. CASE Stored(old.key)
  <2> DEFINE create == [old EXCEPT !.at = "done", !.answer = Answered(c)]
  <2>1. creates' = [creates EXCEPT ![c] = create]
    BY <1>2, CreateMoves DEF LooksAgain
  <2>2. create \in CreateRecord
    BY <1>1 DEF CreateRecord, CreateSteps, CreateAnswers, Answered
  <2>3. CreateSound(create, KeysOf(reference))
    BY <1>1, <1>2 DEF CreateSound, CreateRecord, Stored, AnswerHolds, Answered
  <2> QED
    BY <1>1, <2>1, <2>2, <2>3, QuietCreate
<1>3. CASE ~Stored(old.key)
  <2> DEFINE create == [old EXCEPT !.at = "insert"]
  <2>1. creates' = [creates EXCEPT ![c] = create]
    BY <1>3, CreateMoves DEF LooksAgain
  <2>2. create \in CreateRecord
    BY <1>1 DEF CreateRecord, CreateSteps
  <2>3. CreateSound(create, KeysOf(reference))
    BY <1>1, <1>3 DEF CreateSound, CreateRecord, Stored
  <2> QED
    BY <1>1, <2>1, <2>2, <2>3, QuietCreate
<1> QED
  BY <1>2, <1>3

\* The constraints of the tables let in a row that fits the others.
LEMMA RowFits ==
  ASSUME RowsInv, NEW key \in RefKey, NEW body \in RefBody, ~Conflicts(key),
         key.kind /= "country" => CountryKey(key.country) \in KeysOf(reference),
         reference' = reference \cup {[key |-> key, body |-> body]}
  PROVE  RowsInv' /\ KeysOf(reference)' = KeysOf(reference) \cup {key}
<1> DEFINE row == [key |-> key, body |-> body]
<1>1. row.key = key /\ row \in RefRow /\ reference' = reference \cup {row}
  BY DEF RefRow
<1> HIDE DEF row
<1>2. KeysOf(reference)' = KeysOf(reference) \cup {key}
  BY <1>1 DEF KeysOf
<1>3. reference' \subseteq RefRow /\ IsFiniteSet(reference')
  BY <1>1, FS_AddElement DEF RowsInv
<1>4. \A r, q \in reference' : r.key = q.key => r = q
  <2>1. \A r \in reference : r.key /= key
    BY DEF Conflicts, Stored, KeysOf
  <2> QED
    BY <1>1, <2>1 DEF RowsInv
<1>5. \A k \in KeysOf(reference)' : CountryKey(k.country) \in KeysOf(reference)'
  BY <1>2, KeyFacts DEF RowsInv
<1>6. \A j, k \in KeysOf(reference)' :
        j.kind = "currency" /\ k.kind = "currency" /\ j.country = k.country => j = k
  BY <1>2 DEF RowsInv, Conflicts, CurrenciesOf
<1> QED
  BY <1>2, <1>3, <1>4, <1>5, <1>6 DEF RowsInv

LEMMA InsertsHolds ==
  ASSUME RefInv, NEW c \in Creators, Inserts(c)
  PROVE  RefInv'
<1> DEFINE old == creates[c]
<1>1. old \in CreateRecord /\ CreateSound(old, KeysOf(reference)) /\ old.at = "insert"
  BY CreateMoves DEF RefInv, Inserts
<1>2. old.key \in RefKey
  BY <1>1 DEF CreateSound
<1>3. CASE Conflicts(old.key)
  <2> DEFINE create == [old EXCEPT !.at = "done", !.answer = "error"]
  <2>1. creates' = [creates EXCEPT ![c] = create] /\ UNCHANGED reference
    BY <1>3, CreateMoves DEF Inserts
  <2>2. create \in CreateRecord
    BY <1>1 DEF CreateRecord, CreateSteps, CreateAnswers
  <2>3. old.key \notin old.began
    BY <1>1 DEF CreateSound
  <2>4. old.key.kind = "currency" => CurrenciesAmong(old.began, old.key.country) = {}
    BY <1>1, <2>3 DEF CreateSound, CurrenciesAmong
  <2>5. \/ old.key \in KeysOf(reference)
        \/ old.key.kind = "currency" /\ CurrenciesAmong(KeysOf(reference), old.key.country) /= {}
    BY <1>3 DEF Conflicts, Stored, CurrenciesOf, CurrenciesAmong
  <2>6. CreateSound(create, KeysOf(reference))
    BY <1>1, <2>3, <2>4, <2>5 DEF CreateSound, CreateRecord, AnswerHolds
  <2> QED
    BY <2>1, <2>2, <2>6, QuietCreate
<1>4. CASE ~Conflicts(old.key)
  <2> DEFINE create == [old EXCEPT !.at = "done", !.answer = Answered(c)]
  <2>1. /\ creates' = [creates EXCEPT ![c] = create]
        /\ reference' = reference \cup {[key |-> old.key, body |-> c]}
    BY <1>4, CreateMoves DEF Inserts
  <2>2. old.key.kind /= "country" => CountryKey(old.key.country) \in KeysOf(reference)
    BY <1>1 DEF CreateSound
  <2>3. RowsInv' /\ KeysOf(reference)' = KeysOf(reference) \cup {old.key}
    <3>1. c \in RefBody /\ RowsInv
      BY DEF RefBody, RefInv
    <3> HIDE DEF old
    <3> QED
      BY <1>2, <1>4, <2>1, <2>2, <3>1, RowFits
  <2>4. create \in CreateRecord
    BY <1>1 DEF CreateRecord, CreateSteps, CreateAnswers, Answered
  <2>5. CreateSound(create, KeysOf(reference)')
    BY <1>1, <2>3 DEF CreateSound, CreateRecord, AnswerHolds, Answered
  <2>6. \A d \in Creators : CreateSound(creates[d], KeysOf(reference)')
    BY <2>3, SoundIsStable DEF RefInv
  <2> HIDE DEF create
  <2> QED
    BY <2>1, <2>3, <2>4, <2>5, <2>6 DEF RefInv
<1> QED
  BY <1>3, <1>4

LEMMA RefStep ==
  ASSUME RefInv, RefNext
  PROVE  RefInv'
BY AskCreateHolds, FindsCountryHolds, ChecksCurrencyHolds, ReadsFlagHolds, LooksAgainHolds,
   InsertsHolds DEF RefNext

LEMMA RefRests ==
  ASSUME RefInv, UNCHANGED RefVars
  PROVE  RefInv'
BY DEF RefInv, RowsInv, RefVars, KeysOf

LEMMA RefTells ==
  ASSUME RefInv
  PROVE  RefTypeOK /\ RowsAreWhole /\ OneCurrencyEach /\ AnswersAreTrue
<1>1. RefTypeOK
  BY DEF RefInv, RowsInv, CreateRecord, RefTypeOK
<1>2. RowsAreWhole
  <2>1. ASSUME NEW r \in reference
        PROVE  Cardinality({q \in reference : q.key = r.key}) = 1
    <3>1. {q \in reference : q.key = r.key} = {r}
      BY DEF RefInv, RowsInv
    <3> QED
      BY <3>1, FS_Singleton
  <2>2. \A r \in reference : CountryKey(r.key.country) \in KeysOf(reference)
    BY DEF RefInv, RowsInv, KeysOf
  <2> QED
    BY <2>1, <2>2 DEF RowsAreWhole
<1>3. OneCurrencyEach
  <2> SUFFICES ASSUME NEW country \in Places PROVE Cardinality(CurrenciesOf(country)) <= 1
    BY DEF OneCurrencyEach
  <2>1. \A j, k \in CurrenciesOf(country) : j = k
    BY DEF RefInv, RowsInv, CurrenciesOf
  <2>2. CASE CurrenciesOf(country) = {}
    <3>1. Cardinality(CurrenciesOf(country)) = 0
      BY <2>2, FS_EmptySet
    <3> QED
      BY <3>1
  <2>3. CASE CurrenciesOf(country) /= {}
    <3>1. PICK k : CurrenciesOf(country) = {k}
      BY <2>1, <2>3
    <3>2. Cardinality(CurrenciesOf(country)) = 1
      BY <3>1, FS_Singleton
    <3> QED
      BY <3>2
  <2> QED
    BY <2>2, <2>3
<1>4. \A c \in Creators : creates[c].at = "done" => AnswerHolds(creates[c], KeysOf(reference))
  BY DEF RefInv, CreateSound
<1>5. AnswersAreTrue
  BY <1>4 DEF AnswersAreTrue, AnswerHolds, Stored, CurrenciesOf, CurrenciesAmong
<1> QED
  BY <1>1, <1>2, <1>3, <1>5

-----------------------------------------------------------------------------
(* PlaceNames: a cache that is loaded page by page                         *)

SeekRecord == [at : SeekSteps, place : RefKey \cup {NoKey}, kind : {"country", "city"},
               got : Seq(RefKey), total : Int, countries : Seq(RefKey), loads : Int,
               answer : {"none", "found", "no such place"}, began : SUBSET RefKey,
               torn : BOOLEAN]

RowsOf(keys, kind) == {k \in keys : k.kind = kind}
Rank(keys, k) == Cardinality({j \in RowsOf(keys, k.kind) : Precedes(j, k)})

\* A load that has read so many rows of a kind holds every row that was there when
\* the request began and has fewer rows before it now: an insert only moves a row
\* to a later page.
Gathered(seek, keys) ==
  \A k \in seek.began : k.kind = seek.kind /\ Rank(keys, k) < Len(seek.got) => k \in ToSet(seek.got)

SeekSound(seek, keys) ==
  /\ seek.at /= "idle" => seek.place \in SoughtPlaces
  /\ seek.began \subseteq keys
  /\ seek.at \in {"count", "rows"} =>
       /\ Gathered(seek, keys)
       /\ seek.kind = "city" /\ ~seek.torn => RowsOf(seek.began, "country") \subseteq ToSet(seek.countries)
  /\ seek.at = "done" /\ seek.answer = "no such place" /\ ~seek.torn =>
       ~({CountryKey(seek.place.country), seek.place} \subseteq seek.began)

SeeksInv ==
  /\ seeks \in [Seekers -> SeekRecord]
  /\ \A s \in Seekers : SeekSound(seeks[s], KeysOf(reference))

LEMMA TableKeys ==
  ASSUME NEW table \in SUBSET RefRow, IsFiniteSet(table)
  PROVE  /\ KeysOf(table) \subseteq RefKey
         /\ IsFiniteSet(KeysOf(table))
<1>1. KeysOf(table) \subseteq RefKey
  BY DEF RefRow, KeysOf
<1> DEFINE key == [r \in table |-> r.key]
<1>2. key \in Surjection(table, KeysOf(table))
  BY DEF Surjection, KeysOf
<1>3. IsFiniteSet(KeysOf(table))
  BY <1>2, FS_Surjection
<1> QED
  BY <1>1, <1>3

LEMMA KeysAreFinite ==
  ASSUME RowsInv
  PROVE  /\ KeysOf(reference) \subseteq RefKey
         /\ IsFiniteSet(KeysOf(reference))
BY TableKeys DEF RowsInv

LEMMA RankFacts ==
  ASSUME NEW keys \in SUBSET RefKey, IsFiniteSet(keys), NEW k \in keys
  PROVE  /\ IsFiniteSet(RowsOf(keys, k.kind)) /\ Cardinality(RowsOf(keys, k.kind)) \in Nat
         /\ Rank(keys, k) \in Nat /\ Rank(keys, k) < Cardinality(RowsOf(keys, k.kind))
<1> DEFINE held == RowsOf(keys, k.kind)
           before == {j \in held : Precedes(j, k)}
<1>1. IsFiniteSet(held)
  BY FS_Subset DEF RowsOf
<1>2. k \in held /\ k \notin before
  BY KeyFacts, ReferenceAssumption DEF RowsOf, Precedes
<1>3. IsFiniteSet(before) /\ Cardinality(before) <= Cardinality(held)
      /\ (Cardinality(held) = Cardinality(before) => held = before)
  BY <1>1, FS_Subset
<1>4. Cardinality(held) \in Nat /\ Cardinality(before) \in Nat
  BY <1>1, <1>3, FS_CardinalityType
<1>5. held /= before
  BY <1>2
<1>6. Cardinality(before) < Cardinality(held)
  BY <1>3, <1>4, <1>5
<1> QED
  BY <1>1, <1>4, <1>6 DEF Rank

\* Names, and countries where names are equal, order the rows of a kind.
LEMMA RowsAreOrdered ==
  ASSUME NEW j \in RefKey, NEW k \in RefKey, j.kind = k.kind, j /= k
  PROVE  /\ Precedes(j, k) \/ Precedes(k, j)
         /\ \A i \in RefKey : Precedes(i, j) /\ Precedes(j, k) => Precedes(i, k)
         /\ ~Precedes(j, j)
<1>1. /\ j.name \in Int /\ k.name \in Int /\ j.country \in Int /\ k.country \in Int
      /\ \A i \in RefKey : i.name \in Int /\ i.country \in Int
  BY KeyFacts, ReferenceAssumption
<1>2. j.name /= k.name \/ j.country /= k.country
  BY KeyFacts
<1> QED
  BY <1>1, <1>2 DEF Precedes

LEMMA RanksDiffer ==
  ASSUME NEW keys \in SUBSET RefKey, IsFiniteSet(keys),
         NEW j \in keys, NEW k \in keys, j.kind = k.kind, j /= k
  PROVE  Rank(keys, j) /= Rank(keys, k)
<1>1. ASSUME NEW a \in keys, NEW b \in keys, a.kind = b.kind, a /= b, Precedes(a, b)
      PROVE  Rank(keys, a) < Rank(keys, b)
  <2> DEFINE held == RowsOf(keys, b.kind)
             beforeA == {i \in held : Precedes(i, a)}
             beforeB == {i \in held : Precedes(i, b)}
  <2>1. beforeA \subseteq beforeB
    BY <1>1, RowsAreOrdered DEF RowsOf
  <2>2. a \in beforeB /\ a \notin beforeA
    BY <1>1, RowsAreOrdered DEF RowsOf
  <2>3. IsFiniteSet(beforeB)
    BY FS_Subset DEF RowsOf
  <2>4. /\ IsFiniteSet(beforeA) /\ Cardinality(beforeA) <= Cardinality(beforeB)
        /\ (Cardinality(beforeB) = Cardinality(beforeA) => beforeB = beforeA)
    BY <2>1, <2>3, FS_Subset
  <2>5. Cardinality(beforeA) \in Nat /\ Cardinality(beforeB) \in Nat
    BY <2>3, <2>4, FS_CardinalityType
  <2>6. Cardinality(beforeA) < Cardinality(beforeB)
    BY <2>2, <2>4, <2>5
  <2> QED
    BY <1>1, <2>6 DEF Rank
<1>2. Rank(keys, j) \in Nat /\ Rank(keys, k) \in Nat
  BY RankFacts
<1>3. Precedes(j, k) \/ Precedes(k, j)
  BY RowsAreOrdered
<1> QED
  BY <1>1, <1>2, <1>3

\* Every place in the order is some row's.
LEMMA PlacesAreTaken ==
  ASSUME NEW keys \in SUBSET RefKey, IsFiniteSet(keys), NEW kind,
         NEW i \in 1..Cardinality(RowsOf(keys, kind))
  PROVE  \E k \in RowsOf(keys, kind) : Rank(keys, k) = i - 1
<1> DEFINE held == RowsOf(keys, kind)
           n == Cardinality(held)
           rank == [k \in held |-> Rank(keys, k)]
<1>1. IsFiniteSet(held) /\ n \in Nat
  BY FS_Subset, FS_CardinalityType DEF RowsOf
<1>2. IsFiniteSet(0..n - 1) /\ Cardinality(0..n - 1) = n
  <2> HIDE DEF n
  <2>1. n - 1 \in Int /\ 0 \in Int
    BY <1>1
  <2>2. /\ IsFiniteSet(0..n - 1)
        /\ Cardinality(0..n - 1) = IF 0 > n - 1 THEN 0 ELSE n - 1 - 0 + 1
    BY <2>1, FS_Interval
  <2> QED
    BY <1>1, <2>2
<1>3. rank \in Injection(held, 0..n - 1)
  <2>1. \A k \in held : k \in keys /\ k.kind = kind
    BY DEF RowsOf
  <2>2. \A k \in held : Rank(keys, k) \in 0..n - 1
    BY <1>1, <2>1, RankFacts
  <2>3. \A j, k \in held : rank[j] = rank[k] => j = k
    BY <2>1, RanksDiffer
  <2> QED
    BY <2>2, <2>3 DEF Injection, IsInjective
<1>4. rank \in Surjection(held, 0..n - 1)
  BY <1>1, <1>2, <1>3, FS_Injection
<1>5. i - 1 \in 0..n - 1
  BY <1>1
<1> QED
  BY <1>4, <1>5 DEF Surjection

LEMMA OrderFacts ==
  ASSUME RowsInv, NEW kind
  PROVE  /\ InOrder(kind) \in Seq(RefKey)
         /\ Len(InOrder(kind)) = Cardinality(RowsOf(KeysOf(reference), kind))
         /\ \A k \in RowsOf(KeysOf(reference), kind) :
              /\ Rank(KeysOf(reference), k) + 1 \in 1..Len(InOrder(kind))
              /\ InOrder(kind)[Rank(KeysOf(reference), k) + 1] = k
<1> DEFINE keys == KeysOf(reference)
           held == RowsOf(keys, kind)
           n == Cardinality(held)
           At(i) == CHOOSE k \in held : Rank(keys, k) = i - 1
<1>1. keys \in SUBSET RefKey /\ IsFiniteSet(keys) /\ n \in Nat
  BY KeysAreFinite, FS_Subset, FS_CardinalityType DEF RowsOf
<1>2. \A k \in held : k \in keys /\ k.kind = kind
  BY DEF RowsOf
<1>3. InOrder(kind) = [i \in 1..n |-> At(i)]
  <2>1. held = {k \in KeysOf(reference) : k.kind = kind}
    BY DEF RowsOf
  <2>2. \A k \in held : Rank(keys, k) = Cardinality({j \in held : Precedes(j, k)})
    BY <1>2 DEF Rank
  <2>3. \A i \in 1..n : At(i) = CHOOSE k \in held : Cardinality({j \in held : Precedes(j, k)}) = i - 1
    BY <2>2
  <2>4. InOrder(kind) = [i \in 1..n |->
                           CHOOSE k \in held : Cardinality({j \in held : Precedes(j, k)}) = i - 1]
    BY <2>1 DEF InOrder
  <2> HIDE DEF At, held, n
  <2> QED
    BY <2>3, <2>4
<1>4. \A i \in 1..n : At(i) \in held /\ Rank(keys, At(i)) = i - 1
  BY <1>1, PlacesAreTaken
<1>5. InOrder(kind) \in [1..n -> RefKey]
  <2> HIDE DEF At, n
  <2> QED
    BY <1>1, <1>2, <1>3, <1>4
<1>6. InOrder(kind) \in Seq(RefKey) /\ Len(InOrder(kind)) = n
  <2> HIDE DEF n
  <2> QED
    BY <1>1, <1>5
<1>7. \A i \in 1..n : InOrder(kind)[i] \in held /\ Rank(keys, InOrder(kind)[i]) = i - 1
  <2> HIDE DEF At, n
  <2> QED
    BY <1>3, <1>4
<1>8. ASSUME NEW k \in held
      PROVE  Rank(keys, k) + 1 \in 1..n /\ InOrder(kind)[Rank(keys, k) + 1] = k
  <2>1. Rank(keys, k) \in Nat /\ Rank(keys, k) < n
    BY <1>1, <1>2, RankFacts
  <2>2. PICK spot : spot = Rank(keys, k) + 1
    OBVIOUS
  <2>3. spot \in 1..n /\ spot - 1 = Rank(keys, k)
    BY <1>1, <2>1, <2>2
  <2>4. InOrder(kind)[spot] \in held /\ Rank(keys, InOrder(kind)[spot]) = Rank(keys, k)
    BY <1>7, <2>3
  <2>5. InOrder(kind)[spot] = k
    BY <1>1, <1>2, <2>4, RanksDiffer
  <2> QED
    BY <2>2, <2>3, <2>5
<1> QED
  BY <1>6, <1>8

\* A page holds the rows from its offset on; only past the last row it is empty.
LEMMA WindowFacts ==
  ASSUME RowsInv, NEW kind, NEW offset \in Nat
  PROVE  /\ Window(kind, offset) \in Seq(RefKey)
         /\ \A k \in RowsOf(KeysOf(reference), kind) :
              /\ offset <= Rank(KeysOf(reference), k)
              /\ Rank(KeysOf(reference), k) < offset + Len(Window(kind, offset))
              => k \in ToSet(Window(kind, offset))
         /\ Window(kind, offset) = <<>> => Len(InOrder(kind)) <= offset
<1> DEFINE all == InOrder(kind)
           to == IF offset + PageSize < Len(all) THEN offset + PageSize ELSE Len(all)
           page == Window(kind, offset)
<1>1. all \in Seq(RefKey) /\ Len(all) \in Nat /\ PageSize \in Nat \ {0}
  BY OrderFacts, PlaceAssumption
<1>2. page = SubSeq(all, offset + 1, to)
  BY DEF Window
<1>3. to \in Nat /\ to <= Len(all)
  BY <1>1
<1>4. /\ page \in Seq(RefKey)
      /\ Len(page) = IF offset + 1 <= to THEN to - offset ELSE 0
      /\ \A i \in 1..Len(page) : page[i] = all[offset + i]
  <2> HIDE DEF all, to, page
  <2>1. SubSeq(all, offset + 1, to) \in Seq(RefKey)
    BY <1>1, <1>3
  <2>2. Len(page) = IF offset + 1 <= to THEN to - offset ELSE 0
    BY <1>1, <1>2, <1>3
  <2>3. \A i \in 1..Len(page) : page[i] = all[offset + i]
    BY <1>1, <1>2, <1>3, <2>2
  <2> QED
    BY <1>2, <2>1, <2>2, <2>3
<1>5. ASSUME NEW k \in RowsOf(KeysOf(reference), kind),
             offset <= Rank(KeysOf(reference), k),
             Rank(KeysOf(reference), k) < offset + Len(page)
      PROVE  k \in ToSet(page)
  <2> DEFINE at == Rank(KeysOf(reference), k) + 1
  <2>1. at \in 1..Len(all) /\ all[at] = k
    BY OrderFacts
  <2>5. Rank(KeysOf(reference), k) \in Nat
    BY KeysAreFinite, RankFacts DEF RowsOf
  <2>6. at \in Nat /\ offset + 1 <= at /\ at <= offset + Len(page) /\ Len(page) \in Nat
    <3> HIDE DEF page
    <3> QED
      BY <1>4, <1>5, <2>5
  <2>2. at - offset \in 1..Len(page) /\ offset + (at - offset) = at
    <3> HIDE DEF page, at
    <3> QED
      BY <2>6
  <2>3. page[at - offset] = k
    BY <1>4, <2>1, <2>2
  <2>4. at - offset \in DOMAIN page
    BY <1>4, <2>2
  <2> QED
    BY <2>3, <2>4 DEF ToSet
<1>6. page = <<>> => Len(all) <= offset
  <2> HIDE DEF page, all
  <2> QED
    BY <1>1, <1>4
<1> QED
  BY <1>4, <1>5, <1>6

\* One more page: what was gathered so far and the page.  After the last row, or as
\* many rows as there are, everything is.
LEMMA PageGathers ==
  ASSUME RowsInv, NEW seek \in SeekRecord, seek.began \subseteq KeysOf(reference),
         Gathered(seek, KeysOf(reference)),
         NEW got, got = seek.got \o Window(seek.kind, Len(seek.got))
  PROVE  /\ got \in Seq(RefKey)
         /\ Gathered([seek EXCEPT !.got = got], KeysOf(reference))
         /\ Len(InOrder(seek.kind)) <= Len(got) \/ Window(seek.kind, Len(seek.got)) = <<>> =>
              RowsOf(seek.began, seek.kind) \subseteq ToSet(got)
<1> DEFINE page == Window(seek.kind, Len(seek.got))
<1>1. seek.got \in Seq(RefKey) /\ Len(seek.got) \in Nat
  <2>1. seek.got \in Seq(RefKey)
    BY DEF SeekRecord
  <2> QED
    BY <2>1
<1>2. page \in Seq(RefKey) /\ Len(page) \in Nat
  BY <1>1, WindowFacts
<1>3. got \in Seq(RefKey) /\ Len(got) = Len(seek.got) + Len(page) /\ Len(got) \in Nat
  <2>1. got = seek.got \o page
    OBVIOUS
  <2> HIDE DEF page
  <2> QED
    BY <1>1, <1>2, <2>1
<1>4. ToSet(seek.got) \subseteq ToSet(got) /\ ToSet(page) \subseteq ToSet(got)
  <2> HIDE DEF page
  <2>1. got = seek.got \o page
    BY DEF page
  <2>2. ASSUME NEW i \in DOMAIN seek.got PROVE seek.got[i] \in ToSet(got)
    <3>1. i \in DOMAIN got /\ got[i] = seek.got[i]
      BY <1>1, <1>2, <1>3, <2>1
    <3> QED
      BY <3>1 DEF ToSet
  <2>3. ASSUME NEW i \in DOMAIN page PROVE page[i] \in ToSet(got)
    <3>1. Len(seek.got) + i \in DOMAIN got /\ got[Len(seek.got) + i] = page[i]
      BY <1>1, <1>2, <1>3, <2>1
    <3> QED
      BY <3>1 DEF ToSet
  <2> QED
    BY <2>2, <2>3 DEF ToSet
<1>5. ASSUME NEW k \in seek.began, k.kind = seek.kind, Rank(KeysOf(reference), k) < Len(got)
      PROVE  k \in ToSet(got)
  <2>1. k \in RowsOf(KeysOf(reference), seek.kind)
    BY <1>5 DEF RowsOf
  <2>2. Rank(KeysOf(reference), k) \in Nat
    BY <2>1, KeysAreFinite, RankFacts DEF RowsOf
  <2>3. CASE Rank(KeysOf(reference), k) < Len(seek.got)
    BY <1>4, <1>5, <2>3 DEF Gathered
  <2>4. CASE Len(seek.got) <= Rank(KeysOf(reference), k)
    <3>1. k \in ToSet(page)
      BY <1>1, <1>3, <1>5, <2>1, <2>4, WindowFacts
    <3> QED
      BY <1>4, <3>1
  <2> QED
    BY <1>1, <2>2, <2>3, <2>4
<1>6. Gathered([seek EXCEPT !.got = got], KeysOf(reference))
  BY <1>5 DEF Gathered, SeekRecord
<1>7. ASSUME Len(InOrder(seek.kind)) <= Len(got) \/ page = <<>>
      PROVE  RowsOf(seek.began, seek.kind) \subseteq ToSet(got)
  <2>1. Len(InOrder(seek.kind)) \in Nat
    BY OrderFacts
  <2>2. Len(InOrder(seek.kind)) <= Len(got)
    <3>1. page = <<>> => Len(InOrder(seek.kind)) <= Len(seek.got)
      BY <1>1, WindowFacts
    <3> HIDE DEF page
    <3> QED
      BY <1>1, <1>2, <1>3, <1>7, <2>1, <3>1
  <2>3. ASSUME NEW k \in RowsOf(seek.began, seek.kind) PROVE k \in ToSet(got)
    <3>1. k \in seek.began /\ k.kind = seek.kind
          /\ k \in RowsOf(KeysOf(reference), seek.kind)
      BY DEF RowsOf
    <3>2. Rank(KeysOf(reference), k) \in Nat
      BY <3>1, KeysAreFinite, RankFacts
    <3>3. Rank(KeysOf(reference), k) + 1 \in 1..Len(InOrder(seek.kind))
      BY <3>1, OrderFacts
    <3>4. Rank(KeysOf(reference), k) < Len(got)
      <4> DEFINE r == Rank(KeysOf(reference), k)
                 all == Len(InOrder(seek.kind))
                 n == Len(got)
      <4>1. r \in Nat /\ all \in Nat /\ n \in Nat /\ all <= n /\ r + 1 \in 1..all
        BY <1>3, <2>1, <2>2, <3>2, <3>3, Zenon
      <4> HIDE DEF r, all, n
      <4>2. r < n
        BY <4>1
      <4> QED
        BY <4>2 DEF r, n
    <3> QED
      BY <1>5, <3>1, <3>4
  <2> QED
    BY <2>3
<1> QED
  BY <1>3, <1>6, <1>7

LEMMA RankGrows ==
  ASSUME NEW more \in SUBSET RefKey, IsFiniteSet(more), NEW keys \in SUBSET more, NEW k \in keys
  PROVE  Rank(keys, k) \in Nat /\ Rank(more, k) \in Nat /\ Rank(keys, k) <= Rank(more, k)
<1> DEFINE old == {j \in RowsOf(keys, k.kind) : Precedes(j, k)}
           new == {j \in RowsOf(more, k.kind) : Precedes(j, k)}
<1>1. old \subseteq new /\ IsFiniteSet(new)
  BY FS_Subset DEF RowsOf
<1>2. IsFiniteSet(old) /\ Cardinality(old) <= Cardinality(new)
  BY <1>1, FS_Subset
<1>3. Cardinality(old) \in Nat /\ Cardinality(new) \in Nat
  BY <1>1, <1>2, FS_CardinalityType
<1> QED
  BY <1>2, <1>3 DEF Rank

\* What a load has gathered stays enough while rows are inserted.
LEMMA SeekIsStable ==
  ASSUME NEW more \in SUBSET RefKey, IsFiniteSet(more), NEW keys \in SUBSET more,
         NEW seek \in SeekRecord, SeekSound(seek, keys)
  PROVE  SeekSound(seek, more)
<1>1. ASSUME Gathered(seek, keys), NEW k \in seek.began, k.kind = seek.kind,
             Rank(more, k) < Len(seek.got)
      PROVE  k \in ToSet(seek.got)
  <2>1. k \in keys
    BY DEF SeekSound
  <2>2. Rank(keys, k) \in Nat /\ Rank(more, k) \in Nat /\ Rank(keys, k) <= Rank(more, k)
    BY <2>1, RankGrows
  <2>3. seek.got \in Seq(RefKey)
    BY DEF SeekRecord
  <2>4. Len(seek.got) \in Nat
    BY <2>3
  <2>5. Rank(keys, k) < Len(seek.got)
    BY <1>1, <2>2, <2>4
  <2> QED
    BY <1>1, <2>5 DEF Gathered
<1>2. Gathered(seek, keys) => Gathered(seek, more)
  BY <1>1 DEF Gathered
<1> QED
  BY <1>2 DEF SeekSound

\* A place that is not known, of kinds that were gathered, was not there.
LEMMA KnownPlaces ==
  ASSUME NEW seek \in SeekRecord, seek.place \in SoughtPlaces, NEW places,
         RowsOf(seek.began, "country") \cup RowsOf(seek.began, "city") \subseteq places,
         ~Knows(places, seek.place)
  PROVE  ~({CountryKey(seek.place.country), seek.place} \subseteq seek.began)
BY PlaceAssumption DEF Knows, RowsOf, CountryKey

LEMMA SettledFacts ==
  ASSUME RowsInv, NEW seek \in SeekRecord, seek.place \in SoughtPlaces,
         seek.began \subseteq KeysOf(reference), NEW places,
         ~Knows(places, seek.place) /\ ~(seek.loads > 0) /\ ~seek.torn =>
           ~({CountryKey(seek.place.country), seek.place} \subseteq seek.began)
  PROVE  /\ Settled(seek, places) \in SeekRecord
         /\ SeekSound(Settled(seek, places), KeysOf(reference))
         /\ [Settled(seek, places) EXCEPT !.got = <<>>, !.countries = <<>>] \in SeekRecord
         /\ SeekSound([Settled(seek, places) EXCEPT !.got = <<>>, !.countries = <<>>],
                       KeysOf(reference))
<1>1. <<>> \in Seq(RefKey) /\ Len(<<>>) = 0
  OBVIOUS
<1>2. CASE Knows(places, seek.place)
  BY <1>1, <1>2 DEF Settled, SeekRecord, SeekSteps, SeekSound
<1>3. CASE ~Knows(places, seek.place) /\ seek.loads > 0
  <2> DEFINE next == Loading(seek)
  <2>1. next \in SeekRecord
    <3>1. /\ seek.loads - 1 \in Int /\ "count" \in SeekSteps
          /\ seek.place \in RefKey \cup {NoKey} /\ seek.began \in SUBSET RefKey
      <4>1. /\ seek.loads \in Int /\ seek.place \in RefKey \cup {NoKey}
            /\ seek.began \in SUBSET RefKey
        BY DEF SeekRecord
      <4> QED
        BY <4>1 DEF SeekSteps
    <3> QED
      BY <1>1, <3>1 DEF Loading, SeekRecord
  <2>2. /\ next.at = "count" /\ next.kind = "country" /\ next.got = <<>> /\ next.countries = <<>>
        /\ next.place = seek.place /\ next.began = seek.began
    BY DEF Loading, SeekRecord
  <2>3. Settled(seek, places) = next
    BY <1>3 DEF Settled
  <2> HIDE DEF next
  <2>4. Gathered(next, KeysOf(reference))
    <3>1. ASSUME NEW k \in seek.began PROVE Rank(KeysOf(reference), k) \in Nat
      BY KeysAreFinite, RankFacts
    <3> QED
      BY <1>1, <2>2, <3>1 DEF Gathered
  <2>5. SeekSound(next, KeysOf(reference))
    BY <2>2, <2>4 DEF SeekSound
  <2>6. [next EXCEPT !.got = <<>>, !.countries = <<>>] = next
    BY <2>1, <2>2 DEF SeekRecord
  <2> QED
    BY <2>1, <2>3, <2>5, <2>6
<1>4. CASE ~Knows(places, seek.place) /\ ~(seek.loads > 0)
  BY <1>1, <1>4 DEF Settled, SeekRecord, SeekSteps, SeekSound
<1> QED
  BY <1>2, <1>3, <1>4

PlaceInv == RefInv /\ SeeksInv

LEMMA WaitingFacts == Waiting \in SeekRecord /\ \A keys : SeekSound(Waiting, keys)
<1>1. <<>> \in Seq(RefKey)
  OBVIOUS
<1> QED
  BY <1>1 DEF Waiting, SeekRecord, SeekSteps, SeekSound

LEMMA PlaceStart == PlaceInit => PlaceInv
BY RefStart, WaitingFacts DEF PlaceInit, PlaceInv, SeeksInv

\* A step of one request that leaves the tables alone.
LEMMA SeekMoves ==
  ASSUME PlaceInv, UNCHANGED <<reference, creates>>, NEW s \in Seekers, NEW seek \in SeekRecord,
         seeks' = [seeks EXCEPT ![s] = seek], SeekSound(seek, KeysOf(reference))
  PROVE  PlaceInv'
<1>1. RefInv'
  BY RefRests DEF PlaceInv, RefVars
<1>2. SeeksInv'
  BY DEF PlaceInv, SeeksInv, KeysOf
<1> QED
  BY <1>1, <1>2 DEF PlaceInv

LEMMA AskPlaceHolds ==
  ASSUME PlaceInv, NEW s \in Seekers, NEW place \in SoughtPlaces, AskPlace(s, place)
  PROVE  PlaceInv'
<1> DEFINE seek == [Waiting EXCEPT !.place = place, !.began = KeysOf(reference),
                                   !.loads = LoadsAllowed(known)]
<1>1. KeysOf(reference) \subseteq RefKey /\ place \in RefKey /\ RowsInv
  BY KeysAreFinite, PlaceAssumption DEF PlaceInv, RefInv
<1>2. LoadsAllowed(known) \in {1, 2}
  BY DEF LoadsAllowed
<1>3. /\ seek \in SeekRecord /\ seek.place \in SoughtPlaces /\ seek.loads > 0
      /\ seek.began \subseteq KeysOf(reference)
  <2>1. Waiting \in SeekRecord
    BY WaitingFacts
  <2>2. place \in RefKey \cup {NoKey} /\ KeysOf(reference) \in SUBSET RefKey /\ LoadsAllowed(known) \in Int
    BY <1>1, <1>2
  <2>3. seek \in SeekRecord
    BY <2>1, <2>2 DEF SeekRecord
  <2>4. seek.place = place /\ seek.loads = LoadsAllowed(known) /\ seek.began = KeysOf(reference)
    BY <2>1 DEF SeekRecord
  <2> HIDE DEF seek
  <2> QED
    BY <1>2, <2>3, <2>4
<1> DEFINE next == Settled(seek, known.places)
<1>4. seeks' = [seeks EXCEPT ![s] = next] /\ UNCHANGED <<reference, creates>>
  BY DEF AskPlace
<1> HIDE DEF seek
<1>5. next \in SeekRecord /\ SeekSound(next, KeysOf(reference))
  BY <1>1, <1>3, SettledFacts
<1> HIDE DEF next
<1> QED
  BY <1>4, <1>5, SeekMoves

LEMMA CountsRowsHolds ==
  ASSUME PlaceInv, NEW s \in Seekers, CountsRows(s)
  PROVE  PlaceInv'
<1> DEFINE old == seeks[s]
           total == Len(InOrder(old.kind))
           next == [old EXCEPT !.at = "rows", !.total = total]
<1>1. old \in SeekRecord /\ SeekSound(old, KeysOf(reference)) /\ old.at = "count"
  BY DEF PlaceInv, SeeksInv, CountsRows
<1>2. total \in Int
  BY OrderFacts DEF PlaceInv, RefInv
<1>3. seeks' = [seeks EXCEPT ![s] = next] /\ UNCHANGED <<reference, creates>>
  BY <1>1 DEF CountsRows, PlaceInv, SeeksInv, SeekRecord
<1> HIDE DEF total
<1>4. next \in SeekRecord
  BY <1>1, <1>2 DEF SeekRecord, SeekSteps
<1>5. SeekSound(next, KeysOf(reference))
  BY <1>1, <1>2 DEF SeekSound, SeekRecord, Gathered
<1> HIDE DEF next
<1> QED
  BY <1>3, <1>4, <1>5, SeekMoves

LEMMA TakesPageHolds ==
  ASSUME PlaceInv, NEW s \in Seekers, TakesPage(s)
  PROVE  PlaceInv'
<1> DEFINE old == seeks[s]
           page == Window(old.kind, Len(old.got))
           got == old.got \o page
           complete == Len(got) >= old.total \/ page = <<>>
           torn == old.torn \/ old.total # Len(InOrder(old.kind))
<1>1. /\ old \in SeekRecord /\ SeekSound(old, KeysOf(reference)) /\ old.at = "rows" /\ RowsInv
      /\ UNCHANGED <<reference, creates>> /\ seeks \in [Seekers -> SeekRecord]
  BY DEF PlaceInv, RefInv, SeeksInv, TakesPage
<1>2. /\ got \in Seq(RefKey)
      /\ Gathered([old EXCEPT !.got = got], KeysOf(reference))
      /\ Len(InOrder(old.kind)) <= Len(got) \/ page = <<>> =>
           RowsOf(old.began, old.kind) \subseteq ToSet(got)
  BY <1>1, PageGathers DEF SeekSound
<1>3. torn \in BOOLEAN /\ (~torn => ~old.torn /\ old.total = Len(InOrder(old.kind)))
  BY <1>1 DEF SeekRecord
<1>4. complete /\ ~torn => RowsOf(old.began, old.kind) \subseteq ToSet(got)
  <2> HIDE DEF got, page, torn
  <2>1. Len(got) \in Nat
    BY <1>2
  <2>2. Len(InOrder(old.kind)) \in Nat
    BY <1>1, OrderFacts
  <2> QED
    BY <1>2, <1>3, <2>1, <2>2
<1>5. IF ~complete THEN
         seeks' = [seeks EXCEPT ![s].at = "count", ![s].got = got, ![s].torn = torn]
      ELSE IF old.kind = "country" THEN
         seeks' = [seeks EXCEPT ![s].at = "count", ![s].kind = "city", ![s].countries = got,
                                ![s].got = <<>>, ![s].torn = torn]
      ELSE
         /\ known' = [loaded |-> TRUE, places |-> ToSet(old.countries) \cup ToSet(got)]
         /\ seeks' = [seeks EXCEPT ![s] = [Settled([old EXCEPT !.torn = torn], known'.places)
                                             EXCEPT !.got = <<>>, !.countries = <<>>]]
  BY Zenon DEF TakesPage
<1> HIDE DEF got, torn, complete, page
<1>6. CASE ~complete
  <2> DEFINE next == [old EXCEPT !.at = "count", !.got = got, !.torn = torn]
  <2>1. seeks' = [seeks EXCEPT ![s] = next]
    BY <1>1, <1>5, <1>6 DEF SeekRecord
  <2>2. next \in SeekRecord
    BY <1>1, <1>2, <1>3 DEF SeekRecord, SeekSteps
  <2>3. SeekSound(next, KeysOf(reference))
    BY <1>1, <1>2, <1>3 DEF SeekSound, SeekRecord, Gathered
  <2> HIDE DEF next
  <2> QED
    BY <1>1, <2>1, <2>2, <2>3, SeekMoves
<1>7. CASE complete /\ old.kind = "country"
  <2> DEFINE next == [old EXCEPT !.at = "count", !.kind = "city", !.countries = got,
                                 !.got = <<>>, !.torn = torn]
  <2>1. seeks' = [seeks EXCEPT ![s] = next]
    BY <1>1, <1>5, <1>7 DEF SeekRecord
  <2>2. next \in SeekRecord
    <3>1. <<>> \in Seq(RefKey)
      OBVIOUS
    <3> QED
      BY <1>1, <1>2, <1>3, <3>1 DEF SeekRecord, SeekSteps
  <2>3. /\ next.at = "count" /\ next.place = old.place /\ next.began = old.began
        /\ next.got = <<>> /\ next.countries = got /\ next.torn = torn
    BY <1>1 DEF SeekRecord
  <2> HIDE DEF next
  <2>4. Gathered(next, KeysOf(reference))
    <3>1. ASSUME NEW k \in old.began PROVE Rank(KeysOf(reference), k) \in Nat
      BY <1>1, KeysAreFinite, RankFacts DEF SeekSound
    <3>2. Len(<<>>) = 0
      OBVIOUS
    <3> QED
      BY <2>3, <3>1, <3>2 DEF Gathered
  <2>5. ~torn => RowsOf(old.began, "country") \subseteq ToSet(got)
    BY <1>4, <1>7
  <2>6. SeekSound(next, KeysOf(reference))
    BY <1>1, <2>3, <2>4, <2>5 DEF SeekSound
  <2> QED
    BY <1>1, <2>1, <2>2, <2>6, SeekMoves
<1>8. CASE complete /\ old.kind /= "country"
  <2> DEFINE seek == [old EXCEPT !.torn = torn]
             places == ToSet(old.countries) \cup ToSet(got)
             next == [Settled(seek, places) EXCEPT !.got = <<>>, !.countries = <<>>]
  <2>1. seeks' = [seeks EXCEPT ![s] = next]
    <3>1. known'.places = places
      BY <1>5, <1>8
    <3> QED
      BY <1>5, <1>8, <3>1
  <2>2. old.kind = "city"
    BY <1>1, <1>8 DEF SeekRecord
  <2>3. /\ seek \in SeekRecord /\ seek.place = old.place /\ seek.began = old.began
        /\ seek.torn = torn
    BY <1>1, <1>3 DEF SeekRecord
  <2>4. seek.place \in SoughtPlaces /\ seek.began \subseteq KeysOf(reference)
    BY <1>1, <2>3 DEF SeekSound
  <2>5. ~torn => RowsOf(old.began, "country") \cup RowsOf(old.began, "city") \subseteq places
    BY <1>1, <1>3, <1>4, <1>8, <2>2 DEF SeekSound
  <2> HIDE DEF seek, places
  <2>6. ~Knows(places, seek.place) /\ ~(seek.loads > 0) /\ ~seek.torn =>
          ~({CountryKey(seek.place.country), seek.place} \subseteq seek.began)
    BY <2>3, <2>4, <2>5, KnownPlaces
  <2>7. next \in SeekRecord /\ SeekSound(next, KeysOf(reference))
    BY <1>1, <2>3, <2>4, <2>6, SettledFacts
  <2> HIDE DEF next
  <2> QED
    BY <1>1, <2>1, <2>7, SeekMoves
<1> QED
  BY <1>6, <1>7, <1>8

LEMMA RowsOnlyGrow ==
  ASSUME RefNext
  PROVE  KeysOf(reference) \subseteq KeysOf(reference)'
<1>1. reference \subseteq reference'
  BY DEF RefNext, AskCreate, FindsCountry, ChecksCurrency, ReadsFlag, LooksAgain, Inserts
<1> QED
  BY <1>1 DEF KeysOf

LEMMA PlaceStep ==
  ASSUME PlaceInv, [PlaceNext]_PlaceVars
  PROVE  PlaceInv'
<1>1. CASE RefNext /\ UNCHANGED <<known, seeks>>
  <2>1. RefInv'
    BY <1>1, RefStep DEF PlaceInv
  <2>2. KeysOf(reference)' \subseteq RefKey /\ IsFiniteSet(KeysOf(reference)')
    <3>1. reference' \subseteq RefRow /\ IsFiniteSet(reference')
      BY <2>1 DEF RefInv, RowsInv
    <3>2. KeysOf(reference') \subseteq RefKey /\ IsFiniteSet(KeysOf(reference'))
      BY <3>1, TableKeys
    <3> QED
      BY <3>2 DEF KeysOf
  <2>3. \A s \in Seekers : SeekSound(seeks[s], KeysOf(reference)')
    BY <1>1, <2>2, RowsOnlyGrow, SeekIsStable DEF PlaceInv, SeeksInv
  <2>4. SeeksInv'
    BY <1>1, <2>3 DEF PlaceInv, SeeksInv
  <2> QED
    BY <2>1, <2>4 DEF PlaceInv
<1>2. CASE UNCHANGED PlaceVars
  BY <1>2, RefRests DEF PlaceInv, SeeksInv, PlaceVars, RefVars, KeysOf
<1> QED
  BY <1>1, <1>2, AskPlaceHolds, CountsRowsHolds, TakesPageHolds DEF PlaceNext

\* However many callers race to create rows: one row under a key, none without its
\* country, one currency to a country, and every answer is so.
THEOREM ReferenceIsTrue ==
  RefInit /\ [][RefNext]_RefVars => [](RefTypeOK /\ RowsAreWhole /\ OneCurrencyEach /\ AnswersAreTrue)
<1>1. RefInv /\ [RefNext]_RefVars => RefInv'
  BY RefStep, RefRests
<1> QED
  BY <1>1, RefStart, RefTells, PTL

\* And whatever is inserted while the cache is loaded page by page, or replaced by
\* another request's load: a place that was there is not said to be missing, unless
\* an insert came between the count and the rows of one answer.
THEOREM PlacesStayTrue == PlaceInit /\ [][PlaceNext]_PlaceVars => []PlacesAreTrue
<1>1. PlaceInv => PlacesAreTrue
  BY RefTells DEF PlaceInv, SeeksInv, SeekSound, PlacesAreTrue, MissingPlaceWasMissing
<1> QED
  BY <1>1, PlaceStart, PlaceStep, PTL

-----------------------------------------------------------------------------
(* AgentPages: the pages on which runs are decided                         *)

PanelPlaces == {"form", "opening", "page", "first", "send", "again"}

\* What a page shows as waiting was decided, if at all, by somebody else since it
\* was read, until the run is read again.
OfferInv ==
  panel.shows = "waiting" /\ run.status = "decided" /\ panel.at /= "again" => run.byOthers

PanelInv ==
  /\ run \in [status : RunStatuses, byOthers : BOOLEAN]
  /\ panel \in [site : DOMAIN Reviews, at : PanelPlaces, shows : RunStatuses,
                polls : BOOLEAN, why : Failures \cup {"new", "read"}]
  /\ panel.at /= "form" => run.status /= "none"
  /\ OfferInv

LEMMA SiteFacts ==
  ASSUME NEW site \in DOMAIN Reviews
  PROVE  /\ Reviews[site].again
         /\ site \in {"stays", "transport"} => "transient" \in KeepsAsking[site]
BY DEF Reviews, KeepsAsking, stays_review, transport_review, budgets_review, planner_review,
       stays_panel, transport_panel, budgets_panel, planner_panel, Failures

LEMMA AgentStart == AgentInit => PanelInv
BY DEF AgentInit, PanelInv, OfferInv, Form, RunStatuses, PanelPlaces, Failures

LEMMA AgentStep ==
  ASSUME PanelInv, [AgentNext]_AgentVars
  PROVE  PanelInv'
<1> USE DEF PanelInv, OfferInv
<1>1. CASE StartsRun
  BY <1>1 DEF StartsRun, RunStatuses, PanelPlaces, Failures
<1>2. CASE OpensPage
  BY <1>2 DEF OpensPage, Drawn, Errored, ReadRun, RunStatuses, PanelPlaces, Failures
<1>3. CASE PollsPanel
  <2>1. CASE panel' = Drawn(run.status) /\ ReadRun
    BY <1>3, <2>1 DEF PollsPanel, Drawn, ReadRun, RunStatuses, PanelPlaces, Failures
  <2>2. ASSUME NEW failure \in Failures, UNCHANGED run,
               panel' = [Errored(failure) EXCEPT !.polls = failure \in KeepsAsking[panel.site]]
        PROVE  PanelInv'
    <3> DEFINE on == failure \in KeepsAsking[panel.site]
    <3>1. on \in BOOLEAN
      BY SMT
    <3>2. panel' = [Errored(failure) EXCEPT !.polls = on]
      BY <2>2
    <3> HIDE DEF on
    <3> QED
      BY <1>3, <2>2, <3>1, <3>2 DEF PollsPanel, Errored, RunStatuses, PanelPlaces, Failures
  <2> QED
    BY <1>3, <2>1, <2>2 DEF PollsPanel
<1>4. CASE Decides
  BY <1>4 DEF Decides, RunStatuses, PanelPlaces, Failures
<1>5. CASE ReadsFirst
  BY <1>5, SiteFacts DEF ReadsFirst, NotAcknowledged, Review, ReadRun, RunStatuses, PanelPlaces, Failures
<1>6. CASE RefusesItself
  BY <1>6, SiteFacts DEF RefusesItself, NotAcknowledged, Review, RunStatuses, PanelPlaces, Failures
<1>7. CASE SendsDecision
  <2>1. ASSUME NEW failure \in Failures, panel' = NotAcknowledged(panel, failure),
               UNCHANGED run
        PROVE  PanelInv'
    BY <1>7, <2>1, SiteFacts DEF SendsDecision, NotAcknowledged, Review, PanelPlaces
  <2>2. ASSUME run' = [status |-> "decided", byOthers |-> FALSE],
               panel' = NotAcknowledged(panel, "transient")
        PROVE  PanelInv'
    BY <1>7, <2>2, SiteFacts DEF SendsDecision, NotAcknowledged, Review, RunStatuses, PanelPlaces, Failures
  <2>3. ASSUME run' = [status |-> "decided", byOthers |-> FALSE], panel' = Drawn("decided")
        PROVE  PanelInv'
    BY <1>7, <2>3 DEF SendsDecision, Drawn, RunStatuses, PanelPlaces
  <2> QED
    BY <1>7, <2>1, <2>2, <2>3 DEF SendsDecision
<1>8. CASE ReadsAgain
  BY <1>8 DEF ReadsAgain, Drawn, Errored, ReadRun, RunStatuses, PanelPlaces, Failures
<1>9. CASE AgentsProgress
  BY <1>9 DEF AgentsProgress, RunStatuses
<1>10. CASE SomebodyDecides
  BY <1>10 DEF SomebodyDecides, RunStatuses
<1>11. CASE UNCHANGED AgentVars
  BY <1>11 DEF AgentVars
<1> QED
  BY <1>1, <1>2, <1>3, <1>4, <1>5, <1>6, <1>7, <1>8, <1>9, <1>10, <1>11 DEF AgentNext

\* What a step may do to the page in front of a user.
QuietStep ==
  /\ panel'.at = "page" /\ ~panel'.polls => AtRest(panel'.shows) \/ panel'.why \in Failures
  /\ panel.at = "page" /\ panel.polls /\ panel'.why = "transient"
       /\ panel.site \in {"stays", "transport"} => panel'.polls

LEMMA StepHasReason ==
  ASSUME PanelInv, AgentNext, panel' /= panel
  PROVE  QuietStep
<1> USE DEF PanelInv, QuietStep
<1>1. CASE StartsRun
  BY <1>1 DEF StartsRun
<1>2. CASE OpensPage
  BY <1>2 DEF OpensPage, Drawn, Errored, RunStatuses, AtRest
<1>3. CASE PollsPanel
  <2>1. CASE panel' = Drawn(run.status)
    BY <1>3, <2>1 DEF PollsPanel, Drawn, RunStatuses, AtRest
  <2>2. ASSUME NEW failure \in Failures,
               panel' = [Errored(failure) EXCEPT !.polls = failure \in KeepsAsking[panel.site]]
        PROVE  QuietStep
    <3>1. panel'.why = failure /\ (panel'.polls <=> failure \in KeepsAsking[panel.site])
      <4> DEFINE on == failure \in KeepsAsking[panel.site]
      <4>1. panel' = [Errored(failure) EXCEPT !.polls = on]
        BY <2>2
      <4>2. panel'.why = failure /\ panel'.polls = on
        <5> HIDE DEF on
        <5> QED
          BY <4>1 DEF Errored
      <4> QED
        BY <4>2
    <3>2. panel.site \in {"stays", "transport"} => "transient" \in KeepsAsking[panel.site]
      BY SiteFacts
    <3> QED
      BY <3>1, <3>2
  <2> QED
    BY <1>3, <2>1, <2>2 DEF PollsPanel
<1>4. CASE Decides
  BY <1>4 DEF Decides
<1>5. CASE ReadsFirst
  BY <1>5, SiteFacts DEF ReadsFirst, NotAcknowledged, Review
<1>6. CASE RefusesItself
  BY <1>6, SiteFacts DEF RefusesItself, NotAcknowledged, Review
<1>7. CASE SendsDecision
  BY <1>7, SiteFacts DEF SendsDecision, Drawn, NotAcknowledged, Review, AtRest
<1>8. CASE ReadsAgain
  BY <1>8 DEF ReadsAgain, Drawn, Errored, RunStatuses, AtRest
<1>9. CASE AgentsProgress
  BY <1>9 DEF AgentsProgress
<1>10. CASE SomebodyDecides
  BY <1>10 DEF SomebodyDecides
<1> QED
  BY <1>1, <1>2, <1>3, <1>4, <1>5, <1>6, <1>7, <1>8, <1>9, <1>10 DEF AgentNext

\* Whatever calls fail, and whoever else decides, a user whose decision the run took
\* is not offered it again.
THEOREM OffersAreOpen == AgentInit /\ [][AgentNext]_AgentVars => []NotOfferedTwice
<1>1. PanelInv => NotOfferedTwice
  BY DEF PanelInv, OfferInv, NotOfferedTwice
<1> QED
  BY <1>1, AgentStart, AgentStep, PTL

\* A page falls silent for a reason that it shows, and where the frontend rides out
\* a hiccup it goes on asking.
THEOREM SilenceIsExplained == AgentInit /\ [][AgentNext]_AgentVars => QuietPagesHaveReason
<1>1. PanelInv /\ [AgentNext]_AgentVars => [QuietStep]_panel
  BY StepHasReason DEF AgentVars
<1> QED
  BY <1>1, AgentStart, AgentStep, PTL DEF QuietPagesHaveReason, QuietStep
-----------------------------------------------------------------------------
(* WebPages: one visit to a page, whatever fails and whoever else writes    *)

RoutesAreSound ==
  \A site \in DOMAIN SiteRoutes :
    RoutesFit(SiteRoutes[site], Contents[site], BareAnswers(site))

Tells == {"nothing", "done", "refused", "no answer"}
RouteNames == UNION {DOMAIN SiteRoutes[site] : site \in DOMAIN SiteRoutes}
VisitRecord ==
  [site : DOMAIN SiteRoutes, route : RouteNames, htmx : BOOLEAN, sent : RouteNames,
   at : {"before", "write", "after", "shown"}, todo : Seq(PageCall), told : Tells,
   made : Nat, late : BOOLEAN, stamp : Nat, seen : SUBSET [of : STRING, stamp : Nat],
   listed : BOOLEAN, unread : BOOLEAN,
   page : {"none", "page", "form", "confirm", "error", "crash"}]

CallsOf(reads) == {reads[i].of : i \in DOMAIN reads}
Things == Contents[visit.site]

\* Everything has the number of the change it was last part of.
Stamped ==
  /\ rows \in [Things -> [there : BOOLEAN, stamp : 0..MaxChanges]]
  /\ \E n \in 0..MaxChanges : /\ \E t \in Things : rows[t].stamp = n
                              /\ \A t \in Things : rows[t].stamp <= n

\* Before its write a visit is on the route it was sent to, and has seen what that
\* route reads; after it, it is there until it is shown or has landed on another page.
Placed ==
  /\ visit.route \in DOMAIN SiteRoutes[visit.site] /\ visit.sent \in DOMAIN SiteRoutes[visit.site]
  /\ visit.at = "write" => visit.told = "nothing" /\ Route.write # "none"
  /\ visit.at \in {"before", "write"} /\ visit.told = "nothing" =>
       /\ visit.route = visit.sent /\ CallsOf(visit.todo) \subseteq CallsOf(Route.reads)
       /\ \A s \in visit.seen : s.of \in CallsOf(Route.reads) \cap Things
  /\ visit.at = "before" /\ visit.told # "nothing" => visit.told = "done" /\ Route.write = "none"
  /\ visit.at = "after" => visit.route = visit.sent /\ visit.told # "nothing" /\ Route.write # "none"
  /\ visit.late => visit.route = visit.sent /\ Route.write # "none"

Truthful ==
  /\ visit.told = "done" => visit.made = 1 /\ ~visit.late
  /\ visit.told \in {"nothing", "refused"} => visit.made = 0 /\ ~visit.late
  /\ visit.late => visit.made = 0
  /\ visit.made <= 1

\* A thing that is to be read before the page is shown.
Awaited(t) ==
  \/ visit.at \in {"before", "after"} /\ Rereads(visit.todo, t)
  \/ visit.at = "after" /\ ~InPlace /\ Rereads(SiteRoutes[visit.site][Route.lands].reads, t)

\* What a write changed is stored as of that write or later, and what was seen of it
\* before is to be read again.
Fresh ==
  visit.told = "done" =>
    /\ \A t \in Sent.moves \cap Things : rows[t].stamp >= visit.stamp
    /\ \A s \in visit.seen : s.of \in Sent.moves =>
         s.of \in Things /\ (s.stamp >= visit.stamp \/ Awaited(s.of) \/ visit.unread)
    /\ visit.at = "after" /\ ~InPlace =>
         Route.lands \in DOMAIN SiteRoutes[visit.site]
         /\ SiteRoutes[visit.site][Route.lands].write = "none"

Kept ==
  visit.at = "shown" /\ visit.told \in {"refused", "no answer"} /\ Sent.typed =>
    \/ visit.page = "form" \/ visit.unread
    \/ visit.sent \in BareAnswers(visit.site)

PageInv == visit \in VisitRecord /\ Stamped /\ Placed /\ Truthful /\ Fresh /\ Kept

LEMMA RouteFacts ==
  ASSUME RoutesAreSound, NEW site \in DOMAIN SiteRoutes, NEW name \in DOMAIN SiteRoutes[site]
  PROVE  /\ RouteFits(SiteRoutes[site][name], SiteRoutes[site], Contents[site])
         /\ SiteRoutes[site][name] \in PageRoute
         /\ name \in BareAnswers(site) \/ FormReturns(SiteRoutes[site][name])
<1>1. /\ RouteFits(SiteRoutes[site][name], SiteRoutes[site], Contents[site])
      /\ name \in BareAnswers(site) \/ FormReturns(SiteRoutes[site][name])
  BY DEF RoutesAreSound, RoutesFit
<1> QED
  BY <1>1 DEF RouteFits

LEMMA CallFacts ==
  ASSUME NEW reads \in Seq(PageCall), reads # <<>>
  PROVE  /\ Head(reads) \in PageCall /\ Tail(reads) \in Seq(PageCall)
         /\ CallsOf(Tail(reads)) \subseteq CallsOf(reads) /\ Head(reads).of \in CallsOf(reads)
         /\ \A t : Rereads(reads, t) =>
              Rereads(Tail(reads), t) \/ (Head(reads).of = t /\ Head(reads).kind # "first")
<1>1. Len(reads) \in Nat \ {0} /\ DOMAIN reads = 1..Len(reads) /\ Head(reads) = reads[1]
      /\ Head(reads) \in PageCall /\ Tail(reads) \in Seq(PageCall)
  OBVIOUS
<1>2. Len(Tail(reads)) = Len(reads) - 1 /\ DOMAIN Tail(reads) = 1..Len(reads) - 1
      /\ \A i \in 1..Len(reads) - 1 : Tail(reads)[i] = reads[i + 1]
  BY <1>1
<1>3. CallsOf(Tail(reads)) \subseteq CallsOf(reads) /\ Head(reads).of \in CallsOf(reads)
  <2>1. ASSUME NEW i \in DOMAIN Tail(reads) PROVE Tail(reads)[i].of \in CallsOf(reads)
    BY <1>1, <1>2 DEF CallsOf
  <2> QED
    BY <1>1, <2>1 DEF CallsOf
<1>4. ASSUME NEW t, Rereads(reads, t)
      PROVE  Rereads(Tail(reads), t) \/ (Head(reads).of = t /\ Head(reads).kind # "first")
  <2>1. PICK i \in 1..Len(reads) : reads[i].of = t /\ reads[i].kind # "first"
    BY <1>1, <1>4 DEF Rereads
  <2>2. CASE i = 1
    BY <1>1, <2>1, <2>2
  <2>3. CASE i # 1
    <3>1. i - 1 \in DOMAIN Tail(reads) /\ Tail(reads)[i - 1] = reads[i]
      BY <1>1, <1>2, <2>3
    <3> QED
      BY <2>1, <3>1 DEF Rereads
  <2> QED
    BY <2>2, <2>3
<1> QED
  BY <1>1, <1>3, <1>4

LEMMA JoinFacts ==
  ASSUME NEW p \in Seq(PageCall), NEW q \in Seq(PageCall), NEW t
  PROVE  p \o q \in Seq(PageCall) /\ (Rereads(p, t) => Rereads(p \o q, t))
<1>1. \A i \in DOMAIN p : i \in DOMAIN (p \o q) /\ (p \o q)[i] = p[i]
  OBVIOUS
<1> QED
  BY <1>1 DEF Rereads

LEMMA ChangeFacts ==
  ASSUME Stamped
  PROVE  Changes \in 0..MaxChanges /\ \A t \in Things : rows[t].stamp <= Changes
BY DEF Stamped, Changes

LEMMA SeesType ==
  ASSUME visit \in VisitRecord, NEW t \in STRING, NEW n \in Nat
  PROVE  Sees(t, n) \in SUBSET [of : STRING, stamp : Nat]
<1>1. visit.seen \in SUBSET [of : STRING, stamp : Nat]
  BY DEF VisitRecord
<1>2. [of |-> t, stamp |-> n] \in [of : STRING, stamp : Nat]
  OBVIOUS
<1> QED
  BY <1>1, <1>2, Zenon DEF Sees

\* What a write leaves behind: nothing older than before, and what it moves is new.
LEMMA WrittenFacts ==
  ASSUME Stamped, Changes < MaxChanges, NEW write, NEW t \in Things, NEW moves,
         write # "ask", MaxChanges \in Nat, visit'.site = visit.site,
         rows' = Written(write, t, moves)
  PROVE  /\ Stamped'
         /\ \A u \in Things : rows'[u].stamp >= rows[u].stamp
         /\ \A u \in (moves \cup {t}) \cap Things : rows'[u].stamp = Changes + 1
<1>1. Changes \in 0..MaxChanges /\ \A u \in Things : rows[u].stamp <= Changes
  BY ChangeFacts
<1>2. /\ Things' = Things /\ DOMAIN rows = Things
      /\ \A u \in Things : rows[u] \in [there : BOOLEAN, stamp : 0..MaxChanges]
  BY DEF Stamped, Things
<1>3. /\ rows' \in [Things -> [there : BOOLEAN, stamp : 0..MaxChanges]]
      /\ \A u \in Things : rows'[u].stamp = Changes + 1 \/ rows'[u].stamp = rows[u].stamp
      /\ \A u \in (moves \cup {t}) \cap Things : rows'[u].stamp = Changes + 1
  BY <1>1, <1>2 DEF Written
<1>4. \A u \in Things : rows'[u].stamp >= rows[u].stamp /\ rows'[u].stamp <= Changes + 1
  BY <1>1, <1>2, <1>3
<1>5. Changes + 1 \in 0..MaxChanges /\ rows'[t].stamp = Changes + 1
  BY <1>1, <1>3
<1> QED
  BY <1>2, <1>3, <1>4, <1>5 DEF Stamped

LEMMA RouteWritten ==
  ASSUME Stamped, Changes < MaxChanges, Route.of \in Things, Route.write # "ask",
         MaxChanges \in Nat, visit'.site = visit.site,
         rows' = Written(Route.write, Route.of, Route.moves)
  PROVE  /\ Stamped'
         /\ \A u \in (Route.moves \cup {Route.of}) \cap Things : rows'[u].stamp = Changes + 1
<1> DEFINE write == Route.write
           t == Route.of
           moves == Route.moves
<1>1. t \in Things /\ write # "ask" /\ rows' = Written(write, t, moves)
  OBVIOUS
<1> HIDE DEF write, t, moves
<1>2. /\ Stamped'
      /\ \A u \in Things : rows'[u].stamp >= rows[u].stamp
      /\ \A u \in (moves \cup {t}) \cap Things : rows'[u].stamp = Changes + 1
  BY <1>1, WrittenFacts
<1> QED
  BY <1>2 DEF t, moves

-----------------------------------------------------------------------------

LEMMA PageStart ==
  ASSUME RoutesAreSound, PageInit
  PROVE  PageInv
<1>1. PICK site \in DOMAIN SiteRoutes :
        /\ rows \in [Contents[site] -> [there : BOOLEAN, stamp : {0}]]
        /\ \E name \in DOMAIN SiteRoutes[site], htmx \in BOOLEAN : visit = Visit(site, name, htmx)
  BY DEF PageInit
<1>2. PICK name \in DOMAIN SiteRoutes[site], htmx \in BOOLEAN : visit = Visit(site, name, htmx)
  BY <1>1
<1>3. SiteRoutes[site][name] \in PageRoute
  BY RouteFacts
<1>4. visit \in VisitRecord
  BY <1>2, <1>3 DEF Visit, VisitRecord, RouteNames, Tells, PageRoute
<1>5. /\ visit.site = site /\ visit.route = name /\ visit.sent = name /\ visit.at = "before"
      /\ visit.told = "nothing" /\ visit.made = 0 /\ visit.late = FALSE /\ visit.seen = {}
      /\ visit.todo = SiteRoutes[site][name].reads
  BY <1>2 DEF Visit
<1>6. Stamped
  <2>1. Things = Contents[site] /\ MaxChanges \in Nat /\ Contents[site] # {}
    BY <1>5, ContentsAssumption DEF Things
  <2>2. rows \in [Things -> [there : BOOLEAN, stamp : 0..MaxChanges]] /\ \A t \in Things : rows[t].stamp = 0
    BY <1>1, <2>1
  <2> QED
    BY <2>1, <2>2 DEF Stamped
<1> QED
  BY <1>4, <1>5, <1>6 DEF PageInv, Placed, Truthful, Fresh, Kept, Route

LEMMA VisitFacts ==
  ASSUME RoutesAreSound, PageInv
  PROVE  /\ Route \in PageRoute /\ Sent \in PageRoute
         /\ RouteFits(Route, SiteRoutes[visit.site], Things)
         /\ RouteFits(Sent, SiteRoutes[visit.site], Things)
         /\ Things \in SUBSET STRING /\ Things # {} /\ DOMAIN rows = Things
         /\ MaxChanges \in Nat
         /\ visit.sent \in BareAnswers(visit.site) \/ FormReturns(Sent)
BY RouteFacts, ContentsAssumption DEF PageInv, Placed, VisitRecord, Route, Sent, Things, Stamped

\* A step that leaves what is stored alone, and the visit on its route.
LEMMA ReadsNextHolds ==
  ASSUME RoutesAreSound, PageInv, ReadsNext
  PROVE  PageInv'
<1> DEFINE read == Head(visit.todo)
           skip == read.kind = "first" /\ ~visit.listed
<1>1. /\ visit \in VisitRecord /\ Stamped /\ Placed /\ Truthful /\ Fresh /\ Kept
  BY DEF PageInv
<1>2. /\ visit.at \in {"before", "after"} /\ visit.todo # <<>> /\ UNCHANGED rows
      /\ visit' = [visit EXCEPT
           !.todo = Tail(@),
           !.listed = IF read.kind = "all" THEN There(read.of) ELSE @,
           !.seen = IF skip \/ Elsewhere(read.of) THEN @ ELSE Sees(read.of, rows[read.of].stamp)]
  BY DEF ReadsNext, Reading
<1>3. /\ read \in PageCall /\ Tail(visit.todo) \in Seq(PageCall)
      /\ CallsOf(Tail(visit.todo)) \subseteq CallsOf(visit.todo) /\ read.of \in CallsOf(visit.todo)
      /\ \A t : Rereads(visit.todo, t) =>
           Rereads(Tail(visit.todo), t) \/ (read.of = t /\ read.kind # "first")
  BY <1>1, <1>2, CallFacts DEF VisitRecord
<1>4. /\ DOMAIN rows = Things /\ Things \in SUBSET STRING
      /\ \A t \in Things : rows[t].stamp \in Nat /\ rows[t].there \in BOOLEAN
  BY <1>1, VisitFacts DEF Stamped
<1>5. /\ visit'.site = visit.site /\ visit'.route = visit.route /\ visit'.sent = visit.sent
      /\ visit'.at = visit.at /\ visit'.told = visit.told /\ visit'.htmx = visit.htmx
      /\ visit'.made = visit.made /\ visit'.late = visit.late /\ visit'.stamp = visit.stamp
      /\ visit'.unread = visit.unread /\ visit'.page = visit.page /\ visit'.todo = Tail(visit.todo)
      /\ visit'.seen = (IF skip \/ read.of \notin Things THEN visit.seen
                        ELSE Sees(read.of, rows[read.of].stamp))
      /\ Route' = Route /\ Sent' = Sent /\ InPlace' = InPlace /\ Things' = Things
  BY <1>1, <1>2, <1>4 DEF VisitRecord, Route, Sent, InPlace, Things, Elsewhere
<1>6. visit' \in VisitRecord
  <2>1. read.of \in Things => Sees(read.of, rows[read.of].stamp) \in SUBSET [of : STRING, stamp : Nat]
    BY <1>1, <1>4, SeesType
  <2>2. There(read.of) \in BOOLEAN
    <3>1. CASE read.of \in Things
      BY <1>4, <3>1 DEF There, Elsewhere
    <3>2. CASE read.of \notin Things
      BY <1>4, <3>2 DEF There, Elsewhere
    <3> QED
      BY <3>1, <3>2
  <2> QED
    BY <1>1, <1>2, <1>3, <1>4, <2>1, <2>2 DEF VisitRecord, Elsewhere
<1>7. Stamped'
  BY <1>1, <1>2, <1>5 DEF Stamped
<1>8. \A s \in visit'.seen : s \in visit.seen \/ (s.of = read.of /\ read.of \in Things /\ s.stamp = rows[read.of].stamp)
  BY <1>5 DEF Sees
<1>9. read.of \in Things /\ ~skip => \A s \in visit'.seen : s.of = read.of => s.stamp = rows[read.of].stamp
  BY <1>5 DEF Sees
<1>10. Placed'
  BY <1>1, <1>2, <1>3, <1>5, <1>8 DEF Placed
<1>11. Fresh'
  <2> SUFFICES ASSUME visit.told = "done" PROVE Fresh'
    BY <1>5 DEF Fresh
  <2>1. ASSUME NEW s \in visit'.seen, s.of \in Sent.moves
        PROVE  s.of \in Things /\ (s.stamp >= visit.stamp \/ Awaited(s.of)' \/ visit.unread)
    <3>1. CASE s \notin visit.seen
      BY <1>1, <1>8, <2>1, <3>1 DEF Fresh
    <3>2. CASE s \in visit.seen /\ ~Awaited(s.of)
      BY <1>1, <2>1, <3>2 DEF Fresh
    <3>3. CASE s \in visit.seen /\ Awaited(s.of) /\ ~Awaited(s.of)'
      <4>1. read.of = s.of /\ read.kind # "first"
        BY <1>2, <1>3, <1>5, <3>3 DEF Awaited
      <4>2. s.of \in Things
        BY <1>1, <2>1, <3>3 DEF Fresh
      <4> QED
        BY <1>1, <1>9, <2>1, <4>1, <4>2 DEF Fresh
    <3>4. CASE s \in visit.seen /\ Awaited(s.of)'
      BY <1>1, <2>1, <3>4 DEF Fresh
    <3> QED
      BY <3>1, <3>2, <3>3, <3>4
  <2> QED
    BY <1>1, <1>2, <1>5, <2>1 DEF Fresh
<1>12. Truthful' /\ Kept'
  BY <1>1, <1>5 DEF Truthful, Kept
<1> QED
  BY <1>6, <1>7, <1>10, <1>11, <1>12 DEF PageInv

LEMMA ReadFailsHolds ==
  ASSUME RoutesAreSound, PageInv, ReadFails
  PROVE  PageInv'
<1>1. /\ visit \in VisitRecord /\ Stamped /\ Placed /\ Truthful /\ Fresh /\ Kept
  BY DEF PageInv
<1>2. /\ visit.at \in {"before", "after"} /\ visit.todo # <<>> /\ UNCHANGED rows
  BY DEF ReadFails, Reading
<1>3. /\ Tail(visit.todo) \in Seq(PageCall) /\ CallsOf(Tail(visit.todo)) \subseteq CallsOf(visit.todo)
  BY <1>1, <1>2, CallFacts DEF VisitRecord
<1>4. /\ visit' \in VisitRecord
      /\ visit'.site = visit.site /\ visit'.route = visit.route /\ visit'.sent = visit.sent
      /\ visit'.told = visit.told /\ visit'.htmx = visit.htmx
      /\ visit'.made = visit.made /\ visit'.late = visit.late /\ visit'.stamp = visit.stamp
      /\ visit'.unread /\ visit'.seen = visit.seen
      /\ \/ visit'.at = visit.at /\ visit'.todo = Tail(visit.todo)
         \/ visit'.at = "shown"
  <2>1. CASE Head(visit.todo).needed
    <3>1. visit' = [visit EXCEPT !.at = "shown", !.page = "error", !.unread = TRUE, !.todo = <<>>]
      BY <2>1 DEF ReadFails
    <3> QED
      BY <1>1, <3>1, EmptySeq DEF VisitRecord
  <2>2. CASE ~Head(visit.todo).needed
    <3>1. visit' = [visit EXCEPT !.todo = Tail(@), !.unread = TRUE,
                      !.listed = IF Head(visit.todo).kind = "all" THEN FALSE ELSE @]
      BY <2>2 DEF ReadFails
    <3> QED
      BY <1>1, <1>3, <3>1 DEF VisitRecord
  <2> QED
    BY <2>1, <2>2
<1>5. Route' = Route /\ Sent' = Sent /\ InPlace' = InPlace /\ Things' = Things
  BY <1>4 DEF Route, Sent, InPlace, Things
<1>6. Stamped'
  BY <1>1, <1>2, <1>5 DEF Stamped
<1>7. Placed'
  BY <1>1, <1>2, <1>3, <1>4, <1>5 DEF Placed
<1>8. Fresh'
  BY <1>1, <1>2, <1>4, <1>5 DEF Fresh
<1>9. Truthful' /\ Kept'
  BY <1>1, <1>4, <1>5 DEF Truthful, Kept
<1> QED
  BY <1>4, <1>6, <1>7, <1>8, <1>9 DEF PageInv

LEMMA ReadsDoneHolds ==
  ASSUME RoutesAreSound, PageInv, ReadsDone
  PROVE  PageInv'
<1>1. /\ visit \in VisitRecord /\ Stamped /\ Placed /\ Truthful /\ Fresh /\ Kept
  BY DEF PageInv
<1>2. /\ visit.at = "before" /\ visit.todo = <<>> /\ UNCHANGED rows
      /\ visit' \in VisitRecord
      /\ visit'.site = visit.site /\ visit'.route = visit.route /\ visit'.sent = visit.sent
      /\ visit'.told = visit.told /\ visit'.htmx = visit.htmx /\ visit'.todo = visit.todo
      /\ visit'.made = visit.made /\ visit'.late = visit.late /\ visit'.stamp = visit.stamp
      /\ visit'.unread = visit.unread /\ visit'.seen = visit.seen
      /\ IF Route.write = "none" THEN visit'.at = "shown" ELSE visit'.at = "write"
  BY <1>1 DEF ReadsDone, VisitRecord
<1>3. Route' = Route /\ Sent' = Sent /\ InPlace' = InPlace /\ Things' = Things
  BY <1>2 DEF Route, Sent, InPlace, Things
<1>4. \A t : ~Awaited(t)
  BY <1>2 DEF Awaited, Rereads
<1>5. Stamped'
  BY <1>1, <1>2, <1>3 DEF Stamped
<1>6. Placed'
  BY <1>1, <1>2, <1>3 DEF Placed
<1>7. Fresh'
  BY <1>1, <1>2, <1>3, <1>4 DEF Fresh
<1>8. Truthful' /\ Kept'
  BY <1>1, <1>2, <1>3 DEF Truthful, Kept, Placed
<1> QED
  BY <1>2, <1>5, <1>6, <1>7, <1>8 DEF PageInv

\* Whatever the answer, the visit goes on to reads of its own route.
LEMMA GoesOnFacts ==
  ASSUME RoutesAreSound, PageInv, visit.at = "write", NEW reply \in Tells
  PROVE  /\ GoesOn(reply) \in VisitRecord
         /\ GoesOn(reply) = [visit EXCEPT !.at = "after", !.told = reply, !.todo = GoesOn(reply).todo]
         /\ reply = "done" /\ InPlace =>
              \A t : Rereads(Route.onDone, t) => Rereads(GoesOn(reply).todo, t)
<1>1. visit \in VisitRecord /\ Route \in PageRoute
  BY VisitFacts DEF PageInv
<1> DEFINE first == IF reply # "done" THEN Route.onError ELSE IF InPlace THEN Route.onDone ELSE <<>>
           second == IF visit.htmx THEN <<>> ELSE Route.plain
<1>2. first \in Seq(PageCall) /\ second \in Seq(PageCall)
  <2>1. <<>> \in Seq(PageCall)
    BY EmptySeq
  <2>2. Route.onError \in Seq(PageCall) /\ Route.onDone \in Seq(PageCall) /\ Route.plain \in Seq(PageCall)
    BY <1>1 DEF PageRoute
  <2> QED
    BY <2>1, <2>2, Zenon
<1>3. first \o second \in Seq(PageCall) /\ \A t : Rereads(first, t) => Rereads(first \o second, t)
  BY <1>2, JoinFacts
<1>4. GoesOn(reply) = [visit EXCEPT !.at = "after", !.told = reply, !.todo = first \o second]
  BY DEF GoesOn, Answer
<1>5. GoesOn(reply).todo = first \o second
  BY <1>1, <1>4 DEF VisitRecord
<1> QED
  BY <1>1, <1>3, <1>4, <1>5 DEF VisitRecord, Tells

Acknowledged == {"done", "no answer"}
Unmade == {"refused", "no answer"}

LEMMA ReplyFacts ==
  /\ \A reply \in Acknowledged : reply \in Tells \ {"nothing", "refused"}
  /\ \A reply \in Unmade : reply \in Tells \ {"nothing", "done"}
BY DEF Acknowledged, Unmade, Tells

Makes(reply) ==
  visit' = [GoesOn(reply) EXCEPT
              !.made = 1, !.stamp = Changes + 1,
              !.seen = IF Answer(reply) = "done" THEN Sees(Route.of, Changes + 1) ELSE @]

LEMMA MakesHolds ==
  ASSUME RoutesAreSound, PageInv, visit.at = "write", Changes < MaxChanges,
         rows' = Written(Route.write, Route.of, Route.moves),
         NEW reply \in Acknowledged, Makes(reply)
  PROVE  PageInv'
<1>1. /\ visit \in VisitRecord /\ Stamped /\ Placed /\ Truthful /\ Fresh /\ Kept
  BY DEF PageInv
<1>2. visit.at = "write" /\ Changes < MaxChanges /\ rows' = Written(Route.write, Route.of, Route.moves)
  OBVIOUS
<1>3. visit' = [GoesOn(reply) EXCEPT
                  !.made = 1, !.stamp = Changes + 1,
                  !.seen = IF Answer(reply) = "done" THEN Sees(Route.of, Changes + 1) ELSE @]
  BY DEF Makes
<1>4. /\ GoesOn(reply) \in VisitRecord
      /\ GoesOn(reply) = [visit EXCEPT !.at = "after", !.told = reply, !.todo = GoesOn(reply).todo]
      /\ reply = "done" /\ InPlace => \A t : Rereads(Route.onDone, t) => Rereads(GoesOn(reply).todo, t)
  BY <1>2, GoesOnFacts, ReplyFacts
<1>5. /\ visit.told = "nothing" /\ visit.route = visit.sent /\ Route.write # "none"
      /\ \A s \in visit.seen : s.of \in CallsOf(Route.reads) \cap Things
      /\ Changes \in Nat /\ Route = Sent /\ Route \in PageRoute
      /\ RouteFits(Route, SiteRoutes[visit.site], Things) /\ MaxChanges \in Nat
      /\ visit.late = FALSE
  <2>1. Route \in PageRoute /\ RouteFits(Route, SiteRoutes[visit.site], Things) /\ MaxChanges \in Nat
    BY VisitFacts
  <2>2. Changes \in Nat
    BY <1>1, <2>1, ChangeFacts
  <2>3. visit.late \in BOOLEAN
    BY <1>1 DEF VisitRecord
  <2>4. visit.told = "nothing" /\ Route.write # "none" /\ visit.route = visit.sent
    BY <1>1, <1>2 DEF Placed
  <2> QED
    BY <1>1, <1>2, <2>1, <2>2, <2>3, <2>4 DEF Placed, Truthful, Route, Sent
<1>6. /\ visit'.site = visit.site /\ visit'.route = visit.route /\ visit'.sent = visit.sent
      /\ visit'.at = "after" /\ visit'.told = reply /\ visit'.htmx = visit.htmx
      /\ visit'.made = 1 /\ visit'.late = visit.late /\ visit'.stamp = Changes + 1
      /\ visit'.unread = visit.unread /\ visit'.todo = GoesOn(reply).todo
      /\ visit'.seen = IF reply = "done" THEN Sees(Route.of, Changes + 1) ELSE visit.seen
  BY <1>1, <1>3, <1>4 DEF VisitRecord, Answer
<1>7. visit'.seen \in SUBSET [of : STRING, stamp : Nat]
  <2>1. Route.of \in STRING /\ Changes + 1 \in Nat
    BY <1>5 DEF PageRoute
  <2>2. visit.seen \in SUBSET [of : STRING, stamp : Nat]
    BY <1>1 DEF VisitRecord
  <2>3. Sees(Route.of, Changes + 1) \in SUBSET [of : STRING, stamp : Nat]
    BY <1>1, <2>1, SeesType
  <2>4. CASE reply = "done"
    BY <1>6, <2>3, <2>4, Zenon
  <2>5. CASE reply # "done"
    BY <1>6, <2>2, <2>5, Zenon
  <2> QED
    BY <2>4, <2>5
<1>8. visit' \in VisitRecord
  <2> DEFINE g == GoesOn(reply)
             seen == IF Answer(reply) = "done" THEN Sees(Route.of, Changes + 1) ELSE g.seen
  <2>1. g \in VisitRecord /\ visit' = [g EXCEPT !.made = 1, !.stamp = Changes + 1, !.seen = seen]
    BY <1>3, <1>4
  <2>2. seen \in SUBSET [of : STRING, stamp : Nat] /\ Changes + 1 \in Nat
    <3> HIDE DEF g, seen
    <3>1. visit'.seen = seen
      BY <2>1 DEF VisitRecord
    <3> QED
      BY <1>5, <1>7, <3>1
  <2> HIDE DEF g, seen
  <2> QED
    BY <2>1, <2>2 DEF VisitRecord
<1>9. Route' = Route /\ Sent' = Sent /\ InPlace' = InPlace /\ Things' = Things
  BY <1>6 DEF Route, Sent, InPlace, Things
<1>10. Stamped' /\ (reply = "done" => \A t \in Route.moves \cap Things : rows'[t].stamp = Changes + 1)
  <2>1. CASE Route.write = "ask"
    BY <1>1, <1>2, <1>5, <1>9, <2>1 DEF Written, RouteFits, Stamped
  <2>2. CASE Route.write # "ask"
    <3>1. Route.of \in Things
      BY <1>5, <2>2 DEF RouteFits
    <3>2. /\ Stamped'
          /\ \A u \in (Route.moves \cup {Route.of}) \cap Things : rows'[u].stamp = Changes + 1
      BY <1>1, <1>2, <1>5, <1>6, <2>2, <3>1, RouteWritten
    <3> QED
      BY <3>2
  <2> QED
    BY <2>1, <2>2
<1>11. Placed'
  BY <1>1, <1>5, <1>6, <1>9, ReplyFacts DEF Placed
<1>12. Truthful' /\ Kept'
  <2>1. Truthful'
    BY <1>5, <1>6, ReplyFacts DEF Truthful
  <2>2. Kept'
    BY <1>6 DEF Kept
  <2> QED
    BY <2>1, <2>2
<1>13. Fresh'
  <2> SUFFICES ASSUME reply = "done" PROVE Fresh'
    BY <1>6 DEF Fresh
  <2>1. \A t \in Sent.moves \cap Things : rows'[t].stamp >= Changes + 1
    BY <1>5, <1>10
  <2>2. ASSUME NEW s \in visit'.seen, s.of \in Sent.moves
        PROVE  s.of \in Things /\ (s.stamp >= Changes + 1 \/ Awaited(s.of)')
    <3>1. CASE s.of = Route.of
      <4>1. s.stamp = Changes + 1
        BY <1>6, <3>1 DEF Sees
      <4>2. Route.of \in Things
        BY <1>5, <2>2, <3>1 DEF RouteFits
      <4> QED
        BY <1>5, <3>1, <4>1, <4>2
    <3>2. CASE s.of # Route.of
      <4>1. s.of \in CallsOf(Route.reads) \cap Things
        BY <1>5, <1>6, <3>2 DEF Sees
      <4>2. /\ Route.inline # "never" => Rereads(Route.onDone, s.of)
            /\ Route.inline # "always" => Rereads(SiteRoutes[visit.site][Route.lands].reads, s.of)
        BY <1>5, <2>2, <3>2, <4>1 DEF RouteFits, CallsOf
      <4>3. CASE InPlace
        BY <1>4, <1>6, <4>1, <4>2, <4>3 DEF Awaited, InPlace
      <4>4. CASE ~InPlace
        BY <1>6, <1>9, <4>1, <4>2, <4>4 DEF Awaited, InPlace
      <4> QED
        BY <4>3, <4>4
    <3> QED
      BY <3>1, <3>2
  <2>3. ~InPlace => Route.lands \in DOMAIN SiteRoutes[visit.site]
                    /\ SiteRoutes[visit.site][Route.lands].write = "none"
    BY <1>5 DEF InPlace, RouteFits
  <2> QED
    BY <1>6, <1>9, <2>1, <2>2, <2>3 DEF Fresh
<1> QED
  BY <1>8, <1>10, <1>11, <1>12, <1>13 DEF PageInv

LEMMA WriteMadeHolds ==
  ASSUME RoutesAreSound, PageInv, WriteMade
  PROVE  PageInv'
BY MakesHolds DEF WriteMade, Makes, Acknowledged

\* Nothing was made: the answer says so, or there is none.
LEMMA NotMadeHolds ==
  ASSUME RoutesAreSound, PageInv, visit.at = "write", UNCHANGED rows,
         NEW reply \in Unmade, NEW late \in BOOLEAN,
         late => reply # "refused", visit' = [GoesOn(reply) EXCEPT !.late = late]
  PROVE  PageInv'
<1>1. /\ visit \in VisitRecord /\ Stamped /\ Placed /\ Truthful /\ Fresh /\ Kept
  BY DEF PageInv
<1>2. /\ GoesOn(reply) \in VisitRecord
      /\ GoesOn(reply) = [visit EXCEPT !.at = "after", !.told = reply, !.todo = GoesOn(reply).todo]
  BY GoesOnFacts, ReplyFacts
<1>3. visit.told = "nothing" /\ visit.route = visit.sent /\ Route.write # "none" /\ visit.made = 0
  BY <1>1 DEF Placed, Truthful
<1>4. /\ visit' \in VisitRecord
      /\ visit'.site = visit.site /\ visit'.route = visit.route /\ visit'.sent = visit.sent
      /\ visit'.at = "after" /\ visit'.told = reply /\ visit'.made = visit.made /\ visit'.late = late
  BY <1>1, <1>2 DEF VisitRecord
<1>5. Route' = Route /\ Sent' = Sent /\ Things' = Things
  BY <1>4 DEF Route, Sent, Things
<1>6. Stamped'
  BY <1>1, <1>5 DEF Stamped
<1>7. Placed'
  BY <1>1, <1>3, <1>4, <1>5, ReplyFacts DEF Placed
<1>8. Truthful' /\ Fresh' /\ Kept'
  <2>1. reply # "done" /\ reply # "nothing"
    BY ReplyFacts
  <2>2. Truthful' /\ Fresh'
    BY <1>3, <1>4, <2>1 DEF Truthful, Fresh
  <2>3. Kept'
    BY <1>4 DEF Kept
  <2> QED
    BY <2>2, <2>3
<1> QED
  BY <1>4, <1>6, <1>7, <1>8 DEF PageInv

LEMMA WriteRefusedHolds ==
  ASSUME RoutesAreSound, PageInv, WriteRefused
  PROVE  PageInv'
<1>1. visit \in VisitRecord /\ Truthful /\ Placed
  BY DEF PageInv
<1>2. visit.at = "write" /\ UNCHANGED rows /\ visit' = GoesOn("refused")
  BY DEF WriteRefused
<1>3. GoesOn("refused") \in VisitRecord /\ GoesOn("refused").late = visit.late
  <2>1. "refused" \in Tells
    BY DEF Tells
  <2>2. GoesOn("refused") = [visit EXCEPT !.at = "after", !.told = "refused", !.todo = GoesOn("refused").todo]
        /\ GoesOn("refused") \in VisitRecord
    BY <1>2, <2>1, GoesOnFacts
  <2> QED
    BY <1>1, <2>2 DEF VisitRecord
<1>4. visit.late = FALSE
  BY <1>1, <1>2 DEF Truthful, Placed, VisitRecord
<1>5. visit' = [GoesOn("refused") EXCEPT !.late = FALSE]
  BY <1>2, <1>3, <1>4 DEF VisitRecord
<1> QED
  BY <1>2, <1>5, NotMadeHolds DEF Unmade

LEMMA WriteLostHolds ==
  ASSUME RoutesAreSound, PageInv, WriteLost
  PROVE  PageInv'
BY NotMadeHolds DEF WriteLost, Unmade

LEMMA AfterWriteHolds ==
  ASSUME RoutesAreSound, PageInv, AfterWrite
  PROVE  PageInv'
<1>1. /\ visit \in VisitRecord /\ Stamped /\ Placed /\ Truthful /\ Fresh /\ Kept
  BY DEF PageInv
<1>2. /\ visit.at = "after" /\ visit.todo = <<>> /\ UNCHANGED rows
      /\ visit' = IF visit.told = "done" /\ ~InPlace
                  THEN [visit EXCEPT !.at = "before", !.route = Route.lands,
                                     !.todo = SiteRoutes[visit.site][Route.lands].reads]
                  ELSE [visit EXCEPT !.at = "shown",
                          !.page = IF visit.told = "done" THEN "page" ELSE Route.back]
  BY DEF AfterWrite
<1>3. /\ visit.route = visit.sent /\ visit.told # "nothing" /\ Route = Sent /\ Route \in PageRoute
      /\ RouteFits(Route, SiteRoutes[visit.site], Things)
      /\ visit.sent \in BareAnswers(visit.site) \/ FormReturns(Sent)
  BY <1>1, <1>2, VisitFacts DEF Placed, Route, Sent
<1>4. CASE visit.told = "done" /\ ~InPlace
  <2> DEFINE landing == SiteRoutes[visit.site][Route.lands]
  <2>1. Route.lands \in DOMAIN SiteRoutes[visit.site] /\ landing.write = "none"
    BY <1>1, <1>2, <1>4 DEF Fresh
  <2>2. landing \in PageRoute /\ visit.site \in DOMAIN SiteRoutes
    BY <1>1, <2>1, RouteFacts DEF VisitRecord
  <2>3. landing.reads \in Seq(PageCall) /\ Route.lands \in RouteNames
    BY <2>1, <2>2 DEF PageRoute, RouteNames
  <2>4. /\ visit' \in VisitRecord
        /\ visit'.site = visit.site /\ visit'.route = Route.lands /\ visit'.sent = visit.sent
        /\ visit'.at = "before" /\ visit'.told = "done" /\ visit'.todo = landing.reads
        /\ visit'.made = visit.made /\ visit'.late = visit.late /\ visit'.stamp = visit.stamp
        /\ visit'.unread = visit.unread /\ visit'.seen = visit.seen
    BY <1>1, <1>2, <1>4, <2>3 DEF VisitRecord
  <2>5. Route' = landing /\ Sent' = Sent /\ Things' = Things
    BY <2>4 DEF Route, Sent, Things
  <2>6. \A t : Awaited(t) => Awaited(t)'
    <3>1. \A t : ~Rereads(<<>>, t)
      BY DEF Rereads
    <3> QED
      BY <1>2, <2>4, <3>1 DEF Awaited
  <2>7. Stamped' /\ Truthful' /\ Kept'
    <3>1. Stamped' /\ Truthful'
      BY <1>1, <1>2, <2>4, <2>5 DEF Stamped, Truthful
    <3>2. Kept'
      BY <2>4 DEF Kept
    <3> QED
      BY <3>1, <3>2
  <2>8. Placed'
    BY <1>1, <1>4, <2>1, <2>4, <2>5 DEF Placed, Truthful
  <2>9. Fresh'
    BY <1>1, <1>2, <1>4, <2>4, <2>5, <2>6 DEF Fresh
  <2> QED
    BY <2>4, <2>7, <2>8, <2>9 DEF PageInv
<1>5. CASE ~(visit.told = "done" /\ ~InPlace)
  <2> DEFINE ends == IF visit.told = "done" THEN "page" ELSE Route.back
  <2>1. ends \in {"none", "page", "form", "confirm", "error", "crash"}
    BY <1>3 DEF PageRoute
  <2>2. visit' = [visit EXCEPT !.at = "shown", !.page = ends]
    BY <1>2, <1>5
  <2> HIDE DEF ends
  <2>3. /\ visit' \in VisitRecord
        /\ visit'.site = visit.site /\ visit'.route = visit.route /\ visit'.sent = visit.sent
        /\ visit'.at = "shown" /\ visit'.told = visit.told /\ visit'.page = ends
        /\ visit'.made = visit.made /\ visit'.late = visit.late /\ visit'.stamp = visit.stamp
        /\ visit'.unread = visit.unread /\ visit'.seen = visit.seen
    BY <1>1, <2>1, <2>2 DEF VisitRecord
  <2>4. Route' = Route /\ Sent' = Sent /\ Things' = Things
    BY <2>3 DEF Route, Sent, Things
  <2>5. visit.told = "done" => \A t : ~Awaited(t)
    BY <1>2, <1>5 DEF Awaited, Rereads
  <2>6. Stamped' /\ Truthful' /\ Placed'
    BY <1>1, <1>2, <2>3, <2>4 DEF Stamped, Truthful, Placed
  <2>7. Fresh'
    BY <1>1, <1>2, <2>3, <2>4, <2>5 DEF Fresh
  <2>8. Kept'
    BY <1>2, <1>3, <2>3, <2>4 DEF Kept, FormReturns, ends
  <2> QED
    BY <2>3, <2>6, <2>7, <2>8 DEF PageInv
<1> QED
  BY <1>4, <1>5

-----------------------------------------------------------------------------
(* What others write                                                       *)

LEMMA LateWriteHolds ==
  ASSUME RoutesAreSound, PageInv, LateWrite
  PROVE  PageInv'
<1>1. /\ visit \in VisitRecord /\ Stamped /\ Placed /\ Truthful /\ Fresh /\ Kept
  BY DEF PageInv
<1>2. /\ visit.late /\ Changes < MaxChanges /\ rows' = Written(Route.write, Route.of, Route.moves)
      /\ visit' = [visit EXCEPT !.late = FALSE, !.made = @ + 1]
  BY DEF LateWrite
<1>3. /\ visit.route = visit.sent /\ Route.write # "none" /\ visit.made = 0
      /\ visit.told \notin {"nothing", "refused", "done"}
      /\ Route \in PageRoute /\ RouteFits(Route, SiteRoutes[visit.site], Things) /\ MaxChanges \in Nat
  BY <1>1, <1>2, VisitFacts DEF Placed, Truthful
<1>4. /\ visit' \in VisitRecord
      /\ visit'.site = visit.site /\ visit'.route = visit.route /\ visit'.sent = visit.sent
      /\ visit'.at = visit.at /\ visit'.told = visit.told /\ visit'.page = visit.page
      /\ visit'.made = 1 /\ visit'.late = FALSE /\ visit'.todo = visit.todo
      /\ visit'.unread = visit.unread /\ visit'.seen = visit.seen
  <2>1. visit.made + 1 = 1 /\ 1 \in Nat
    BY <1>3
  <2>2. visit' = [visit EXCEPT !.late = FALSE, !.made = 1]
    BY <1>1, <1>2, <2>1 DEF VisitRecord
  <2> HIDE DEF LateWrite, PageInv, RoutesAreSound
  <2> QED
    BY <1>1, <2>1, <2>2 DEF VisitRecord
<1>5. Route' = Route /\ Sent' = Sent /\ Things' = Things
  BY <1>4 DEF Route, Sent, Things
<1>6. Stamped'
  <2>1. CASE Route.write = "ask"
    BY <1>1, <1>2, <1>5, <2>1 DEF Written, Stamped
  <2>2. CASE Route.write # "ask"
    <3>1. Route.of \in Things
      BY <1>3, <2>2 DEF RouteFits
    <3> QED
      BY <1>1, <1>2, <1>3, <1>4, <2>2, <3>1, WrittenFacts
  <2> QED
    BY <2>1, <2>2
<1>7. Placed'
  BY <1>1, <1>3, <1>4, <1>5 DEF Placed
<1>8. Truthful' /\ Fresh' /\ Kept'
  <2>1. Truthful' /\ Fresh'
    BY <1>3, <1>4 DEF Truthful, Fresh
  <2>2. Kept'
    BY <1>1, <1>4, <1>5 DEF Kept
  <2> QED
    BY <2>1, <2>2
<1> QED
  BY <1>4, <1>6, <1>7, <1>8 DEF PageInv

LEMMA SomebodyWritesHolds ==
  ASSUME RoutesAreSound, PageInv, SomebodyWrites
  PROVE  PageInv'
<1>1. /\ visit \in VisitRecord /\ Stamped /\ Placed /\ Truthful /\ Fresh /\ Kept
  BY DEF PageInv
<1>2. Changes < MaxChanges /\ UNCHANGED visit
  BY DEF SomebodyWrites
<1>3. /\ DOMAIN rows = Things /\ MaxChanges \in Nat /\ Sent' = Sent /\ Route' = Route /\ Things' = Things
      /\ InPlace' = InPlace /\ \A t : Awaited(t)' = Awaited(t)
  BY <1>2, VisitFacts DEF Sent, Route, Things, InPlace, Awaited
<1>4. PICK t \in Things, write \in {"create", "change", "delete"} : rows' = Written(write, t, {t})
  BY <1>3 DEF SomebodyWrites
<1>5. Stamped' /\ \A u \in Things : rows'[u].stamp >= rows[u].stamp
  BY <1>1, <1>2, <1>3, <1>4, WrittenFacts
<1>6. \A u \in Things : rows[u].stamp \in Nat /\ rows'[u].stamp \in Nat
  BY <1>1, <1>3, <1>5 DEF Stamped
<1>7. Placed' /\ Truthful' /\ Kept'
  BY <1>1, <1>2, <1>3 DEF Placed, Truthful, Kept
<1>8. Fresh'
  <2>1. visit.stamp \in Nat
    BY <1>1 DEF VisitRecord
  <2> QED
    BY <1>1, <1>2, <1>3, <1>5, <1>6, <2>1 DEF Fresh
<1> QED
  BY <1>1, <1>2, <1>5, <1>7, <1>8 DEF PageInv

LEMMA PageStep ==
  ASSUME RoutesAreSound, PageInv, [PageNext]_PageVars
  PROVE  PageInv'
<1>1. CASE UNCHANGED PageVars
  BY <1>1 DEF PageVars, PageInv, Stamped, Placed, Truthful, Fresh, Kept, Route, Sent, InPlace,
              Things, Awaited
<1> QED
  BY <1>1, ReadsNextHolds, ReadFailsHolds, ReadsDoneHolds, WriteMadeHolds, WriteRefusedHolds,
     WriteLostHolds, AfterWriteHolds, LateWriteHolds, SomebodyWritesHolds DEF PageNext

LEMMA PageTells ==
  ASSUME PageInv
  PROVE  PagesAreTrue
<1>1. ToldWhatHappened
  BY DEF PageInv, Truthful, ToldWhatHappened
<1>2. SeesOwnWrite
  BY DEF PageInv, Fresh, SeesOwnWrite, Awaited, VisitRecord
<1>3. TypingSurvives
  BY DEF PageInv, Kept, TypingSurvives
<1> QED
  BY <1>1, <1>2, <1>3 DEF PagesAreTrue

\* Whatever calls fail on the way, whichever writes get no answer and whatever others
\* write meanwhile: what a page says of a write is so, it shows nothing from before
\* it, and what was typed is not lost, on every site whose routes fit, which the
\* tables of the five sites do (PageTablesFit): student 4's picker alone answers bare.
THEOREM PagesStayTrue ==
  RoutesAreSound => (PageInit /\ [][PageNext]_PageVars => []PagesAreTrue)
<1> SUFFICES ASSUME RoutesAreSound PROVE PageInit /\ [][PageNext]_PageVars => []PagesAreTrue
  OBVIOUS
<1>1. PageInit => PageInv
  BY PageStart
<1>2. PageInv /\ [PageNext]_PageVars => PageInv'
  BY PageStep
<1>3. PageInv => PagesAreTrue
  BY PageTells
<1> QED
  BY <1>1, <1>2, <1>3, PTL

-----------------------------------------------------------------------------
(* TripSuggestions: whatever the trip holds and becomes, whatever the model *)
(* answers and however small the room for a prompt, what is suggested fits  *)
(* together, leaves free what was there, and the prompt tells what it does  *)
(* not show.                                                                *)

Below == {p \in Nat \X Nat : p[1] < p[2]}
\* A set of numbers with a member has a least one.
LEMMA Least ==
  ASSUME NEW T \in SUBSET Nat, T # {}
  PROVE \E x \in T : \A y \in T : x <= y
<1>1. IsWellFoundedOn(Below, Nat)
  BY NatLessThanWellFounded DEF OpToRel, Below
<1>2. PICK x \in T : \A y \in T : <<y, x>> \notin Below
  BY <1>1, WFMin
<1>3. ASSUME NEW y \in T, y < x PROVE FALSE
  <2>1. <<y, x>> \in Nat \X Nat /\ <<y, x>>[1] = y /\ <<y, x>>[2] = x
    OBVIOUS
  <2>2. <<y, x>> \in Below
    BY <1>3, <2>1, Zenon DEF Below
  <2> QED
    BY <1>2, <2>2
<1>4. \A y \in T : x <= y
  BY <1>3
<1> QED
  BY <1>4

-----------------------------------------------------------------------------
(* Members of a set ranked by an order                                      *)

\* A strict order of the members of S, as the pairs in which one comes before.
Orders(R, S) ==
  /\ \A x \in S : <<x, x>> \notin R
  /\ \A x, y, z \in S : <<x, y>> \in R /\ <<y, z>> \in R => <<x, z>> \in R
  /\ \A x, y \in S : x /= y => <<x, y>> \in R \/ <<y, x>> \in R
RankIn(R, S, x) == Cardinality({y \in S : <<y, x>> \in R})

\* Ranks are different numbers below the size of the set, and follow the order.
LEMMA RanksFollow ==
  ASSUME NEW S, IsFiniteSet(S), NEW R, Orders(R, S)
  PROVE  /\ \A x \in S : RankIn(R, S, x) \in Nat /\ RankIn(R, S, x) < Cardinality(S)
         /\ \A x, y \in S : <<x, y>> \in R <=> RankIn(R, S, x) < RankIn(R, S, y)
         /\ \A x, y \in S : RankIn(R, S, x) = RankIn(R, S, y) => x = y
<1> DEFINE Before(x) == {y \in S : <<y, x>> \in R}
<1>1. Cardinality(S) \in Nat
  BY FS_CardinalityType
<1>2. ASSUME NEW x \in S
      PROVE  /\ IsFiniteSet(Before(x)) /\ Cardinality(Before(x)) \in Nat
             /\ Cardinality(Before(x)) < Cardinality(S)
  <2>1. Before(x) \subseteq S /\ Before(x) /= S
    BY DEF Orders
  <2>2. /\ IsFiniteSet(Before(x)) /\ Cardinality(Before(x)) <= Cardinality(S)
        /\ Cardinality(S) = Cardinality(Before(x)) => S = Before(x)
    BY <2>1, FS_Subset
  <2>3. Cardinality(Before(x)) \in Nat
    BY <2>2, FS_CardinalityType
  <2> QED
    BY <1>1, <2>1, <2>2, <2>3
<1>3. ASSUME NEW x \in S, NEW y \in S, <<x, y>> \in R
      PROVE  Cardinality(Before(x)) < Cardinality(Before(y))
  <2>1. Before(x) \subseteq Before(y) /\ Before(x) /= Before(y)
    <3>1. x \in Before(y) /\ x \notin Before(x)
      BY <1>3 DEF Orders
    <3>2. Before(x) \subseteq Before(y)
      BY <1>3 DEF Orders
    <3> QED
      BY <3>1, <3>2
  <2>2. IsFiniteSet(Before(y)) /\ Cardinality(Before(y)) \in Nat /\ Cardinality(Before(x)) \in Nat
    BY <1>2
  <2>3. /\ Cardinality(Before(x)) <= Cardinality(Before(y))
        /\ Cardinality(Before(y)) = Cardinality(Before(x)) => Before(y) = Before(x)
    BY <2>1, <2>2, FS_Subset
  <2> QED
    BY <2>1, <2>2, <2>3
<1>4. \A x \in S : RankIn(R, S, x) = Cardinality(Before(x))
  BY DEF RankIn
<1> HIDE DEF Before
<1>5. \A x, y \in S : <<x, y>> \in R \/ x = y \/ <<y, x>> \in R
  BY DEF Orders
<1>6. ASSUME NEW x \in S, NEW y \in S
      PROVE  /\ <<x, y>> \in R <=> Cardinality(Before(x)) < Cardinality(Before(y))
             /\ Cardinality(Before(x)) = Cardinality(Before(y)) => x = y
  <2>1. Cardinality(Before(x)) \in Nat /\ Cardinality(Before(y)) \in Nat
    BY <1>2
  <2>2. /\ <<x, y>> \in R => Cardinality(Before(x)) < Cardinality(Before(y))
        /\ <<y, x>> \in R => Cardinality(Before(y)) < Cardinality(Before(x))
        /\ <<x, y>> \in R \/ x = y \/ <<y, x>> \in R
    BY <1>3, <1>5
  <2> QED
    BY <2>1, <2>2
<1>7. \A x \in S : RankIn(R, S, x) \in Nat /\ RankIn(R, S, x) < Cardinality(S)
  BY <1>2, <1>4
<1> QED
  BY <1>4, <1>6, <1>7

\* So each place in the order is taken.
LEMMA RanksAreTaken ==
  ASSUME NEW S, IsFiniteSet(S), NEW R, Orders(R, S), NEW i \in 1..Cardinality(S)
  PROVE  \E x \in S : RankIn(R, S, x) = i - 1
<1> DEFINE n == Cardinality(S)
           rank == [x \in S |-> RankIn(R, S, x)]
<1>1. n \in Nat
  BY FS_CardinalityType
<1>2. IsFiniteSet(0..n - 1) /\ Cardinality(0..n - 1) = n
  <2> HIDE DEF n
  <2>1. n - 1 \in Int /\ 0 \in Int
    BY <1>1
  <2>2. /\ IsFiniteSet(0..n - 1)
        /\ Cardinality(0..n - 1) = IF 0 > n - 1 THEN 0 ELSE n - 1 - 0 + 1
    BY <2>1, FS_Interval
  <2> QED
    BY <1>1, <2>2
<1>3. rank \in Injection(S, 0..n - 1)
  <2>1. \A x \in S : RankIn(R, S, x) \in 0..n - 1
    BY <1>1, RanksFollow
  <2>2. \A x, y \in S : rank[x] = rank[y] => x = y
    BY RanksFollow
  <2> QED
    BY <2>1, <2>2 DEF Injection, IsInjective
<1>4. rank \in Surjection(S, 0..n - 1)
  BY <1>1, <1>2, <1>3, FS_Injection
<1>5. i - 1 \in 0..n - 1
  BY <1>1
<1> QED
  BY <1>4, <1>5 DEF Surjection

-----------------------------------------------------------------------------
(* Sort keys, compared from the left                                        *)

Smaller(a, b) == \E i \in DOMAIN a : a[i] < b[i] /\ \A j \in 1..i - 1 : a[j] = b[j]

\* Keys of one length, no two of them with the same last part, are put in a strict order.
LEMMA KeysAreOrdered ==
  ASSUME NEW n \in Nat, NEW a \in [1..n -> Int], NEW b \in [1..n -> Int]
  PROVE  /\ ~Smaller(a, a)
         /\ a /= b => Smaller(a, b) \/ Smaller(b, a)
         /\ \A c \in [1..n -> Int] : Smaller(a, b) /\ Smaller(b, c) => Smaller(a, c)
<1>1. ~Smaller(a, a)
  BY DEF Smaller
<1>2. ASSUME a /= b PROVE Smaller(a, b) \/ Smaller(b, a)
  <2> DEFINE T == {i \in 1..n : a[i] /= b[i]}
  <2>1. T \subseteq Nat /\ T /= {}
    BY <1>2
  <2>2. PICK i \in T : \A j \in T : i <= j
    BY <2>1, Least
  <2>3. i \in 1..n /\ a[i] \in Int /\ b[i] \in Int /\ a[i] /= b[i]
    BY <2>2
  <2>4. \A j \in 1..i - 1 : j \in 1..n /\ a[j] = b[j]
    BY <2>2, <2>3
  <2>5. a[i] < b[i] \/ b[i] < a[i]
    BY <2>3
  <2> QED
    BY <2>3, <2>4, <2>5 DEF Smaller
<1>3. ASSUME NEW c \in [1..n -> Int], Smaller(a, b), Smaller(b, c) PROVE Smaller(a, c)
  <2>1. PICK i \in 1..n : a[i] < b[i] /\ \A j \in 1..i - 1 : a[j] = b[j]
    BY <1>3 DEF Smaller
  <2>2. PICK k \in 1..n : b[k] < c[k] /\ \A j \in 1..k - 1 : b[j] = c[j]
    BY <1>3 DEF Smaller
  <2>3. \A j \in 1..n : a[j] \in Int /\ b[j] \in Int /\ c[j] \in Int
    OBVIOUS
  <2>4. CASE i < k
    <3>1. b[i] = c[i] /\ \A j \in 1..i - 1 : j \in 1..k - 1
      BY <2>2, <2>4
    <3>2. a[i] < c[i] /\ \A j \in 1..i - 1 : a[j] = c[j]
      BY <2>1, <2>2, <3>1
    <3> QED
      BY <3>2 DEF Smaller
  <2>5. CASE k < i
    <3>1. a[k] = b[k] /\ \A j \in 1..k - 1 : j \in 1..i - 1
      BY <2>1, <2>5
    <3>2. a[k] < c[k] /\ \A j \in 1..k - 1 : a[j] = c[j]
      BY <2>1, <2>2, <3>1
    <3> QED
      BY <3>2 DEF Smaller
  <2>6. CASE i = k
    <3>1. a[i] < c[i] /\ \A j \in 1..i - 1 : a[j] = c[j]
      BY <2>1, <2>2, <2>3, <2>6
    <3> QED
      BY <3>1 DEF Smaller
  <2> QED
    BY <2>4, <2>5, <2>6
<1> QED
  BY <1>1, <1>2, <1>3

KeyLength == [items |-> 6, activities |-> 5, stays |-> 3, transport |-> 2]

\* The keys of one kind are of one length and end with the order of the entry.
LEMMA RelevanceFacts ==
  ASSUME NEW e \in Entries, NEW kind \in EntryKinds, EntryOf[e].kind = kind
  PROVE  /\ KeyLength[kind] \in Nat \ {0}
         /\ Relevance(e) \in [1..KeyLength[kind] -> Int]
         /\ Relevance(e)[KeyLength[kind]] = EntryOf[e].order
<1> DEFINE x == EntryOf[e]
<1>1. EntryFits(x) /\ x.kind = kind /\ x.order \in Int /\ RequestedDay \in Nat
  BY SuggestionAssumption DEF EntryFits
<1>2. \A t \in Times : t \in Int
  BY SuggestionAssumption DEF Times, NoTime
<1>3. \A c : First(c) \in Int
  BY DEF First
<1>4. \A day \in Nat : Distance(day) \in Int
  BY <1>1 DEF Distance
<1>5. CASE kind = "items"
  <2>1. x.day \in Nat /\ x.from \in Int
    BY <1>1, <1>2, <1>5 DEF EntryFits
  <2>2. Relevance(e) = <<First(x.day = RequestedDay), Distance(x.day), x.day,
                         First(x.from /= NoTime), x.from, x.order>>
    BY <1>5 DEF Relevance
  <2>3. First(x.day = RequestedDay) \in Int /\ First(x.from /= NoTime) \in Int
    BY <1>3
  <2>4. KeyLength[kind] = 6
    BY <1>5 DEF KeyLength
  <2> QED
    BY <1>1, <1>4, <2>1, <2>2, <2>3, <2>4
<1>6. CASE kind = "activities"
  <2>1. x.day \in Nat /\ x.from \in Int
    BY <1>1, <1>2, <1>6 DEF EntryFits
  <2>2. Relevance(e) = <<First(x.day = RequestedDay), Distance(x.day), x.day, x.from, x.order>>
    BY <1>6 DEF Relevance
  <2>3. First(x.day = RequestedDay) \in Int
    BY <1>3
  <2>4. KeyLength[kind] = 5
    BY <1>6 DEF KeyLength
  <2> QED
    BY <1>1, <1>4, <2>1, <2>2, <2>3, <2>4
<1>7. CASE kind = "stays"
  <2>1. x.day \in Nat
    BY <1>1, <1>7 DEF EntryFits
  <2>2. Relevance(e) = <<First(x.day <= RequestedDay /\ RequestedDay <= x.until), x.day, x.order>>
    BY <1>7 DEF Relevance
  <2>3. First(x.day <= RequestedDay /\ RequestedDay <= x.until) \in Int
    BY <1>3
  <2>4. KeyLength[kind] = 3
    BY <1>7 DEF KeyLength
  <2> QED
    BY <1>1, <2>1, <2>2, <2>3, <2>4
<1>8. CASE kind = "transport"
  <2>1. StatusRank[x.status] \in Int
    BY <1>1, <1>8 DEF EntryFits, Statuses, StatusRank
  <2>2. Relevance(e) = <<StatusRank[x.status], x.order>>
    BY <1>8 DEF Relevance
  <2>4. KeyLength[kind] = 2
    BY <1>8 DEF KeyLength
  <2> QED
    BY <1>1, <2>1, <2>2, <2>4
<1> QED
  BY <1>5, <1>6, <1>7, <1>8 DEF EntryKinds

\* How relevant an entry is orders those of one kind.
RelevanceIn(set, kind) ==
  {p \in OfKind(set, kind) \X OfKind(set, kind) : MoreRelevant(p[1], p[2])}

\* So what is more relevant is a strict order of the entries of a kind.
LEMMA RelevanceOrders ==
  ASSUME NEW set \in SUBSET Entries, NEW kind \in EntryKinds
  PROVE  /\ Orders(RelevanceIn(set, kind), OfKind(set, kind))
         /\ \A d, e \in OfKind(set, kind) : <<d, e>> \in RelevanceIn(set, kind) <=> MoreRelevant(d, e)
<1> DEFINE held == OfKind(set, kind)
           R == RelevanceIn(set, kind)
           n == KeyLength[kind]
<1>1. \A e \in held : e \in Entries /\ EntryOf[e].kind = kind
  BY DEF OfKind
<1>2. \A e \in held : n \in Nat /\ Relevance(e) \in [1..n -> Int] /\ Relevance(e)[n] = EntryOf[e].order
  BY <1>1, RelevanceFacts
<1>3. \A d, e \in held : MoreRelevant(d, e) <=> Smaller(Relevance(d), Relevance(e))
  BY DEF MoreRelevant, Smaller
<1>4. \A d, e \in held : <<d, e>> \in R <=> Smaller(Relevance(d), Relevance(e))
  <2>1. ASSUME NEW d \in held, NEW e \in held
        PROVE  <<d, e>> \in R <=> MoreRelevant(d, e)
    <3>1. <<d, e>> \in held \X held /\ <<d, e>>[1] = d /\ <<d, e>>[2] = e
      OBVIOUS
    <3> QED
      BY <3>1, Zenon DEF RelevanceIn
  <2> QED
    BY <1>3, <2>1
<1>5. \A d, e \in held : d /= e => Relevance(d) /= Relevance(e)
  BY <1>1, <1>2, SuggestionAssumption
<1> HIDE DEF n, R, held
<1>6. \A d \in held : <<d, d>> \notin R
  BY <1>2, <1>4, KeysAreOrdered
<1>7. \A d, e, f \in held : <<d, e>> \in R /\ <<e, f>> \in R => <<d, f>> \in R
  BY <1>2, <1>4, KeysAreOrdered
<1>8. \A d, e \in held : d /= e => <<d, e>> \in R \/ <<e, d>> \in R
  BY <1>2, <1>4, <1>5, KeysAreOrdered
<1> QED
  BY <1>3, <1>4, <1>6, <1>7, <1>8 DEF Orders, held, R

\* The most relevant of a kind: each once, none left out for a less relevant one, and
\* all of them when there are no more than the maximum.
LEMMA MostRelevantFacts ==
  ASSUME NEW set \in SUBSET Entries, NEW kind \in EntryKinds
  PROVE  LET r == MostRelevant(set, kind)  held == OfKind(set, kind)  n == Cardinality(held) IN
         /\ IsFiniteSet(held) /\ n \in Nat
         /\ r \in Seq(held) /\ Len(r) \in 0..n
         /\ n <= MaxContext[kind] => \A e \in held : \E i \in 1..Len(r) : r[i] = e
         /\ \A i, j \in 1..Len(r) : r[i] = r[j] => i = j
         /\ \A i \in 1..Len(r), d \in held : (\A j \in 1..i : r[j] /= d) => MoreRelevant(r[i], d)
<1> DEFINE r == MostRelevant(set, kind)
           held == OfKind(set, kind)
           n == Cardinality(held)
           max == MaxContext[kind]
           R == RelevanceIn(set, kind)
           rank(e) == RankIn(R, held, e)
           At(i) == CHOOSE e \in held : rank(e) = i - 1
           ranked == [i \in 1..n |-> At(i)]
           most == IF n < max THEN n ELSE max
<1>1. IsFiniteSet(held) /\ n \in Nat /\ max \in Nat
  <2>1. IsFiniteSet(held)
    BY SuggestionAssumption, FS_Subset DEF OfKind
  <2> QED
    BY <2>1, SuggestionAssumption, FS_CardinalityType
<1>2. /\ Orders(R, held)
      /\ \A d, e \in held : <<d, e>> \in R <=> MoreRelevant(d, e)
  BY RelevanceOrders
<1>3. \A e \in held : rank(e) = Cardinality({d \in held : MoreRelevant(d, e)})
  <2>1. \A e \in held : {d \in held : MoreRelevant(d, e)} = {d \in held : <<d, e>> \in R}
    BY <1>2
  <2> QED
    BY <2>1 DEF RankIn
<1>4. ranked = [i \in 1..n |->
                  CHOOSE e \in held : Cardinality({d \in held : MoreRelevant(d, e)}) = i - 1]
  BY <1>3
<1>5. /\ \A x \in held : rank(x) \in Nat /\ rank(x) < n
      /\ \A x, y \in held : <<x, y>> \in R <=> rank(x) < rank(y)
      /\ \A x, y \in held : rank(x) = rank(y) => x = y
  BY <1>1, <1>2, RanksFollow
<1>6. \A i \in 1..n : At(i) \in held /\ rank(At(i)) = i - 1
  BY <1>1, <1>2, RanksAreTaken
<1> HIDE DEF rank, At, n, held, max, R
<1>7. ranked \in Seq(held) /\ Len(ranked) = n /\ \A i \in 1..n : ranked[i] = At(i)
  BY <1>1, <1>6
<1>8. r = SubSeq(ranked, 1, most)
  BY <1>4, <1>7 DEF MostRelevant, n, held, max
<1> HIDE DEF ranked, r
<1>9. most \in Nat /\ most <= n /\ (n <= max => most = n)
  BY <1>1
<1> HIDE DEF most
<1>10. /\ r \in Seq(held) /\ Len(r) = most
       /\ \A i \in 1..most : r[i] = At(i)
  <2>1. \A i \in 1..most : i \in 1..n /\ ranked[i] \in held /\ ranked[i] = At(i)
    BY <1>1, <1>6, <1>7, <1>9
  <2>2. /\ SubSeq(ranked, 1, most) \in Seq(held)
        /\ Len(SubSeq(ranked, 1, most)) = IF 1 <= most THEN most - 1 + 1 ELSE 0
        /\ \A i \in 1..most - 1 + 1 : SubSeq(ranked, 1, most)[i] = ranked[1 + i - 1]
    BY <1>9, <2>1, SubSeqProperties
  <2>3. most - 1 + 1 = most /\ \A i \in 1..most : 1 + i - 1 = i
    BY <1>9
  <2>4. Len(SubSeq(ranked, 1, most)) = most
    BY <1>9, <2>2
  <2>5. \A i \in 1..most : SubSeq(ranked, 1, most)[i] = ranked[i]
    BY <2>2, <2>3
  <2> QED
    BY <1>8, <2>1, <2>2, <2>4, <2>5
<1>11. \A i \in 1..most : i \in 1..n /\ r[i] \in held /\ rank(r[i]) = i - 1
  BY <1>1, <1>6, <1>9, <1>10
<1>12. \A i, j \in 1..most : r[i] = r[j] => i = j
  <2>1. ASSUME NEW i \in 1..most, NEW j \in 1..most, r[i] = r[j] PROVE i = j
    <3>1. i - 1 = j - 1
      BY <1>11, <2>1
    <3> QED
      BY <3>1
  <2> QED
    BY <2>1
<1>13. ASSUME NEW e \in held, rank(e) < most PROVE \E i \in 1..most : i = rank(e) + 1 /\ r[i] = e
  <2> DEFINE i == rank(e) + 1
  <2>1. i \in 1..most /\ i - 1 = rank(e)
    BY <1>5, <1>9, <1>13
  <2>2. rank(r[i]) = rank(e) /\ r[i] \in held
    BY <1>11, <2>1
  <2> QED
    BY <1>5, <2>1, <2>2
<1>14. ASSUME NEW i \in 1..most, NEW d \in held, \A j \in 1..i : r[j] /= d
       PROVE  MoreRelevant(r[i], d)
  <2>1. ~(rank(d) < i)
    <3> SUFFICES ASSUME rank(d) < i PROVE FALSE
      OBVIOUS
    <3>1. rank(d) \in Nat /\ rank(d) < most
      BY <1>5, <1>9
    <3>2. PICK j \in 1..most : j = rank(d) + 1 /\ r[j] = d
      BY <1>13, <3>1
    <3>3. j \in 1..i
      BY <3>1, <3>2
    <3> QED
      BY <1>14, <3>2, <3>3
  <2>2. r[i] \in held /\ rank(r[i]) = i - 1 /\ rank(d) \in Nat
    BY <1>5, <1>11
  <2>3. rank(r[i]) < rank(d)
    BY <2>1, <2>2
  <2> QED
    BY <1>2, <1>5, <2>2, <2>3 DEF held, R
<1>15. n <= max => \A e \in held : \E i \in 1..most : r[i] = e
  BY <1>5, <1>9, <1>13
<1>16. most \in 0..n
  BY <1>1, <1>9
<1> QED
  BY <1>1, <1>10, <1>12, <1>14, <1>15, <1>16 DEF n, held, max, r

-----------------------------------------------------------------------------
(* What is left out of a prompt                                             *)

Fields == {"notes", "description", "transport", "stays", "activities", "location", "items"}
Pieces == (Fields \X Entries) \cup {<<"remarks">>, <<"interests">>}

Without(order, name) == \A i \in DOMAIN order : order[i][1] /= name
\* The records of a kind stand together, the least relevant first.
Together(order, name, records) ==
  \E a \in Nat :
    /\ a + Len(records) <= Len(order)
    /\ \A i \in 1..Len(records) : order[a + i] = <<name, records[Len(records) + 1 - i]>>
    /\ \A i \in DOMAIN order : order[i][1] = name => i \in a + 1..a + Len(records)

\* A field's pieces are its records, the last one first.
LEMMA FieldFacts ==
  ASSUME NEW name \in Fields, NEW records \in Seq(Entries)
  PROVE  LET f == Field(name, records)  n == Len(records) IN
         /\ f \in Seq(Pieces) /\ Len(f) = n /\ n \in Nat
         /\ \A i \in 1..n : f[i] = <<name, records[n + 1 - i]>>
         /\ \A other : other /= name => Without(f, other)
<1> DEFINE f == Field(name, records)
           n == Len(records)
<1>1. n \in Nat /\ \A i \in 1..n : n + 1 - i \in 1..n /\ records[n + 1 - i] \in Entries
  BY LenProperties
<1>2. f = [i \in 1..n |-> <<name, records[n + 1 - i]>>]
  BY DEF Field
<1>3. \A i \in 1..n : <<name, records[n + 1 - i]>> \in Pieces
  BY <1>1 DEF Pieces
<1> HIDE DEF f, n
<1>4. f \in Seq(Pieces) /\ Len(f) = n /\ \A i \in 1..n : f[i] = <<name, records[n + 1 - i]>>
  <2>1. \A i \in 1..n : f[i] = <<name, records[n + 1 - i]>>
    BY <1>2
  <2>2. f \in [1..n -> Pieces]
    BY <1>2, <1>3
  <2> QED
    BY <1>1, <2>1, <2>2
<1>5. ASSUME NEW other, other /= name PROVE Without(f, other)
  BY <1>1, <1>4, <1>5 DEF Without
<1> QED
  BY <1>1, <1>4, <1>5 DEF f, n

\* Pieces without a name have none when joined.
LEMMA JoinWithout ==
  ASSUME NEW s \in Seq(Pieces), NEW t \in Seq(Pieces), NEW name, Without(s, name), Without(t, name)
  PROVE  s \o t \in Seq(Pieces) /\ Without(s \o t, name)
<1>1. /\ s \o t \in Seq(Pieces) /\ Len(s \o t) = Len(s) + Len(t)
      /\ \A i \in 1..Len(s) + Len(t) : (s \o t)[i] = IF i <= Len(s) THEN s[i] ELSE t[i - Len(s)]
  BY ConcatProperties
<1>2. ASSUME NEW i \in 1..Len(s) + Len(t) PROVE (s \o t)[i][1] /= name
  <2>1. Len(s) \in Nat /\ Len(t) \in Nat /\ DOMAIN s = 1..Len(s) /\ DOMAIN t = 1..Len(t)
    BY LenProperties
  <2>2. CASE i <= Len(s)
    BY <1>1, <2>1, <2>2 DEF Without
  <2>3. CASE ~(i <= Len(s))
    <3>1. i - Len(s) \in 1..Len(t)
      BY <2>1, <2>3
    <3> QED
      BY <1>1, <2>1, <2>3, <3>1 DEF Without
  <2> QED
    BY <2>2, <2>3
<1>3. DOMAIN (s \o t) = 1..Len(s) + Len(t)
  BY <1>1, LenProperties
<1> QED
  BY <1>1, <1>2, <1>3 DEF Without

\* The pieces of a name stay together between pieces without it.
LEMMA JoinRecords ==
  ASSUME NEW s \in Seq(Pieces), NEW name \in Fields, NEW records \in Seq(Entries), Without(s, name)
  PROVE  s \o Field(name, records) \in Seq(Pieces) /\ Together(s \o Field(name, records), name, records)
<1> DEFINE f == Field(name, records)
           n == Len(records)
           a == Len(s)
           o == s \o f
<1>1. f \in Seq(Pieces) /\ Len(f) = n /\ n \in Nat /\ a \in Nat /\ DOMAIN s = 1..a
      /\ \A i \in 1..n : f[i] = <<name, records[n + 1 - i]>>
  BY FieldFacts, LenProperties
<1> HIDE DEF f, n
<1>2. /\ o \in Seq(Pieces) /\ Len(o) = a + n
      /\ \A i \in 1..a + n : o[i] = IF i <= a THEN s[i] ELSE f[i - a]
  BY <1>1, ConcatProperties
<1>3. DOMAIN o = 1..a + n
  BY <1>1, <1>2, LenProperties
<1> HIDE DEF a, o
<1>4. ASSUME NEW i \in 1..n PROVE o[a + i] = <<name, records[n + 1 - i]>>
  <2>1. a + i \in 1..a + n /\ ~(a + i <= a) /\ a + i - a = i
    BY <1>1
  <2> QED
    BY <1>1, <1>2, <2>1
<1>5. ASSUME NEW i \in DOMAIN o, o[i][1] = name PROVE i \in a + 1..a + n
  <2>1. ~(i <= a)
    <3> SUFFICES ASSUME i <= a PROVE FALSE
      OBVIOUS
    <3>1. i \in 1..a /\ o[i] = s[i]
      BY <1>1, <1>2, <1>3, <1>5
    <3> QED
      BY <1>1, <1>5, <3>1 DEF Without
  <2> QED
    BY <1>1, <1>3, <2>1
<1>6. a + n <= Len(o)
  BY <1>1, <1>2
<1> QED
  BY <1>1, <1>2, <1>4, <1>5, <1>6 DEF Together, f, n, o

\* They stay together when more pieces without the name follow.
LEMMA JoinMore ==
  ASSUME NEW s \in Seq(Pieces), NEW t \in Seq(Pieces), NEW name, NEW records \in Seq(Entries),
         Together(s, name, records), Without(t, name)
  PROVE  s \o t \in Seq(Pieces) /\ Together(s \o t, name, records)
<1> DEFINE n == Len(records)
           o == s \o t
<1>1. PICK a \in Nat : /\ a + n <= Len(s)
                       /\ \A i \in 1..n : s[a + i] = <<name, records[n + 1 - i]>>
                       /\ \A i \in DOMAIN s : s[i][1] = name => i \in a + 1..a + n
  BY DEF Together
<1>2. /\ n \in Nat /\ Len(s) \in Nat /\ Len(t) \in Nat
      /\ DOMAIN s = 1..Len(s) /\ DOMAIN t = 1..Len(t)
  BY LenProperties
<1>3. /\ o \in Seq(Pieces) /\ Len(o) = Len(s) + Len(t)
      /\ \A i \in 1..Len(s) + Len(t) : o[i] = IF i <= Len(s) THEN s[i] ELSE t[i - Len(s)]
  BY ConcatProperties
<1>4. DOMAIN o = 1..Len(s) + Len(t)
  BY <1>3, LenProperties
<1> HIDE DEF n, o
<1>5. ASSUME NEW i \in 1..n PROVE o[a + i] = <<name, records[n + 1 - i]>>
  <2>1. a + i \in 1..Len(s) + Len(t) /\ a + i <= Len(s)
    BY <1>1, <1>2
  <2> QED
    BY <1>1, <1>3, <2>1
<1>6. ASSUME NEW i \in DOMAIN o, o[i][1] = name PROVE i \in a + 1..a + n
  <2>1. CASE i <= Len(s)
    <3>1. i \in 1..Len(s) /\ o[i] = s[i]
      BY <1>2, <1>3, <1>4, <2>1
    <3> QED
      BY <1>1, <1>2, <1>6, <3>1
  <2>2. CASE ~(i <= Len(s))
    <3>1. i - Len(s) \in 1..Len(t) /\ o[i] = t[i - Len(s)]
      BY <1>2, <1>3, <1>4, <2>2
    <3> QED
      BY <1>2, <1>6, <3>1 DEF Without
  <2> QED
    BY <2>1, <2>2
<1>7. a + n <= Len(o)
  BY <1>1, <1>2, <1>3
<1> QED
  BY <1>3, <1>5, <1>6, <1>7 DEF Together, n, o

\* The order in which a prompt is cut has the records of each kind together.
LEMMA DropOrderFacts ==
  ASSUME NEW selected \in [EntryKinds -> Seq(Entries)]
  PROVE  /\ DropOrder(selected) \in Seq(Pieces)
         /\ \A kind \in EntryKinds : Together(DropOrder(selected), kind, selected[kind])
<1> DEFINE items == selected["items"]
           others == << <<"remarks">>, <<"interests">> >>
           o1 == Field("notes", items) \o Field("description", items)
           o2 == o1 \o others
           o3 == o2 \o Field("transport", selected["transport"])
           o4 == o3 \o Field("stays", selected["stays"])
           o5 == o4 \o Field("activities", selected["activities"])
           o6 == o5 \o Field("location", items)
           o7 == o6 \o Field("items", items)
<1>1. /\ selected["items"] \in Seq(Entries) /\ selected["stays"] \in Seq(Entries)
      /\ selected["activities"] \in Seq(Entries) /\ selected["transport"] \in Seq(Entries)
  BY DEF EntryKinds
<1>2. /\ "notes" \in Fields /\ "description" \in Fields /\ "transport" \in Fields /\ "stays" \in Fields
      /\ "activities" \in Fields /\ "location" \in Fields /\ "items" \in Fields
  BY DEF Fields
<1>3. others \in Seq(Pieces) /\ \A kind \in EntryKinds : Without(others, kind)
  <2>1. others \in Seq(Pieces) /\ DOMAIN others = 1..2
    BY DEF Pieces
  <2>2. \A i \in 1..2 : others[i][1] \in {"remarks", "interests"}
    OBVIOUS
  <2> QED
    BY <2>1, <2>2 DEF Without, EntryKinds
<1>4. /\ Field("notes", items) \in Seq(Pieces) /\ Field("description", items) \in Seq(Pieces)
      /\ Field("location", items) \in Seq(Pieces) /\ Field("items", items) \in Seq(Pieces)
      /\ Field("transport", selected["transport"]) \in Seq(Pieces)
      /\ Field("stays", selected["stays"]) \in Seq(Pieces)
      /\ Field("activities", selected["activities"]) \in Seq(Pieces)
  BY <1>1, <1>2, FieldFacts
<1>5. \A kind \in EntryKinds :
        /\ Without(Field("notes", items), kind) /\ Without(Field("description", items), kind)
        /\ Without(Field("location", items), kind)
        /\ kind /= "items" => Without(Field("items", items), kind)
        /\ kind /= "transport" => Without(Field("transport", selected["transport"]), kind)
        /\ kind /= "stays" => Without(Field("stays", selected["stays"]), kind)
        /\ kind /= "activities" => Without(Field("activities", selected["activities"]), kind)
  <2>1. \A kind \in EntryKinds : kind /= "notes" /\ kind /= "description" /\ kind /= "location"
    BY DEF EntryKinds
  <2> QED
    BY <1>1, <1>2, <2>1, FieldFacts
<1>6. DropOrder(selected) = o7
  BY DEF DropOrder
<1> HIDE DEF others, items
<1>7. o1 \in Seq(Pieces) /\ \A kind \in EntryKinds : Without(o1, kind)
  BY <1>4, <1>5, JoinWithout DEF EntryKinds
<1> HIDE DEF o1
<1>8. o2 \in Seq(Pieces) /\ \A kind \in EntryKinds : Without(o2, kind)
  BY <1>3, <1>7, JoinWithout DEF EntryKinds
<1> HIDE DEF o2
<1>9. /\ o3 \in Seq(Pieces) /\ Together(o3, "transport", selected["transport"])
      /\ \A kind \in EntryKinds \ {"transport"} : Without(o3, kind)
  <2>1. o3 \in Seq(Pieces) /\ Together(o3, "transport", selected["transport"])
    BY <1>1, <1>2, <1>8, JoinRecords DEF EntryKinds
  <2> QED
    BY <1>4, <1>5, <1>8, <2>1, JoinWithout
<1> HIDE DEF o3
<1>10. /\ o4 \in Seq(Pieces) /\ Together(o4, "transport", selected["transport"])
       /\ Together(o4, "stays", selected["stays"])
       /\ Without(o4, "activities") /\ Without(o4, "items")
  <2>1. Without(o3, "stays") /\ Without(o3, "activities") /\ Without(o3, "items")
    BY <1>9 DEF EntryKinds
  <2>2. LET f == Field("stays", selected["stays"]) IN
        Without(f, "transport") /\ Without(f, "activities") /\ Without(f, "items")
    BY <1>5 DEF EntryKinds
  <2>3. o4 \in Seq(Pieces) /\ Together(o4, "stays", selected["stays"])
    BY <1>1, <1>2, <1>9, <2>1, JoinRecords
  <2>4. Together(o4, "transport", selected["transport"])
    BY <1>1, <1>4, <1>9, <2>2, JoinMore
  <2>5. Without(o4, "activities") /\ Without(o4, "items")
    BY <1>4, <1>9, <2>1, <2>2, JoinWithout
  <2> QED
    BY <2>3, <2>4, <2>5
<1> HIDE DEF o4
<1>11. /\ o5 \in Seq(Pieces) /\ Together(o5, "transport", selected["transport"])
       /\ Together(o5, "stays", selected["stays"])
       /\ Together(o5, "activities", selected["activities"]) /\ Without(o5, "items")
  <2>1. LET f == Field("activities", selected["activities"]) IN
        Without(f, "transport") /\ Without(f, "stays") /\ Without(f, "items")
    BY <1>5 DEF EntryKinds
  <2>2. o5 \in Seq(Pieces) /\ Together(o5, "activities", selected["activities"])
    BY <1>1, <1>2, <1>10, JoinRecords
  <2>3. Together(o5, "transport", selected["transport"]) /\ Together(o5, "stays", selected["stays"])
    BY <1>1, <1>4, <1>10, <2>1, JoinMore
  <2>4. Without(o5, "items")
    BY <1>4, <1>10, <2>1, JoinWithout
  <2> QED
    BY <2>2, <2>3, <2>4
<1> HIDE DEF o5
<1>12. /\ o6 \in Seq(Pieces) /\ Together(o6, "transport", selected["transport"])
       /\ Together(o6, "stays", selected["stays"])
       /\ Together(o6, "activities", selected["activities"]) /\ Without(o6, "items")
  <2>1. LET f == Field("location", items) IN
        Without(f, "transport") /\ Without(f, "stays") /\ Without(f, "activities") /\ Without(f, "items")
    BY <1>5 DEF EntryKinds
  <2> QED
    BY <1>1, <1>4, <1>11, <2>1, JoinMore, JoinWithout
<1> HIDE DEF o6
<1>13. /\ o7 \in Seq(Pieces) /\ Together(o7, "transport", selected["transport"])
       /\ Together(o7, "stays", selected["stays"])
       /\ Together(o7, "activities", selected["activities"])
       /\ Together(o7, "items", selected["items"])
  <2>1. LET f == Field("items", items) IN
        Without(f, "transport") /\ Without(f, "stays") /\ Without(f, "activities")
    BY <1>5 DEF EntryKinds
  <2>2. Together(o7, "items", selected["items"])
    BY <1>1, <1>2, <1>12, JoinRecords DEF items
  <2> QED
    BY <1>1, <1>4, <1>12, <2>1, <2>2, JoinMore
<1> QED
  BY <1>6, <1>13 DEF EntryKinds

\* After n rounds c records of a kind have gone: what is left are the first ones, and
\* what went has been counted.
CutTo(order, kind, records, n, c) ==
  /\ Cardinality({i \in 1..n : order[i][1] = kind}) = c
  /\ \A e \in Entries : <<kind, e>> \in {order[i] : i \in n + 1..Len(order)}
                          <=> \E j \in 1..Len(records) - c : records[j] = e

\* However many rounds, a kind is cut to its first records.
LEMMA CutFacts ==
  ASSUME NEW order \in Seq(Pieces), NEW kind, NEW records \in Seq(Entries),
         Together(order, kind, records), NEW n \in 0..Len(order)
  PROVE  \E c \in 0..Len(records) : CutTo(order, kind, records, n, c)
<1> DEFINE m == Len(records)
<1>1. PICK a \in Nat : /\ a + m <= Len(order)
                       /\ \A i \in 1..m : order[a + i] = <<kind, records[m + 1 - i]>>
                       /\ \A i \in DOMAIN order : order[i][1] = kind => i \in a + 1..a + m
  BY DEF Together
<1>2. m \in Nat /\ Len(order) \in Nat /\ DOMAIN order = 1..Len(order)
  BY LenProperties
<1> HIDE DEF m
<1> DEFINE c == IF n <= a THEN 0 ELSE IF a + m <= n THEN m ELSE n - a
<1>3. /\ c \in 0..m /\ (n <= a => c = 0) /\ (~(n <= a) /\ a + m <= n => c = m)
      /\ (~(n <= a) /\ ~(a + m <= n) => c = n - a)
  BY <1>1, <1>2
<1> HIDE DEF c
<1>4. \A i \in 1..n : order[i][1] = kind <=> i \in a + 1..a + c
  <2>1. ASSUME NEW i \in 1..n, order[i][1] = kind PROVE i \in a + 1..a + c
    <3>1. i \in DOMAIN order
      BY <1>2
    <3>2. i \in a + 1..a + m
      BY <1>1, <2>1, <3>1
    <3> QED
      BY <1>2, <1>3, <3>2
  <2>2. ASSUME NEW i \in 1..n, i \in a + 1..a + c PROVE order[i][1] = kind
    <3>1. i - a \in 1..m /\ a + (i - a) = i
      BY <1>2, <1>3, <2>2
    <3>2. order[i] = <<kind, records[m + 1 - (i - a)]>>
      BY <1>1, <3>1
    <3> QED
      BY <3>2
  <2> QED
    BY <2>1, <2>2
<1>5. Cardinality({i \in 1..n : order[i][1] = kind}) = c
  <2>1. {i \in 1..n : order[i][1] = kind} = a + 1..a + c
    <3>1. \A i \in a + 1..a + c : i \in 1..n
      BY <1>1, <1>2, <1>3
    <3> QED
      BY <1>4, <3>1
  <2>2. Cardinality(a + 1..a + c) = IF a + 1 > a + c THEN 0 ELSE (a + c) - (a + 1) + 1
    BY <1>3, FS_Interval
  <2>3. Cardinality(a + 1..a + c) = c
    BY <1>3, <2>2
  <2> QED
    BY <2>1, <2>3
<1>6. ASSUME NEW e \in Entries, NEW i \in n + 1..Len(order), order[i] = <<kind, e>>
      PROVE  \E j \in 1..m - c : records[j] = e
  <2>1. i \in DOMAIN order /\ order[i][1] = kind
    BY <1>2, <1>6
  <2>2. i \in a + 1..a + m
    BY <1>1, <2>1
  <2>3. i - a \in 1..m /\ a + (i - a) = i
    BY <1>2, <2>2
  <2>4. order[i] = <<kind, records[m + 1 - (i - a)]>>
    BY <1>1, <2>3
  <2>5. m + 1 - (i - a) \in 1..m - c
    BY <1>2, <1>3, <2>2
  <2> QED
    BY <1>6, <2>4, <2>5
<1>7. ASSUME NEW e \in Entries, NEW j \in 1..m - c, records[j] = e
      PROVE  \E i \in n + 1..Len(order) : order[i] = <<kind, e>>
  <2> DEFINE i == a + (m + 1 - j)
  <2>1. m + 1 - j \in 1..m /\ m + 1 - (m + 1 - j) = j
    BY <1>2, <1>3
  <2>2. order[i] = <<kind, e>>
    BY <1>1, <1>7, <2>1
  <2>3. i \in n + 1..Len(order)
    BY <1>1, <1>2, <1>3
  <2> QED
    BY <2>2, <2>3
<1>8. ASSUME NEW e \in Entries
      PROVE  <<kind, e>> \in {order[i] : i \in n + 1..Len(order)} <=> \E j \in 1..m - c : records[j] = e
  BY <1>6, <1>7
<1> QED
  BY <1>3, <1>5, <1>8 DEF m, CutTo

\* What is selected of each kind.
LEMMA SelectedFacts ==
  ASSUME NEW set \in SUBSET Entries
  PROVE  /\ Selected(set) \in [EntryKinds -> Seq(Entries)]
         /\ \A kind \in EntryKinds : Selected(set)[kind] = MostRelevant(set, kind)
<1>1. \A kind \in EntryKinds : MostRelevant(set, kind) \in Seq(Entries)
  <2>1. ASSUME NEW kind \in EntryKinds PROVE MostRelevant(set, kind) \in Seq(Entries)
    <3>1. MostRelevant(set, kind) \in Seq(OfKind(set, kind)) /\ OfKind(set, kind) \subseteq Entries
      BY MostRelevantFacts DEF OfKind
    <3> QED
      BY <3>1
  <2> QED
    BY <2>1
<1> QED
  BY <1>1 DEF Selected, EntryKinds

\* A prompt cut in any number of rounds.
LEMMA CutTells ==
  ASSUME NEW seen \in SUBSET Entries, NEW n \in 0..Len(DropOrder(Selected(seen))),
         NEW prompt, prompt = Trimmed(Selected(seen), Totals(seen), n), NEW kind \in EntryKinds
  PROVE  LET shown == {e \in OfKind(seen, kind) : <<kind, e>> \in prompt.parts} IN
         /\ Cardinality(shown) + prompt.omitted[kind] = Cardinality(OfKind(seen, kind))
         /\ \A e \in shown, d \in OfKind(seen, kind) \ shown : MoreRelevant(e, d)
<1> DEFINE order == DropOrder(Selected(seen))
           held == OfKind(seen, kind)
           r == MostRelevant(seen, kind)
           shown == {e \in held : <<kind, e>> \in prompt.parts}
           total == Cardinality(held)
<1>1. /\ total \in Nat /\ r \in Seq(held) /\ Len(r) \in 0..total
      /\ \A i, j \in 1..Len(r) : r[i] = r[j] => i = j
      /\ \A i \in 1..Len(r), d \in held : (\A j \in 1..i : r[j] /= d) => MoreRelevant(r[i], d)
  BY MostRelevantFacts
<1>2. order \in Seq(Pieces) /\ Together(order, kind, r)
  BY SelectedFacts, DropOrderFacts
<1>3. held \subseteq Entries /\ r \in Seq(Entries)
  BY <1>1 DEF OfKind
<1>12. n \in 0..Len(order)
  OBVIOUS
<1> HIDE DEF order, r
<1>13. PICK c \in 0..Len(r) : CutTo(order, kind, r, n, c)
  BY <1>2, <1>3, <1>12, CutFacts
<1>4. /\ Cardinality({i \in 1..n : order[i][1] = kind}) = c
      /\ \A e \in Entries : <<kind, e>> \in {order[i] : i \in n + 1..Len(order)}
                              <=> \E j \in 1..Len(r) - c : r[j] = e
  BY <1>13 DEF CutTo
<1>5. /\ prompt.parts = {order[i] : i \in n + 1..Len(order)}
      /\ prompt.omitted[kind] = total - Len(r) + c
  BY <1>4, SelectedFacts DEF Trimmed, Totals, order, r
<1> HIDE DEF held, total
<1> DEFINE m == Len(r) - c
<1>6. m \in Nat /\ m <= Len(r) /\ Len(r) \in Nat
  BY <1>1
<1>7. \A e \in held : e \in shown <=> \E j \in 1..m : r[j] = e
  BY <1>3, <1>4, <1>5
<1>8. \A j \in 1..m : r[j] \in held /\ r[j] \in shown /\ j \in 1..Len(r)
  BY <1>1, <1>6, <1>7
<1>9. Cardinality(shown) = m
  <2> DEFINE f == [j \in 1..m |-> r[j]]
  <2>1. f \in Bijection(1..m, shown)
    <3>1. f \in [1..m -> shown]
      BY <1>8
    <3>2. \A i, j \in 1..m : f[i] = f[j] => i = j
      BY <1>1, <1>8
    <3>3. \A e \in shown : \E j \in 1..m : f[j] = e
      BY <1>7
    <3> QED
      BY <3>1, <3>2, <3>3 DEF Bijection, Injection, IsInjective, Surjection
  <2> QED
    BY <1>6, <2>1, FS_CountingElements DEF ExistsBijection
<1>10. Cardinality(shown) + prompt.omitted[kind] = total
  BY <1>1, <1>5, <1>6, <1>9
<1>11. ASSUME NEW e \in shown, NEW d \in held \ shown PROVE MoreRelevant(e, d)
  <2>1. PICK i \in 1..m : r[i] = e
    BY <1>7
  <2>2. \A j \in 1..i : j \in 1..m
    BY <1>6
  <2>3. \A j \in 1..i : r[j] /= d
    BY <1>7, <2>2
  <2> QED
    BY <1>1, <1>8, <2>1, <2>3
<1> QED
  BY <1>10, <1>11 DEF held, total

-----------------------------------------------------------------------------
(* Days, windows and blocks of time                                         *)

\* A moment lies within its day.
LEMMA DayFacts ==
  ASSUME NEW m \in Nat
  PROVE  DayOf(m) \in Nat /\ DayStart(m) <= m /\ m < DayEnd(m) /\ DayStart(m) \in Nat /\ DayEnd(m) \in Nat
<1>1. Hours \in Nat \ {0}
  BY SuggestionAssumption
<1>2. m \div Hours \in Nat /\ m = Hours * (m \div Hours) + (m % Hours) /\ m % Hours \in 0..Hours - 1
  BY <1>1
<1>3. DayStart(m) = Hours * (m \div Hours)
  BY <1>1, <1>2 DEF DayStart, DayOf
<1> QED
  BY <1>1, <1>2, <1>3 DEF DayEnd, DayOf

\* Of two days the earlier one ends before the later one starts.
LEMMA DaysFollow ==
  ASSUME NEW a \in Nat, NEW b \in Nat, a < b
  PROVE  a * Hours + Hours <= b * Hours
<1>1. Hours \in Nat \ {0}
  BY SuggestionAssumption
<1>2. b = a + 1 + (b - a - 1) /\ b - a - 1 \in Nat
  OBVIOUS
<1>3. PICK d \in Nat : b = a + 1 + d
  BY <1>2
<1>4. (a + 1 + d) * Hours = a * Hours + Hours + d * Hours /\ d * Hours \in Nat /\ a * Hours \in Nat
  BY <1>1
<1> QED
  BY <1>1, <1>3, <1>4

\* Every moment that a journey takes lies in one of its windows.
LEMMA WindowsCover ==
  ASSUME NEW departs \in Nat, NEW arrives \in Nat, NEW m \in Nat,
         IF DayOf(departs) = DayOf(arrives) /\ departs < arrives
         THEN departs <= m /\ m < arrives
         ELSE \/ DayOf(m) = DayOf(departs) /\ m >= departs
              \/ DayOf(m) = DayOf(arrives) /\ m < arrives
              \/ DayOf(departs) < DayOf(m) /\ DayOf(m) < DayOf(arrives)
  PROVE  \E w \in Windows(departs, arrives) :
           w[1] \in Nat /\ w[2] \in Nat /\ w[1] <= m /\ m < w[2]
<1> DEFINE d == DayOf(departs)
           a == DayOf(arrives)
           k == DayOf(m)
           all == CASE d = a /\ departs < arrives -> {<<departs, arrives>>}
                    [] d < a -> {<<departs, DayEnd(departs)>>,
                                 <<DayEnd(departs), DayStart(arrives)>>,
                                 <<DayStart(arrives), arrives>>}
                    [] OTHER -> {<<DayStart(arrives), arrives>>, <<departs, DayEnd(departs)>>}
<1>1. /\ d \in Nat /\ a \in Nat /\ k \in Nat
      /\ DayStart(departs) \in Nat /\ DayEnd(departs) \in Nat /\ DayStart(arrives) \in Nat
      /\ DayStart(m) <= m /\ m < DayEnd(m) /\ DayStart(m) \in Nat /\ DayEnd(m) \in Nat
  BY DayFacts
<1>2. /\ d = k => DayStart(m) = DayStart(departs) /\ DayEnd(m) = DayEnd(departs)
      /\ a = k => DayStart(m) = DayStart(arrives)
  BY DEF DayStart, DayEnd
<1>3. ASSUME NEW from \in Nat, NEW to \in Nat, <<from, to>> \in all, from <= m, m < to
      PROVE  \E w \in Windows(departs, arrives) :
               w[1] \in Nat /\ w[2] \in Nat /\ w[1] <= m /\ m < w[2]
  <2>1. Windows(departs, arrives) = {w \in all : w[1] < w[2]}
    BY DEF Windows
  <2> HIDE DEF all
  <2>2. <<from, to>>[1] = from /\ <<from, to>>[2] = to /\ from < to
    BY <1>3
  <2>3. <<from, to>> \in Windows(departs, arrives)
    BY <1>3, <2>1, <2>2
  <2> QED
    BY <1>3, <2>2, <2>3
<1>4. CASE d = a /\ departs < arrives
  <2>1. ~(d < a)
    BY <1>1, <1>4
  <2>2. all = {<<departs, arrives>>}
    BY <1>4, <2>1
  <2> HIDE DEF all
  <2>3. departs <= m /\ m < arrives
    BY <1>4
  <2> QED
    BY <1>3, <2>2, <2>3
<1>5. CASE d < a
  <2>1. d /= a
    BY <1>1, <1>5
  <2>2. all = {<<departs, DayEnd(departs)>>, <<DayEnd(departs), DayStart(arrives)>>,
               <<DayStart(arrives), arrives>>}
    BY <1>5, <2>1
  <2> HIDE DEF all
  <2>3. CASE k = d /\ m >= departs
    <3>1. departs <= m /\ m < DayEnd(departs) /\ <<departs, DayEnd(departs)>> \in all
      BY <1>1, <1>2, <2>2, <2>3
    <3> QED
      BY <1>1, <1>3, <3>1
  <2>4. CASE k = a /\ m < arrives
    <3>1. DayStart(arrives) <= m /\ <<DayStart(arrives), arrives>> \in all
      BY <1>1, <1>2, <2>2, <2>4
    <3> QED
      BY <1>1, <1>3, <2>4, <3>1
  <2>5. CASE d < k /\ k < a
    <3>1. d * Hours + Hours <= k * Hours /\ k * Hours + Hours <= a * Hours
      BY <1>1, <2>5, DaysFollow
    <3>2. DayEnd(departs) <= DayStart(m) /\ DayEnd(m) <= DayStart(arrives)
      BY <3>1 DEF DayEnd, DayStart
    <3>3. DayEnd(departs) <= m /\ m < DayStart(arrives)
      BY <1>1, <3>2
    <3>4. <<DayEnd(departs), DayStart(arrives)>> \in all
      BY <2>2
    <3> QED
      BY <1>1, <1>3, <3>3, <3>4
  <2> QED
    BY <2>1, <2>3, <2>4, <2>5
<1>6. CASE ~(d = a /\ departs < arrives) /\ ~(d < a)
  <2>1. all = {<<DayStart(arrives), arrives>>, <<departs, DayEnd(departs)>>}
    BY <1>6
  <2> HIDE DEF all
  <2>2. (k = d /\ m >= departs) \/ (k = a /\ m < arrives)
    BY <1>1, <1>6
  <2>3. CASE k = d /\ m >= departs
    <3>1. departs <= m /\ m < DayEnd(departs) /\ <<departs, DayEnd(departs)>> \in all
      BY <1>1, <1>2, <2>1, <2>3
    <3> QED
      BY <1>1, <1>3, <3>1
  <2>4. CASE k = a /\ m < arrives
    <3>1. DayStart(arrives) <= m /\ <<DayStart(arrives), arrives>> \in all
      BY <1>1, <1>2, <2>1, <2>4
    <3> QED
      BY <1>1, <1>3, <2>4, <3>1
  <2> QED
    BY <2>2, <2>3, <2>4
<1> QED
  BY <1>4, <1>5, <1>6

\* The time of every selection whose details were found is blocked, as long as
\* no more of its kind are held than are looked up.
LEMMA BusyIsBlocked ==
  ASSUME NEW seen \in SUBSET Entries, NEW found, NEW e \in seen, e \in found,
         NEW kind \in {"activities", "transport"}, EntryOf[e].kind = kind,
         Cardinality(OfKind(seen, kind)) <= MaxContext[kind],
         NEW m \in Nat, Busy(EntryOf[e], m)
  PROVE  \E b \in Blocks(Selected(seen)["activities"], Selected(seen)["transport"], found) :
           b[1] \in Int /\ b[2] \in Int /\ b[1] <= m /\ m < b[2]
<1> DEFINE x == EntryOf[e]
           chosen == Selected(seen)[kind]
           blocks == Blocks(Selected(seen)["activities"], Selected(seen)["transport"], found)
<1>1. EntryFits(x) /\ x.kind = kind /\ kind \in EntryKinds
  BY SuggestionAssumption DEF EntryKinds
<1>2. e \in ToSet(chosen)
  <2>1. e \in OfKind(seen, kind)
    BY DEF OfKind
  <2>2. chosen = MostRelevant(seen, kind)
    BY <1>1, SelectedFacts
  <2> HIDE DEF chosen
  <2>5. Cardinality(OfKind(seen, kind)) <= MaxContext[kind]
    OBVIOUS
  <2>3. PICK i \in 1..Len(chosen) : chosen[i] = e
    BY <1>1, <2>1, <2>2, <2>5, MostRelevantFacts
  <2>4. i \in DOMAIN chosen
    BY <1>1, <2>2, <2>3, MostRelevantFacts, LenProperties
  <2> QED
    BY <2>3, <2>4 DEF ToSet
<1>3. CASE kind = "activities"
  <2> DEFINE from == Moment(x.day, x.from)
  <2>1. x.day \in Nat /\ x.from \in Times /\ x.lasts \in Nat
    BY <1>1, <1>3 DEF EntryFits
  <2>2. x.from /= NoTime /\ m \in from..from + x.lasts - 1
    BY <1>1, <1>3 DEF Busy
  <2>3. from \in Int
    <3>1. Hours \in Nat /\ x.from \in Int
      BY <2>1, SuggestionAssumption DEF Times, NoTime
    <3> QED
      BY <2>1, <3>1 DEF Moment
  <2>4. <<from, from + x.lasts>> \in blocks
    BY <1>2, <1>3, <2>2 DEF Blocks
  <2> HIDE DEF from, blocks
  <2>5. from <= m /\ m < from + x.lasts /\ from + x.lasts \in Int
    BY <2>1, <2>2, <2>3
  <2> QED
    BY <2>3, <2>4, <2>5 DEF blocks
<1>4. CASE kind = "transport"
  <2>1. x.departs \in Nat /\ x.arrives \in Nat
    BY <1>1, <1>4 DEF EntryFits
  <2>2. /\ x.status /= "cancelled"
        /\ IF DayOf(x.departs) = DayOf(x.arrives) /\ x.departs < x.arrives
           THEN x.departs <= m /\ m < x.arrives
           ELSE \/ DayOf(m) = DayOf(x.departs) /\ m >= x.departs
                \/ DayOf(m) = DayOf(x.arrives) /\ m < x.arrives
                \/ DayOf(x.departs) < DayOf(m) /\ DayOf(m) < DayOf(x.arrives)
    BY <1>1, <1>4 DEF Busy
  <2>3. \E w \in Windows(x.departs, x.arrives) :
           w[1] \in Nat /\ w[2] \in Nat /\ w[1] <= m /\ m < w[2]
    BY <2>1, <2>2, WindowsCover
  <2>4. Windows(x.departs, x.arrives) \subseteq blocks
    BY <1>2, <1>4, <2>2 DEF Blocks
  <2> HIDE DEF blocks
  <2> QED
    BY <2>3, <2>4 DEF blocks
<1> QED
  BY <1>3, <1>4

\* The moments of a timed draft or item lie within its day.
LEMMA MomentsLieWithin ==
  ASSUME NEW d, d.day \in Nat, d.from \in Times, d.to \in Times, NEW m \in DraftMoments(d)
  PROVE  /\ Timed(d) /\ m \in Nat /\ d.day * Hours \in Nat
         /\ d.day * Hours <= m /\ m < d.day * Hours + Hours
         /\ Moment(d.day, d.from) \in Int /\ Moment(d.day, d.to) \in Int
         /\ Moment(d.day, d.from) <= m /\ m < Moment(d.day, d.to)
<1>1. Hours \in Nat \ {0}
  BY SuggestionAssumption
<1>2. Timed(d) /\ m \in Moment(d.day, d.from)..Moment(d.day, d.to) - 1
  BY DEF DraftMoments
<1>3. d.from \in 0..Hours - 1 /\ d.to \in 0..Hours - 1
  BY <1>2 DEF Timed, Times
<1>4. d.day * Hours \in Nat
  BY <1>1
<1> QED
  BY <1>1, <1>2, <1>3, <1>4 DEF Moment

\* Two of them that take no time of each other.
LEMMA ApartShareNothing ==
  ASSUME NEW d, d.day \in Nat, d.from \in Times, d.to \in Times,
         NEW x, x.day \in Nat, x.from \in Times, x.to \in Times,
         ~Clashes(d, x)
  PROVE  DraftMoments(d) \cap DraftMoments(x) = {}
<1> SUFFICES ASSUME NEW m \in DraftMoments(d), m \in DraftMoments(x) PROVE FALSE
  OBVIOUS
<1>1. /\ Timed(d) /\ m \in Nat /\ d.day * Hours \in Nat
      /\ d.day * Hours <= m /\ m < d.day * Hours + Hours
      /\ Moment(d.day, d.from) <= m /\ m < Moment(d.day, d.to)
      /\ Moment(d.day, d.from) \in Int /\ Moment(d.day, d.to) \in Int
  BY MomentsLieWithin
<1>2. /\ Timed(x) /\ x.day * Hours \in Nat
      /\ x.day * Hours <= m /\ m < x.day * Hours + Hours
      /\ Moment(x.day, x.from) <= m /\ m < Moment(x.day, x.to)
      /\ Moment(x.day, x.from) \in Int /\ Moment(x.day, x.to) \in Int
  BY MomentsLieWithin
<1>3. CASE d.day = x.day
  <2>1. ~Overlap(DraftSpan(d), DraftSpan(x))
    BY <1>1, <1>2, <1>3 DEF Clashes
  <2> QED
    BY <1>1, <1>2, <2>1 DEF Overlap, DraftSpan
<1>4. CASE d.day < x.day
  <2>1. d.day * Hours + Hours <= x.day * Hours
    BY <1>4, DaysFollow
  <2> QED
    BY <1>1, <1>2, <2>1, SuggestionAssumption
<1>5. CASE x.day < d.day
  <2>1. x.day * Hours + Hours <= d.day * Hours
    BY <1>5, DaysFollow
  <2> QED
    BY <1>1, <1>2, <2>1, SuggestionAssumption
<1> QED
  BY <1>3, <1>4, <1>5

-----------------------------------------------------------------------------
(* What holds in every reachable state                                      *)

Stages == EntryKinds \cup {"idle", "details", "ask", "asked", "answered", "refused", "exhausted", "failed"}
Lookups == [items |-> {}, stays |-> {"items"}, activities |-> {"items", "stays"},
            transport |-> {"items", "stays", "activities"}]
\* The kinds that have been read at a stage.
ReadBy(at) == IF at \in EntryKinds THEN Lookups[at]
              ELSE IF at \in {"details", "ask", "asked", "answered"} THEN EntryKinds ELSE {}
DayItems(seen) == {EntryOf[e] : e \in {x \in OfKind(seen, "items") : EntryOf[x].day = RequestedDay}}
Answers == {<<>>} \cup [1..1 -> Drafts] \cup [1..2 -> Drafts]

\* A prompt was cut in some number of rounds until it fitted.
PromptMade(r) ==
  /\ \E n \in 0..Len(DropOrder(Selected(r.seen))) :
       r.prompt = Trimmed(Selected(r.seen), Totals(r.seen), n)
  /\ Size(r.prompt, r) <= PromptLimit

\* A record of the request's fields.
IsRequest(r) ==
  r = [f \in {"at", "goal", "seen", "found", "blocks", "ask", "prompt", "drafts"} |-> r[f]]
RequestInv(r) ==
  /\ IsRequest(r) /\ r.at \in Stages /\ r.seen \subseteq Entries
  /\ r.at \in {"ask", "asked", "answered"} =>
       r.blocks = Blocks(Selected(r.seen)["activities"], Selected(r.seen)["transport"], r.found)
  /\ r.at \in {"asked", "answered"} => PromptMade(r)
  /\ r.at = "answered" => r.drafts \in Answers /\ Acceptable(r.drafts, DayItems(r.seen), r.blocks)

SuggestInv ==
  /\ trip \subseteq Entries /\ kept \subseteq trip /\ RequestInv(request)
  /\ \A k \in ReadBy(request.at) : OfKind(kept, k) \subseteq request.seen

\* The invariant holds before the request is made.
LEMMA SuggestInit ==
  ASSUME SuggestionInit
  PROVE  SuggestInv
<1>1. request = NoRequest /\ trip \subseteq Entries /\ kept = trip
  BY SuggestionAssumption DEF SuggestionInit
<1>2. request.at = "idle" /\ request.seen = {}
  BY <1>1 DEF NoRequest
<1>3. RequestInv(request)
  <2>1. IsRequest(request)
    <3> DEFINE prompt == NoPrompt
    <3>1. request = [at |-> "idle", goal |-> 0, seen |-> {}, found |-> {}, blocks |-> {}, ask |-> 1,
                     prompt |-> prompt, drafts |-> <<>>]
      BY <1>1 DEF NoRequest
    <3> HIDE DEF prompt
    <3> QED
      BY <3>1 DEF IsRequest
  <2> QED
    BY <1>2, <2>1 DEF RequestInv, Stages
<1>4. ReadBy(request.at) = {}
  BY <1>2 DEF ReadBy, EntryKinds
<1> QED
  BY <1>1, <1>3, <1>4 DEF SuggestInv

\* A step of the request alone that reads nothing.
LEMMA RequestSteps ==
  ASSUME SuggestInv, NEW r, Proceeds(r), RequestInv(r), r.seen = request.seen,
         ReadBy(r.at) \subseteq ReadBy(request.at)
  PROVE  SuggestInv'
BY DEF SuggestInv, Proceeds

\* Each action keeps it: the request is made,
LEMMA RequestsKeep ==
  ASSUME SuggestInv, NEW goal, Requests(goal)
  PROVE  SuggestInv'
<1>1. /\ request.at = "idle" /\ request' = [request EXCEPT !.at = "items", !.goal = goal]
      /\ kept' = trip /\ trip' = trip
  BY DEF Requests
<1>2. RequestInv(request) /\ IsRequest(request)
  BY DEF SuggestInv, RequestInv
<1>3. IsRequest(request') /\ request'.at = "items" /\ request'.seen = request.seen
  BY <1>1, <1>2 DEF IsRequest
<1>4. RequestInv(request')
  BY <1>2, <1>3 DEF RequestInv, Stages, EntryKinds
<1>5. ReadBy(request'.at) = {}
  BY <1>3 DEF ReadBy, Lookups, EntryKinds
<1> QED
  BY <1>1, <1>4, <1>5 DEF SuggestInv

\* one kind is read: whatever has been there all the while is seen,
LEMMA ReadsKeep ==
  ASSUME SuggestInv, NEW kind \in EntryKinds, ReadsHeld(kind)
  PROVE  SuggestInv'
<1> DEFINE r == [request EXCEPT !.at = NextRead[kind], !.seen = @ \cup OfKind(trip, kind)]
<1>1. request.at = kind /\ request' = r /\ trip' = trip /\ kept' = kept
  BY DEF ReadsHeld, Proceeds
<1>2. RequestInv(request) /\ IsRequest(request) /\ kept \subseteq trip /\ trip \subseteq Entries
  BY DEF SuggestInv, RequestInv
<1>3. /\ IsRequest(r)
      /\ r.at = NextRead[kind] /\ r.seen = request.seen \cup OfKind(trip, kind)
  BY <1>2 DEF IsRequest
<1> HIDE DEF r
<1>4. r.at \in {"stays", "activities", "transport", "details"}
  BY <1>3 DEF NextRead, EntryKinds
<1>5. RequestInv(r)
  <2>1. r.seen \subseteq Entries
    BY <1>2, <1>3 DEF OfKind, RequestInv
  <2> QED
    BY <1>3, <1>4, <2>1 DEF RequestInv, Stages, EntryKinds
<1>6. ReadBy(r.at) \subseteq ReadBy(request.at) \cup {kind}
  <2>1. CASE kind = "items"
    BY <1>1, <1>3, <2>1 DEF ReadBy, Lookups, EntryKinds, NextRead
  <2>2. CASE kind = "stays"
    BY <1>1, <1>3, <2>2 DEF ReadBy, Lookups, EntryKinds, NextRead
  <2>3. CASE kind = "activities"
    BY <1>1, <1>3, <2>3 DEF ReadBy, Lookups, EntryKinds, NextRead
  <2>4. CASE kind = "transport"
    BY <1>1, <1>3, <2>4 DEF ReadBy, Lookups, EntryKinds, NextRead
  <2> QED
    BY <2>1, <2>2, <2>3, <2>4 DEF EntryKinds
<1>7. ASSUME NEW k \in ReadBy(r.at) PROVE OfKind(kept, k) \subseteq r.seen
  <2>1. CASE k = kind
    BY <1>2, <1>3, <2>1 DEF OfKind
  <2>2. CASE k \in ReadBy(request.at)
    BY <1>3, <2>2 DEF SuggestInv
  <2> QED
    BY <1>6, <2>1, <2>2
<1> QED
  BY <1>1, <1>2, <1>5, <1>7 DEF SuggestInv

\* the details are looked up: the blocks are of what was found,
LEMMA EnrichesKeeps ==
  ASSUME SuggestInv, Enriches
  PROVE  SuggestInv'
<1> DEFINE selected == Selected(request.seen)
<1>1. RequestInv(request) /\ IsRequest(request) /\ request.at = "details"
  BY DEF SuggestInv, RequestInv, Enriches
<1>2. PICK found : Proceeds([request EXCEPT !.at = "ask", !.found = found,
                               !.blocks = Blocks(selected["activities"], selected["transport"], found)])
  BY DEF Enriches
<1> DEFINE blocks == Blocks(selected["activities"], selected["transport"], found)
           r == [request EXCEPT !.at = "ask", !.found = found, !.blocks = blocks]
<1> HIDE DEF selected
<1>3. /\ IsRequest(r)
      /\ r.at = "ask" /\ r.seen = request.seen /\ r.found = found
      /\ r.blocks = Blocks(selected["activities"], selected["transport"], found)
  <2> HIDE DEF blocks
  <2>1. /\ IsRequest(r)
        /\ r.at = "ask" /\ r.seen = request.seen /\ r.found = found /\ r.blocks = blocks
    BY <1>1 DEF IsRequest
  <2> QED
    BY <2>1 DEF blocks
<1>4. Proceeds(r)
  BY <1>2
<1> HIDE DEF r
<1>5. RequestInv(r)
  BY <1>1, <1>3 DEF RequestInv, Stages, EntryKinds, selected
<1>6. ReadBy(r.at) \subseteq ReadBy(request.at)
  BY <1>1, <1>3 DEF ReadBy, EntryKinds
<1> QED
  BY <1>3, <1>4, <1>5, <1>6, RequestSteps

\* the prompt is built: the first that fits is cut in some number of rounds,
LEMMA PromptsKeeps ==
  ASSUME SuggestInv, Prompts
  PROVE  SuggestInv'
<1> DEFINE order == DropOrder(Selected(request.seen))
           total == Totals(request.seen)
           cut(n) == Trimmed(Selected(request.seen), total, n)
           r == [request EXCEPT !.at = "asked", !.prompt = Budgeted]
<1>1. /\ RequestInv(request) /\ IsRequest(request) /\ request.at = "ask" /\ Fitting /= {}
      /\ Proceeds(r)
  BY DEF SuggestInv, RequestInv, Prompts
<1>2. Min(Fitting) \in Fitting
  <2>1. Fitting \in SUBSET Nat
    BY DEF Fitting
  <2>2. PICK x \in Fitting : \A y \in Fitting : x <= y
    BY <1>1, <2>1, Least
  <2> QED
    BY <2>2 DEF Min
<1>3. /\ Min(Fitting) \in 0..Len(order)
      /\ Size(cut(Min(Fitting)), request) <= PromptLimit
      /\ Budgeted = cut(Min(Fitting))
  <2> DEFINE fits(n) == Size(cut(n), request) <= PromptLimit
  <2>1. Fitting = {n \in 0..Len(order) : fits(n)}
    BY DEF Fitting
  <2> HIDE DEF fits, order
  <2>2. Min(Fitting) \in 0..Len(order) /\ fits(Min(Fitting))
    BY <1>2, <2>1
  <2> QED
    BY <2>2 DEF fits, order, Budgeted
<1>4. /\ IsRequest(r)
      /\ r.at = "asked" /\ r.seen = request.seen /\ r.found = request.found
      /\ r.blocks = request.blocks /\ r.prompt = Budgeted
      /\ r.goal = request.goal /\ r.ask = request.ask
  <2> DEFINE budgeted == Budgeted
  <2> HIDE DEF budgeted
  <2>1. r = [request EXCEPT !.at = "asked", !.prompt = budgeted]
    BY DEF budgeted
  <2> QED
    BY <1>1, <2>1 DEF IsRequest, budgeted
<1> HIDE DEF r
<1>5. PromptMade(r)
  BY <1>3, <1>4 DEF PromptMade, Size
<1>6. RequestInv(r)
  BY <1>1, <1>4, <1>5 DEF RequestInv, Stages
<1>7. ReadBy(r.at) \subseteq ReadBy(request.at)
  BY <1>1, <1>4 DEF ReadBy, EntryKinds
<1> QED
  BY <1>1, <1>4, <1>6, <1>7, RequestSteps

\* A request that ends with nothing, or asks for the answer again.
LEMMA TurnsBackKeep ==
  ASSUME SuggestInv, NEW at \in {"refused", "exhausted", "failed"},
         Proceeds([request EXCEPT !.at = at])
  PROVE  SuggestInv'
<1> DEFINE r == [request EXCEPT !.at = at]
<1>1. RequestInv(request) /\ IsRequest(request) /\ Proceeds(r)
  BY DEF SuggestInv, RequestInv
<1>2. /\ IsRequest(r)
      /\ r.at = at /\ r.seen = request.seen
  BY <1>1 DEF IsRequest
<1> HIDE DEF r
<1>3. RequestInv(r)
  BY <1>1, <1>2 DEF RequestInv, Stages
<1>4. ReadBy(r.at) = {}
  BY <1>2 DEF ReadBy, EntryKinds
<1> QED
  BY <1>1, <1>2, <1>3, <1>4, RequestSteps

\* A failed answer with another attempt left.
LEMMA AsksAgainKeeps ==
  ASSUME SuggestInv, request.at = "asked",
         Proceeds([request EXCEPT !.at = "ask", !.ask = @ + 1])
  PROVE  SuggestInv'
<1> DEFINE next == request.ask + 1
           r == [request EXCEPT !.at = "ask", !.ask = next]
<1>1. RequestInv(request) /\ IsRequest(request) /\ Proceeds(r)
  BY DEF SuggestInv, RequestInv
<1> HIDE DEF next
<1>2. /\ IsRequest(r)
      /\ r.at = "ask" /\ r.seen = request.seen /\ r.found = request.found /\ r.blocks = request.blocks
  BY <1>1 DEF IsRequest
<1> HIDE DEF r
<1>3. RequestInv(r)
  BY <1>1, <1>2 DEF RequestInv, Stages
<1>4. ReadBy(r.at) \subseteq ReadBy(request.at)
  BY <1>2 DEF ReadBy, EntryKinds
<1> QED
  BY <1>1, <1>2, <1>3, <1>4, RequestSteps

\* An answer is returned only when it is acceptable.
LEMMA ReturnedKeeps ==
  ASSUME SuggestInv, NEW drafts \in Answers, NEW tools \in BOOLEAN, Returned(drafts, tools)
  PROVE  SuggestInv'
<1> DEFINE items == DayItems(request.seen)
           r == [request EXCEPT !.at = "answered", !.drafts = drafts]
<1>1. RequestInv(request) /\ IsRequest(request) /\ request.at = "asked"
  BY DEF SuggestInv, RequestInv, Returned
<1>2. IF Acceptable(drafts, items, request.blocks)
      THEN Proceeds(r)
      ELSE IF tools \/ request.ask = MaxAsks
      THEN Proceeds([request EXCEPT !.at = "exhausted"])
      ELSE Proceeds([request EXCEPT !.at = "ask", !.ask = @ + 1])
  BY DEF Returned, DayItems
<1>3. CASE Acceptable(drafts, items, request.blocks)
  <2>1. Proceeds(r)
    BY <1>2, <1>3
  <2>2. /\ IsRequest(r)
        /\ r.at = "answered" /\ r.seen = request.seen /\ r.found = request.found
        /\ r.blocks = request.blocks /\ r.prompt = request.prompt
        /\ r.goal = request.goal /\ r.ask = request.ask /\ r.drafts = drafts
    BY <1>1 DEF IsRequest
  <2> HIDE DEF r
  <2>3. PromptMade(r)
    BY <1>1, <2>2 DEF RequestInv, PromptMade, Size
  <2>4. RequestInv(r)
    BY <1>1, <1>3, <2>2, <2>3 DEF RequestInv, Stages
  <2>5. ReadBy(r.at) \subseteq ReadBy(request.at)
    BY <1>1, <2>2 DEF ReadBy, EntryKinds
  <2> QED
    BY <2>1, <2>2, <2>4, <2>5, RequestSteps
<1>4. CASE ~Acceptable(drafts, items, request.blocks)
  BY <1>1, <1>2, <1>4, TurnsBackKeep, AsksAgainKeeps
<1> QED
  BY <1>3, <1>4

\* The trip changes: what is kept becomes less.
LEMMA TripChangesKeep ==
  ASSUME SuggestInv, NEW e \in Entries, TripChanges(e)
  PROVE  SuggestInv'
<1>1. /\ trip' = IF e \in trip THEN trip \ {e} ELSE trip \cup {e}
      /\ kept' = kept \cap trip' /\ request' = request
  BY DEF TripChanges
<1>2. trip' \subseteq Entries /\ kept' \subseteq trip' /\ kept' \subseteq kept
  BY <1>1 DEF SuggestInv
<1>3. \A k : OfKind(kept', k) \subseteq OfKind(kept, k)
  BY <1>2 DEF OfKind
<1> QED
  BY <1>1, <1>2, <1>3 DEF SuggestInv

\* Every step keeps the invariant.
LEMMA SuggestSteps ==
  ASSUME SuggestInv, [SuggestionNext]_SuggestionVars
  PROVE  SuggestInv'
<1>1. CASE UNCHANGED SuggestionVars
  BY <1>1 DEF SuggestInv, SuggestionVars
<1>2. CASE \E g \in Goals : Requests(g)
  BY <1>2, RequestsKeep
<1>3. CASE Enriches
  BY <1>3, EnrichesKeeps
<1>4. CASE Prompts
  BY <1>4, PromptsKeeps
<1>5. CASE TooLong
  BY <1>5, TurnsBackKeep DEF TooLong
<1>6. CASE Breaks
  BY <1>6, TurnsBackKeep DEF Breaks
<1>7. CASE \E k \in EntryKinds : ReadsHeld(k)
  BY <1>7, ReadsKeep
<1>8. CASE \E ds \in {<<>>} \cup [1..1 -> Drafts] \cup [1..2 -> Drafts], t \in BOOLEAN : Returned(ds, t)
  BY <1>8, ReturnedKeeps DEF Answers
<1>9. CASE \E t \in BOOLEAN : Unreadable(t)
  BY <1>9, TurnsBackKeep, AsksAgainKeeps DEF Unreadable
<1>10. CASE \E e \in Entries : TripChanges(e)
  BY <1>10, TripChangesKeep
<1> QED
  BY <1>1, <1>2, <1>3, <1>4, <1>5, <1>6, <1>7, <1>8, <1>9, <1>10 DEF SuggestionNext

-----------------------------------------------------------------------------
(* What the invariant says of an answer                                     *)

\* The drafts of an answer, one by one.
LEMMA DraftFacts ==
  ASSUME SuggestInv, Suggested, NEW i \in DOMAIN request.drafts
  PROVE  LET d == request.drafts[i] IN
         /\ d \in Drafts /\ d.day \in Nat /\ d.from \in Times /\ d.to \in Times
         /\ d.day = RequestedDay /\ (Timed(d) => d.from < d.to)
         /\ \A x \in DayItems(request.seen) : ~Clashes(d, x)
         /\ ~BlockedOut(d, request.blocks)
         /\ \A j \in 1..i - 1 : ~Duplicates(d, request.drafts[j]) /\ ~Clashes(d, request.drafts[j])
         /\ i \in Nat \ {0}
<1>1. /\ request.drafts \in Answers
      /\ Acceptable(request.drafts, DayItems(request.seen), request.blocks)
  BY DEF SuggestInv, RequestInv, Suggested
<1>2. request.drafts[i] \in Drafts /\ i \in Nat \ {0}
  BY <1>1 DEF Answers
<1> QED
  BY <1>1, <1>2, SuggestionAssumption DEF Acceptable

\* No two drafts of an answer are the same or at the same time.
LEMMA AnswersFit ==
  ASSUME SuggestInv
  PROVE  DraftsFitTogether
<1> SUFFICES ASSUME Suggested, NEW i \in DOMAIN request.drafts, NEW j \in DOMAIN request.drafts
             PROVE  LET d == request.drafts[i]  x == request.drafts[j] IN
                    /\ d.day = RequestedDay /\ (Timed(d) => DraftMoments(d) /= {})
                    /\ i /= j => d /= x /\ DraftMoments(d) \cap DraftMoments(x) = {}
  BY DEF DraftsFitTogether
<1>1. ASSUME NEW a \in DOMAIN request.drafts, NEW b \in DOMAIN request.drafts, b < a
      PROVE  /\ request.drafts[a] /= request.drafts[b]
             /\ DraftMoments(request.drafts[a]) \cap DraftMoments(request.drafts[b]) = {}
  <2> DEFINE d == request.drafts[a]
             x == request.drafts[b]
  <2>1. a \in Nat /\ b \in Nat \ {0}
    BY DraftFacts
  <2>2. b \in 1..a - 1
    BY <1>1, <2>1
  <2>3. /\ ~Duplicates(d, x) /\ ~Clashes(d, x)
        /\ d.day \in Nat /\ d.from \in Times /\ d.to \in Times
        /\ x.day \in Nat /\ x.from \in Times /\ x.to \in Times
    BY <2>2, DraftFacts
  <2> HIDE DEF d, x
  <2>4. d /= x
    BY <2>3 DEF Duplicates
  <2>5. DraftMoments(d) \cap DraftMoments(x) = {}
    BY <2>3, ApartShareNothing
  <2> QED
    BY <2>4, <2>5 DEF d, x
<1>2. i \in Nat /\ j \in Nat
  BY DraftFacts
<1>3. i /= j => /\ request.drafts[i] /= request.drafts[j]
                /\ DraftMoments(request.drafts[i]) \cap DraftMoments(request.drafts[j]) = {}
  <2>1. CASE i < j
    BY <1>1, <2>1
  <2>2. CASE j < i
    BY <1>1, <2>2
  <2> QED
    BY <1>2, <2>1, <2>2
<1>4. request.drafts[i].day = RequestedDay
  BY DraftFacts
<1>5. ASSUME Timed(request.drafts[i]) PROVE DraftMoments(request.drafts[i]) /= {}
  <2> DEFINE d == request.drafts[i]
  <2>1. d.day \in Nat /\ d.from \in Times /\ d.to \in Times /\ d.from < d.to
    BY <1>5, DraftFacts
  <2>2. Hours \in Nat /\ d.from \in Nat /\ d.to \in Nat
    BY <1>5, <2>1, SuggestionAssumption DEF Timed, Times
  <2> HIDE DEF d
  <2>3. d.day * Hours \in Nat
    BY <2>1, <2>2
  <2>4. Moment(d.day, d.from) \in Moment(d.day, d.from)..Moment(d.day, d.to) - 1
    BY <2>1, <2>2, <2>3 DEF Moment
  <2> QED
    BY <1>5, <2>4 DEF DraftMoments, d
<1> QED
  BY <1>3, <1>4, <1>5

\* A draft is at no time that an entry takes which was there all the while.
LEMMA AnswersLeaveFree ==
  ASSUME SuggestInv
  PROVE  NoClashUnlessUnseen
<1> SUFFICES ASSUME Suggested, NEW i \in DOMAIN request.drafts, NEW e \in kept \cap trip,
                    NEW m \in DraftMoments(request.drafts[i]), Busy(EntryOf[e], m)
             PROVE  /\ EntryOf[e].kind /= "items"
                    /\ \/ Cardinality(OfKind(request.seen, EntryOf[e].kind)) > MaxContext[EntryOf[e].kind]
                       \/ e \notin request.found
  BY DEF NoClashUnlessUnseen
<1> DEFINE d == request.drafts[i]
           x == EntryOf[e]
<1>1. /\ d.day \in Nat /\ d.from \in Times /\ d.to \in Times /\ d.day = RequestedDay
      /\ \A y \in DayItems(request.seen) : ~Clashes(d, y)
      /\ ~BlockedOut(d, request.blocks)
  BY DraftFacts
<1>2. e \in Entries /\ EntryFits(x) /\ x.kind \in EntryKinds
  BY SuggestionAssumption DEF SuggestInv, EntryFits
<1>3. e \in request.seen /\ request.seen \subseteq Entries
  <2>1. ReadBy(request.at) = EntryKinds
    BY DEF ReadBy, Suggested, EntryKinds
  <2> QED
    BY <1>2, <2>1 DEF SuggestInv, RequestInv, OfKind
<1>4. /\ Timed(d) /\ m \in Nat
      /\ Moment(d.day, d.from) \in Int /\ Moment(d.day, d.to) \in Int
      /\ Moment(d.day, d.from) <= m /\ m < Moment(d.day, d.to)
  BY <1>1, MomentsLieWithin
<1>5. x.kind /= "items"
  <2> SUFFICES ASSUME x.kind = "items" PROVE FALSE
    OBVIOUS
  <2>1. x.day \in Nat /\ x.from \in Times /\ x.to \in Times
    BY <1>2 DEF EntryFits
  <2>2. m \in DraftMoments(x)
    BY DEF Busy
  <2>3. ~Clashes(d, x)
    <3>1. CASE x.day = RequestedDay
      <4>1. x \in DayItems(request.seen)
        BY <1>3, <3>1 DEF DayItems, OfKind
      <4> QED
        BY <1>1, <4>1
    <3>2. CASE x.day /= RequestedDay
      BY <1>1, <3>2 DEF Clashes
    <3> QED
      BY <3>1, <3>2
  <2> HIDE DEF d, x
  <2>4. DraftMoments(d) \cap DraftMoments(x) = {}
    BY <1>1, <2>1, <2>3, ApartShareNothing
  <2> QED
    BY <2>2, <2>4 DEF d
<1>6. ASSUME ~(Cardinality(OfKind(request.seen, x.kind)) > MaxContext[x.kind]), e \in request.found
      PROVE  FALSE
  <2>1. x.kind \in {"activities", "transport"}
    BY <1>2, <1>5 DEF Busy, EntryKinds
  <2>2. Cardinality(OfKind(request.seen, x.kind)) <= MaxContext[x.kind]
    <3>1. Cardinality(OfKind(request.seen, x.kind)) \in Nat
      BY <1>2, <1>3, MostRelevantFacts
    <3>2. MaxContext[x.kind] \in Nat
      BY <1>2, SuggestionAssumption
    <3> QED
      BY <1>6, <3>1, <3>2
  <2>3. PICK b \in Blocks(Selected(request.seen)["activities"], Selected(request.seen)["transport"],
                          request.found) :
               b[1] \in Int /\ b[2] \in Int /\ b[1] <= m /\ m < b[2]
    BY <1>3, <1>4, <1>6, <2>1, <2>2, BusyIsBlocked
  <2>4. b \in request.blocks
    BY <2>3 DEF SuggestInv, RequestInv, Suggested
  <2>5. ~Overlap(DraftSpan(d), b)
    BY <1>1, <1>4, <2>4 DEF BlockedOut
  <2> QED
    BY <1>4, <2>3, <2>5 DEF Overlap, DraftSpan
<1> QED
  BY <1>5, <1>6

\* The prompt that was sent tells what it leaves out.
LEMMA AnswersTell ==
  ASSUME SuggestInv
  PROVE  PromptTellsAll
<1> SUFFICES ASSUME request.at \in {"asked", "answered"}, NEW k \in EntryKinds
             PROVE  /\ Size(request.prompt, request) <= PromptLimit
                    /\ LET shown == {e \in OfKind(request.seen, k) : <<k, e>> \in request.prompt.parts} IN
                       /\ Cardinality(shown) + request.prompt.omitted[k] = Cardinality(OfKind(request.seen, k))
                       /\ \A e \in shown, d \in OfKind(request.seen, k) \ shown : MoreRelevant(e, d)
  <2>1. "items" \in EntryKinds
    BY DEF EntryKinds
  <2> QED
    BY <2>1 DEF PromptTellsAll
<1>1. PromptMade(request) /\ request.seen \subseteq Entries
  BY DEF SuggestInv, RequestInv
<1>2. PICK n \in 0..Len(DropOrder(Selected(request.seen))) :
             request.prompt = Trimmed(Selected(request.seen), Totals(request.seen), n)
  BY <1>1 DEF PromptMade
<1>3. LET shown == {e \in OfKind(request.seen, k) : <<k, e>> \in request.prompt.parts} IN
      /\ Cardinality(shown) + request.prompt.omitted[k] = Cardinality(OfKind(request.seen, k))
      /\ \A e \in shown, d \in OfKind(request.seen, k) \ shown : MoreRelevant(e, d)
  BY <1>1, <1>2, CutTells
<1> QED
  BY <1>1, <1>3 DEF PromptMade

\* SuggestionsAreSound is invariant: for any entries, trips, limits, answers and changes
\* of the trip meanwhile, what AiSuggestionService.generate returns leaves free
\* whatever the trip held all the while and was looked up, fits together, and was asked
\* for with a prompt that tells what it does not show.
THEOREM SuggestionsStaySound ==
  SuggestionInit /\ [][SuggestionNext]_SuggestionVars => []SuggestionsAreSound
<1>1. SuggestionInit => SuggestInv
  BY SuggestInit
<1>2. SuggestInv /\ [SuggestionNext]_SuggestionVars => SuggestInv'
  BY SuggestSteps
<1>3. SuggestInv => SuggestionsAreSound
  BY AnswersFit, AnswersLeaveFree, AnswersTell DEF SuggestionsAreSound
<1> QED
  BY <1>1, <1>2, <1>3, PTL

================================================================================
