--------------------------- MODULE ActivityCatalogue ---------------------------
(***************************************************************************)
(* Student 4's activity catalogue: the database service's repository, its    *)
(* validators and CHECKs, the seeding of samples at each start and the       *)
(* migration of samples an older release stored under other ids.             *)
(*                                                                         *)
(* A session reads a row before its transaction takes SQLite's write lock,   *)
(* which it does at the first UPDATE and holds until it commits: a replace   *)
(* is two steps.  The ORM writes the columns whose value differs from what   *)
(* it read, deletes the child rows it read and inserts the new ones.         *)
(***************************************************************************)
EXTENDS Naturals, FiniteSets, Sequences

CONSTANTS Samples,       \* SAMPLE_ACTIVITY_IDS; the payload of each carries its name
          Historical,    \* the samples of the ten-row catalogue
          LegacyIds, FreshIds,  \* ids of an older release's rows, ids still to be made
          Payloads,      \* the bodies clients send
          SamplePayload, \* [Samples -> body]
          Editors,       \* requests at work at one time
          MaxEdits       \* bound on writes

VARIABLES acts,     \* table activities with its children
          aliases,  \* table activity_id_aliases
          edits,    \* what each request has read
          written,  \* number of writes so far, which names the child rows
          gone,     \* ids of activities whose deletion was answered
          mixed,    \* activities last replaced by a request that had read another state
          base      \* "up", "down", "seeding" (between the two commits), "broken"

CatalogueVars == <<acts, aliases, edits, written, gone, mixed, base>>
ActivityIds == Samples \cup LegacyIds \cup FreshIds
Slots == {"short", "long"}
SlotLength == [short |-> 1, long |-> 2]
Missing == [name |-> "missing"]
Quiet == [at |-> "idle", of |-> "none", saw |-> Missing]

\* ActivityWrite's validators, which ActivityRecord inherits: a record read back
\* from the tables is validated again.
ValidBody(name, lasts, least, most, active, slots, cats) ==
  /\ least <= most
  /\ active => slots /= {}
  /\ \A s \in slots : SlotLength[s] >= lasts
  /\ cats /= {}

Body(name, price, lasts, least, most, active, slots, cats) ==
  [name |-> name, price |-> price, lasts |-> lasts, least |-> least, most |-> most,
   active |-> active, slots |-> slots, cats |-> cats]
IsBody(b) ==
  /\ b = Body(b.name, b.price, b.lasts, b.least, b.most, b.active, b.slots, b.cats)
  /\ b.slots \subseteq Slots
  /\ ValidBody(b.name, b.lasts, b.least, b.most, b.active, b.slots, b.cats)

\* The validators see every body and every sample; the older catalogue's samples are
\* samples still.
ASSUME CatalogueAssumption ==
  /\ \A body \in Payloads : IsBody(body)
  /\ \A m \in Samples : IsBody(SamplePayload[m])
  /\ Historical \in SUBSET Samples

\* A row: its columns, who inserted each schedule (0: there is none), its links.
RowFrom(body, writer) ==
  [name |-> body.name, price |-> body.price, lasts |-> body.lasts, least |-> body.least, most |-> body.most,
   active |-> body.active, cats |-> body.cats,
   slots |-> [s \in Slots |-> IF s \in body.slots THEN writer ELSE 0]]
SlotsOf(row) == {s \in Slots : row.slots[s] /= 0}
BodyOf(row) == [name |-> row.name, price |-> row.price, lasts |-> row.lasts, least |-> row.least,
                most |-> row.most, active |-> row.active, cats |-> row.cats,
                slots |-> SlotsOf(row)]
Stored(id) == acts[id] /= Missing
\* to_record: a row that fails the validators cannot be answered with.
Readable(row) == ValidBody(row.name, row.lasts, row.least, row.most, row.active,
                       SlotsOf(row), row.cats)

\* _row: an alias is followed first.
Resolved(id) == IF aliases[id] = id THEN id ELSE aliases[id]

CatalogueInit ==
  /\ \E legacy \in SUBSET LegacyIds, copies \in [LegacyIds -> Samples] :
       acts = [id \in ActivityIds |->
                 IF id \in legacy THEN RowFrom(SamplePayload[copies[id]], 1) ELSE Missing]
  /\ aliases = [id \in ActivityIds |-> id]
  /\ edits = [e \in Editors |-> Quiet]
  /\ written = 1 /\ gone = {} /\ mixed = {} /\ base = "down"

-----------------------------------------------------------------------------
MayWrite == base = "up" /\ written <= MaxEdits

CreateActivity(id, body) ==
  /\ MayWrite /\ id \in FreshIds /\ ~Stored(id) /\ id \notin gone
  /\ acts' = [acts EXCEPT ![id] = RowFrom(body, written + 1)]
  /\ written' = written + 1
  /\ UNCHANGED <<aliases, edits, gone, mixed, base>>

\* replace and delete look the row up first.
LookUp(e, id) ==
  /\ MayWrite /\ edits[e].at = "idle" /\ Stored(Resolved(id))
  /\ edits' = [edits EXCEPT ![e] = [at |-> "read", of |-> Resolved(id),
                                    saw |-> acts[Resolved(id)]]]
  /\ UNCHANGED <<acts, aliases, written, gone, mixed, base>>

\* A column is written when the body differs from what was read.
Column(now, saw, wanted) == IF wanted /= saw THEN wanted ELSE now

\* Mutant: the schedules that were read are not cleared.
Merged_Piled(now, saw, body, writer) ==
  [RowFrom(body, writer) EXCEPT
     !.slots = [s \in Slots |-> IF s \in body.slots THEN writer ELSE now.slots[s]]]

\* What the row holds after the replace's UPDATE, DELETEs and INSERTs.
Merged(now, saw, body, writer) ==
  [name |-> Column(now.name, saw.name, body.name),
   price |-> Column(now.price, saw.price, body.price),
   lasts |-> Column(now.lasts, saw.lasts, body.lasts),
   least |-> Column(now.least, saw.least, body.least),
   most |-> Column(now.most, saw.most, body.most),
   active |-> Column(now.active, saw.active, body.active),
   cats |-> (now.cats \ saw.cats) \cup body.cats,
   slots |-> [s \in Slots |-> IF s \in body.slots THEN writer
                              ELSE IF now.slots[s] = saw.slots[s] THEN 0 ELSE now.slots[s]]]

\* The row is gone (StaleDataError or a foreign key), a link or schedule it would
\* insert is there (primary key, unique index), a CHECK spans two columns.
Refused(now, saw, body) ==
  \/ now = Missing
  \/ (now.cats \ saw.cats) \cap body.cats /= {}
  \/ \E s \in body.slots : now.slots[s] \notin {0, saw.slots[s]}
  \/ Column(now.least, saw.least, body.least) > Column(now.most, saw.most, body.most)

\* Mutant: a row that is gone is written anew.
Replace_Revives(e, body) ==
  LET id == edits[e].of IN
  /\ base = "up" /\ edits[e].at = "read" /\ written <= MaxEdits
  /\ edits' = [edits EXCEPT ![e] = Quiet]
  /\ acts' = [acts EXCEPT ![id] = RowFrom(body, written + 1)]
  /\ mixed' = mixed \cup {id}
  /\ written' = written + 1
  /\ UNCHANGED <<aliases, gone, base>>

\* The answer is the session's own copy of the row, not what the tables hold.
Replace(e, body) ==
  LET id == edits[e].of IN
  /\ base = "up" /\ edits[e].at = "read" /\ written <= MaxEdits
  /\ edits' = [edits EXCEPT ![e] = Quiet]
  /\ IF Refused(acts[id], edits[e].saw, body) THEN UNCHANGED <<acts, mixed>>
     ELSE /\ acts' = [acts EXCEPT ![id] = Merged(@, edits[e].saw, body, written + 1)]
          /\ mixed' = IF acts[id] = edits[e].saw THEN mixed \ {id} ELSE mixed \cup {id}
  /\ written' = written + 1
  /\ UNCHANGED <<aliases, gone, base>>

\* Children the request did not read go with the row (ON DELETE CASCADE).
Delete(e) ==
  LET id == edits[e].of IN
  /\ base = "up" /\ edits[e].at = "read" /\ written <= MaxEdits
  /\ edits' = [edits EXCEPT ![e] = Quiet]
  /\ acts' = [acts EXCEPT ![id] = Missing]
  /\ gone' = gone \cup {id}
  /\ written' = written + 1
  /\ UNCHANGED <<aliases, mixed, base>>

CrashBase ==
  /\ base \in {"up", "seeding"}
  /\ base' = "down"
  /\ edits' = [e \in Editors |-> Quiet]
  /\ UNCHANGED <<acts, aliases, written, gone, mixed>>

-----------------------------------------------------------------------------
\* Rows outside the sample ids that hold exactly a sample's payload.
Copies(m) == {id \in ActivityIds \ Samples : Stored(id) /\ BodyOf(acts[id]) = SamplePayload[m]}

\* Only a complete cohort is recognised, each sample once.
Cohort ==
  CASE \A m \in Samples : Cardinality(Copies(m)) = 1 -> Samples
    [] /\ \A m \in Historical : Cardinality(Copies(m)) = 1
       /\ \A m \in Samples \ Historical : Copies(m) = {} -> Historical
    [] OTHER -> {}
LegacyOf(m) == CHOOSE id \in Copies(m) : TRUE

\* Mutant: the old ids are forgotten.
AliasesAfter_Forgotten == aliases

AliasesAfter ==
  [id \in ActivityIds |->
     IF \E m \in Cohort : id \in Copies(m)
     THEN CHOOSE m \in Cohort : id \in Copies(m) ELSE aliases[id]]

\* _migrate_legacy_seed_activities reads every row as a record before it
\* compares: one that cannot be read ends the start.
Migrate ==
  /\ base = "down"
  /\ IF \E id \in ActivityIds \ Samples : Stored(id) /\ ~Readable(acts[id])
     THEN base' = "broken" /\ UNCHANGED <<acts, aliases>>
     ELSE /\ base' = "seeding"
          /\ acts' = [id \in ActivityIds |->
               CASE \E m \in Cohort : id \in Copies(m) -> Missing
                 [] id \in Cohort /\ ~Stored(id) -> RowFrom(SamplePayload[id], 1)
                 [] OTHER -> acts[id]]
          /\ aliases' = AliasesAfter
  /\ UNCHANGED <<edits, written, gone, mixed>>

\* Mutant: only an empty catalogue is seeded.
SeedSamples_EmptyOnly ==
  /\ base = "seeding"
  /\ base' = "up"
  /\ acts' = [id \in ActivityIds |->
                IF id \in Samples /\ \A other \in ActivityIds : ~Stored(other)
                THEN RowFrom(SamplePayload[id], 1) ELSE acts[id]]
  /\ UNCHANGED <<aliases, edits, written, gone, mixed>>

\* seed_activities: samples that are missing are inserted, whoever removed them.
SeedSamples ==
  /\ base = "seeding"
  /\ base' = "up"
  /\ acts' = [id \in ActivityIds |->
                IF id \in Samples /\ ~Stored(id) THEN RowFrom(SamplePayload[id], 1) ELSE acts[id]]
  /\ UNCHANGED <<aliases, edits, written, gone, mixed>>

CatalogueNext ==
  \/ \E id \in ActivityIds, body \in Payloads : CreateActivity(id, body)
  \/ \E e \in Editors : \/ \E id \in ActivityIds : LookUp(e, id)
                        \/ \E body \in Payloads : Replace(e, body)
                        \/ Delete(e)
  \/ CrashBase \/ Migrate \/ SeedSamples

-----------------------------------------------------------------------------
\* "schedule intervals are unique, same-day and at least the activity duration;
\* an active activity has at least one schedule ... There are no partial aggregate
\* writes" (docs/database-service-api.md:445).
StoredAggregatesAreSound == \A id \in ActivityIds : Stored(id) => Readable(acts[id])

\* Only replaces of one activity that overlap can combine into a row that no
\* client sent and the service cannot read back: every page that lists it, and
\* the service's next start, fail with it.
SoundUnlessMixed ==
  \A id \in ActivityIds : Stored(id) /\ id \notin mixed => Readable(acts[id])

\* An id a client may hold goes on answering, under its old name after the
\* migration, until the activity is deleted.
HandedOutIdsAnswer ==
  base = "up" => \A id \in LegacyIds \cup Samples :
    (aliases[id] /= id \/ id \in Samples) /\ Resolved(id) \notin gone => Stored(Resolved(id))

\* No row but one a client deleted or the migration moved is ever lost, and a
\* moved one answers with what it held unless the sample was there before.
RowsAreKept ==
  [][\A id \in ActivityIds : Stored(id) /\ acts'[id] = Missing =>
       \/ id \in gone'
       \/ /\ aliases'[id] \in Samples
          /\ acts'[aliases'[id]] /= Missing
          /\ ~Stored(aliases'[id]) => BodyOf(acts'[aliases'[id]]) = BodyOf(acts[id])]_acts

\* "Permanently deletes the activity": what is not a sample stays deleted, also
\* when a request that had read it before is still at work.
DeletedStaysGone == \A id \in gone \ Samples : ~Stored(id)

\* What clients have seen of the catalogue stays true over edits, restarts and the migration.
CatalogueIsSound == SoundUnlessMixed /\ HandedOutIdsAnswer /\ DeletedStaysGone
=============================================================================
