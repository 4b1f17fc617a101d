------------------------------ MODULE RagIndex ------------------------------
(***************************************************************************)
(* The RAG server's index: one SQLite file that the ingest command builds  *)
(* aside and moves into place, while the server answers questions from it. *)
(* The command is a process of its own and may be started twice; the       *)
(* source files, the manifest and the vectors that AI-Mode returns for a   *)
(* model change under both.  Neither side takes a lock.                    *)
(*                                                                         *)
(* A source is one section, so one chunk, and its content is its version.  *)
(* Texts, scores and features only select among the chunks of an index.    *)
(***************************************************************************)
EXTENDS Naturals, Sequences, FiniteSets

CONSTANTS Sources,
          Manifests,    \* sequences of sources
          Builders,     \* runs of the ingest command
          Questions,
          Models, Dims,
          ServerModel,  \* RAG_EMBEDDING_MODEL of the server
          MaxVersion,   \* how often a source file is written
          NoIndex, NoDim

Versions == 1..MaxVersion
Documents == [source : Sources, version : Versions]
Chunks == [source : Sources, version : Versions, model : Models, dim : Dims]
Index == [model : Models, dim : Dims, documents : SUBSET Documents, chunks : SUBSET Chunks,
          since : [Sources -> Versions]]

ASSUME RagAssumption == /\ MaxVersion \in Nat \ {0}
                        /\ Manifests \subseteq Seq(Sources) \ {<<>>}
                        /\ \A m \in Manifests : \A i, j \in DOMAIN m : m[i] = m[j] => i = j
                        /\ ServerModel \in Models
                        /\ NoIndex \notin Index /\ NoDim \notin Dims

VARIABLES files,      \* the version each source file has
          manifest,   \* the sources config/sources.json lists, in order
          serves,     \* the dimension of the vectors AI-Mode returns for a model
          index,      \* the file at index_path
          builds,     \* what each ingest command does next
          questions   \* what each query does next

environment == <<files, manifest, serves>>
vars == <<environment, index, builds, questions>>

Idle == [at |-> "idle"]
Build == {Idle} \cup [at : {"read", "embed"}, model : Models, left : Seq(Sources),
                      prior : SUBSET Chunks, dim : Dims \cup {NoDim},
                      documents : SUBSET Documents, chunks : SUBSET Chunks,
                      since : [Sources -> Versions]]
Question == {Idle} \cup [at : {"embed"}]
                   \cup [at : {"search", "select"}, dim : Dims]
                   \cup [at : {"generate", "answered"}, chunks : SUBSET Chunks]

Listed(m) == {m[i] : i \in DOMAIN m}
DocumentOf(chunk) == [source |-> chunk.source, version |-> chunk.version]
Ready == index /= NoIndex /\ index.model = ServerModel

Init == /\ files = [s \in Sources |-> 1]
        /\ manifest \in Manifests
        /\ serves \in [Models -> Dims]
        /\ index = NoIndex
        /\ builds = [b \in Builders |-> Idle]
        /\ questions = [q \in Questions |-> Idle]

-----------------------------------------------------------------------------
(* The environment                                                         *)

Edits(s) == /\ files[s] < MaxVersion
            /\ files' = [files EXCEPT ![s] = @ + 1]
            /\ UNCHANGED <<manifest, serves, index, builds, questions>>

Relists == /\ manifest' \in Manifests \ {manifest}
           /\ UNCHANGED <<files, serves, index, builds, questions>>

\* A model is pulled again under its name.
Repulls(m) == /\ \E d \in Dims \ {serves[m]} : serves' = [serves EXCEPT ![m] = d]
              /\ UNCHANGED <<files, manifest, index, builds, questions>>

-----------------------------------------------------------------------------
(* python -m rag_service ingest                                            *)

Turns(b, build) == /\ builds' = [builds EXCEPT ![b] = build]
                   /\ UNCHANGED <<environment, questions>>

\* Mutant: vectors of any model are reused.
Reusable_AnyModel(m) == index /= NoIndex

\* _load_reusable.
Reusable(m) == index /= NoIndex /\ index.model = m

\* The manifest and the reusable chunks are read first.
Starts(b, m) ==
  /\ builds[b] = Idle
  /\ Turns(b, [at |-> "read", model |-> m, left |-> manifest,
               prior |-> IF Reusable(m) THEN index.chunks ELSE {},
               dim |-> IF Reusable(m) THEN index.dim ELSE NoDim,
               documents |-> {}, chunks |-> {}, since |-> files])
  /\ UNCHANGED index

\* Mutant: a source that is indexed is not read again.
ReadsSource_Skips(b) ==
  LET build == builds[b]
      s == Head(build.left)
      kept == {c \in build.prior : c.source = s}
      document == IF kept = {} THEN [source |-> s, version |-> files[s]]
                               ELSE DocumentOf(CHOOSE c \in kept : TRUE)
  IN  /\ build.at = "read"
      /\ Turns(b, [build EXCEPT !.at = IF Len(build.left) = 1 THEN "embed" ELSE "read",
                                !.left = Tail(@),
                                !.documents = @ \cup {document},
                                !.chunks = @ \cup kept])
      /\ UNCHANGED index

\* _prepare_corpus, the next source: chunks of the same content are taken over.
ReadsSource(b) ==
  LET build == builds[b]
      s == Head(build.left)
      document == [source |-> s, version |-> files[s]]
  IN  /\ build.at = "read"
      /\ Turns(b, [build EXCEPT !.at = IF Len(build.left) = 1 THEN "embed" ELSE "read",
                                !.left = Tail(@),
                                !.documents = @ \cup {document},
                                !.chunks = @ \cup {c \in build.prior : DocumentOf(c) = document}])
      /\ UNCHANGED index

Pending(build) == build.documents \ {DocumentOf(c) : c \in build.chunks}

\* Mutant: the dimension of the answer is not compared.
SameDimension_Any(build) == TRUE

SameDimension(build) == build.dim \in {NoDim, serves[build.model]}

\* _embed_pending, one batch; an answer of another dimension ends the command.
Embeds(b, document) ==
  LET build == builds[b]
      chunk == [source |-> document.source, version |-> document.version,
                model |-> build.model, dim |-> serves[build.model]]
  IN  /\ build.at = "embed"
      /\ document \in Pending(build)
      /\ SameDimension(build)
      /\ Turns(b, [build EXCEPT !.chunks = @ \cup {chunk}, !.dim = serves[build.model]])
      /\ UNCHANGED index

\* Mutant: the rows are written into the index that is there.
Writes_InPlace(b) ==
  LET build == builds[b]
      old == IF index = NoIndex THEN {} ELSE {d \in index.documents :
               \A new \in build.documents : d.source /= new.source}
  IN  /\ build.at = "embed"
      /\ Pending(build) = {}
      /\ index' = [model |-> build.model, dim |-> build.dim, since |-> build.since,
                   documents |-> build.documents \cup old,
                   chunks |-> build.chunks \cup
                     (IF index = NoIndex THEN {} ELSE {c \in index.chunks : DocumentOf(c) \in old})]
      /\ Turns(b, Idle)

\* Mutant: the file is replaced before everything is embedded.
Writes_Early(b) ==
  LET build == builds[b]
  IN  /\ build.at = "embed"
      /\ index' = [model |-> build.model, dim |-> build.dim, since |-> build.since,
                   documents |-> build.documents, chunks |-> build.chunks]
      /\ Turns(b, Idle)

\* _write_atomic: the temporary file replaces the index.
Writes(b) ==
  LET build == builds[b]
  IN  /\ build.at = "embed"
      /\ Pending(build) = {}
      /\ index' = [model |-> build.model, dim |-> build.dim, since |-> build.since,
                   documents |-> build.documents, chunks |-> build.chunks]
      /\ Turns(b, Idle)

\* A source, AI-Mode or the command fails; only a temporary file is lost.
Aborts(b) == /\ builds[b] /= Idle
             /\ Turns(b, Idle)
             /\ UNCHANGED index

-----------------------------------------------------------------------------
(* POST /query                                                             *)

Becomes(q, question) == /\ questions' = [questions EXCEPT ![q] = question]
                        /\ UNCHANGED <<environment, index, builds>>

AsksQuestion(q) == questions[q] = Idle /\ Ready /\ Becomes(q, [at |-> "embed"])

EmbedsQuery(q) == /\ questions[q].at = "embed"
                  /\ Becomes(q, [at |-> "search", dim |-> serves[ServerModel]])

\* search: the status of the file that is there now, ...
Checks(q) == /\ questions[q].at = "search"
             /\ Ready /\ index.dim = questions[q].dim
             /\ Becomes(q, [at |-> "select", dim |-> questions[q].dim])

\* ... and its rows, over a connection of their own.  The scores of vectors of
\* another dimension do not exist.
Selects(q) == /\ questions[q].at = "select"
              /\ index.dim = questions[q].dim
              /\ \E chunks \in (SUBSET index.chunks) \ {{}} :
                   Becomes(q, [at |-> "generate", chunks |-> chunks])

\* Mutant: a citation is looked up when the answer arrives.
Cites_Current(q) == /\ questions[q].at = "generate"
                    /\ \E cited \in (SUBSET index.chunks) \ {{}} :
                         Becomes(q, [at |-> "answered", chunks |-> cited])

\* The model may cite only what it was given.
Cites(q) == /\ questions[q].at = "generate"
            /\ \E cited \in (SUBSET questions[q].chunks) \ {{}} :
                 Becomes(q, [at |-> "answered", chunks |-> cited])

\* The answer is sent, there is no answer, or a call fails or times out.
Ends(q) == questions[q] /= Idle /\ Becomes(q, Idle)

-----------------------------------------------------------------------------
BuilderStep(b) ==
  \/ \E m \in Models : Starts(b, m)
  \/ ReadsSource(b)
  \/ \E document \in Documents : Embeds(b, document)
  \/ Writes(b) \/ Aborts(b)

QuestionStep(q) ==
  \/ EmbedsQuery(q) \/ Checks(q)
  \/ Selects(q) \/ Cites(q)
  \/ Ends(q)

Next == \/ \E s \in Sources : Edits(s)
        \/ Relists \/ \E m \in Models : Repulls(m)
        \/ \E b \in Builders : BuilderStep(b)
        \/ \E q \in Questions : AsksQuestion(q) \/ QuestionStep(q)

Spec == Init /\ [][Next]_vars

-----------------------------------------------------------------------------
\* The file, the commands and the queries.
TypeOK == /\ files \in [Sources -> Versions]
          /\ manifest \in Manifests
          /\ serves \in [Models -> Dims]
          /\ index \in Index \cup {NoIndex}
          /\ builds \in [Builders -> Build]
          /\ questions \in [Questions -> Question]

\* "replaces the SQLite file atomically only after a successful build": whatever
\* builds overlap or fail, the file holds all sources of a manifest, each once, with
\* chunks of exactly the recorded content, and vectors of one model and dimension.
IndexIsWhole ==
  index /= NoIndex =>
    /\ \E m \in Manifests : {d.source : d \in index.documents} = Listed(m)
    /\ \A d1, d2 \in index.documents : d1.source = d2.source => d1 = d2
    /\ {DocumentOf(c) : c \in index.chunks} = index.documents
    /\ \A c \in index.chunks : c.model = index.model /\ c.dim = index.dim

\* "reuses compatible embeddings when source content is unchanged": what a build
\* took over from the old index is no older than the files when it began.
IndexIsFresh == index /= NoIndex =>
                  \A d \in index.documents : d.version >= index.since[d.source]

\* The file is whole and no older than the build that put it there.
IndexIsSound == TypeOK /\ IndexIsWhole /\ IndexIsFresh

\* A question is answered from one corpus, one that was published while it was
\* asked, and a corpus is only ever replaced as a whole.
Section(chunks) == {DocumentOf(c) : c \in chunks}
Published ==
  INSTANCE PublishedCorpus WITH
    Manifests <- {Listed(m) : m \in Manifests},
    corpus <- IF index = NoIndex THEN {} ELSE Section(index.chunks),
    used <- [q \in Questions |-> IF questions[q].at \in {"generate", "answered"}
                                 THEN Section(questions[q].chunks) ELSE {}]
ImplementsCorpus == Published!Spec
=============================================================================
