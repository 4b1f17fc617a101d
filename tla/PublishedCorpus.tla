--------------------------- MODULE PublishedCorpus ---------------------------
(***************************************************************************)
(* What a reader of the RAG server may rely on: the corpus is replaced as  *)
(* a whole, by one that holds every source of a manifest in a version its  *)
(* file had, and a question is answered from the sections of one corpus.   *)
(***************************************************************************)
EXTENDS Naturals

CONSTANTS Sources,
          Manifests,  \* the sets of sources a corpus may be made of
          Questions

VARIABLES files,   \* how often each source was written
          corpus,  \* the published sections
          used     \* the sections a question is answered from

corpusVars == <<files, corpus, used>>

Sections == [source : Sources, version : Nat]

Init == /\ files = [s \in Sources |-> 1]
        /\ corpus = {}
        /\ used = [q \in Questions |-> {}]

Edit(s) == /\ files' = [files EXCEPT ![s] = @ + 1]
           /\ UNCHANGED <<corpus, used>>

Publish(sections) ==
  /\ {section.source : section \in sections} \in Manifests
  /\ \A section \in sections : section.version \in 1..files[section.source]
  /\ \A one, other \in sections : one.source = other.source => one = other
  /\ corpus' = sections
  /\ UNCHANGED <<files, used>>

Retrieve(q) == /\ used[q] = {}
               /\ \E sections \in SUBSET corpus : used' = [used EXCEPT ![q] = sections]
               /\ UNCHANGED <<files, corpus>>

Cite(q) == /\ \E sections \in SUBSET used[q] : used' = [used EXCEPT ![q] = sections]
           /\ UNCHANGED <<files, corpus>>

Next == \/ \E s \in Sources : Edit(s)
        \/ corpus' \in SUBSET Sections /\ Publish(corpus')
        \/ \E q \in Questions : Retrieve(q) \/ Cite(q)

Spec == Init /\ [][Next]_corpusVars
=============================================================================
