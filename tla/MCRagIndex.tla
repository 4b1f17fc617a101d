------------------------------ MODULE MCRagIndex ------------------------------
(***************************************************************************)
(* The sources, builds and bounds for checking RagIndex with TLC.          *)
(***************************************************************************)
EXTENDS RagIndex, TLC

CONSTANTS s1, s2, b1, b2, m2

OneOrBoth == {<<s1, s2>>, <<s2>>}

\* Builds and queries meet in the index only: a query overlaps with one build at a
\* time here, and two builds overlap with each other while no query is on its way,
\* over one file that may be written.  One of the models may be pulled again.
Overlap == /\ serves[m2] = 1
           /\ \/ \E b \in Builders : builds[b] = Idle
              \/ files[s1] = 1 /\ \A q \in Questions : questions[q] = Idle

BuilderSymmetry == Permutations({b1, b2})
=============================================================================
