SPECIFICATION Spec
CONSTANTS
  s1 = s1
  s2 = s2
  b1 = b1
  b2 = b2
  m2 = m2
  Sources = {s1, s2}
  Manifests <- OneOrBoth
  Builders = {b1, b2}
  Questions = {q1}
  Models = {m1, m2}
  Dims = {1, 2}
  ServerModel = m1
  MaxVersion = 2
  NoIndex = NoIndex
  NoDim = NoDim
SYMMETRY BuilderSymmetry
CONSTRAINT Overlap
CHECK_DEADLOCK FALSE
INVARIANTS IndexIsSound
PROPERTIES ImplementsCorpus
