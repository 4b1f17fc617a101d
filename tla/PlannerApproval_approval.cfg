SPECIFICATION Spec
CONSTANTS
  Runs = {r1, r2, r3}
  Activities = {a1}
  Users = {u1, u2}
  Styles = {TRUE, FALSE}
  NoRun = NoRun
  MaxLate = 1
SYMMETRY Symmetry
CHECK_DEADLOCK FALSE
INVARIANTS AddedAsDecided OneReplacement
