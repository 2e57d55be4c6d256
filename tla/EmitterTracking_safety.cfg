SPECIFICATION Spec
CONSTANTS
  Peers = {p1, p2}
  Nobody = nobody
  None = none
  Absent = absent
  Data = data
  Failed = failed
  Games = {g1, g2}
  Emitters = {e1, e2}
  Renders = {r1}
  Files = {f1, f2}
SYMMETRY ThreadSymmetry
INVARIANTS
  TypeOK
  NoUseAfterFree
  FileIsRight
