SPECIFICATION Spec
CONSTANTS
  Peers = {p1, p2}
  Nobody = nobody
  None = none
  Absent = absent
  Data = data
  Failed = failed
  Games = {g1}
  Emitters = {e1}
  Renders = {r1, r2}
  Files = {f1}
PROPERTIES
  HooksReturn
  ImplementsRegistry
