SPECIFICATION Spec
CONSTANTS
  Conns = {c1, c2, c3}
  Acceptor = acceptor
  NoConn = none
SYMMETRY ConnSymmetry
INVARIANTS
  TypeOK
  CountIsExact
  NoThreadOutlivesServer
  SocketHasOneOwner
