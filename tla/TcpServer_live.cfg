SPECIFICATION Spec
CONSTANTS
  Conns = {c1, c2}
  Acceptor = acceptor
  NoConn = none
PROPERTIES
  NoAcceptAfterStop
  ImplementsLifetime
  DestructorReturns
  BacklogDrains
