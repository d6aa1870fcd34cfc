SPECIFICATION Spec
CONSTANTS
  east = east
  west = west
  u1 = u1
  fd1 = fd1
  fd2 = fd2
  Channel = {east, west}
  Seqno = {u1}
  Owner <- MCOwner
  Fd = {fd1, fd2}
  None = None
  MaxConnects = 3
  MaxWire = 1
  MaxQueue = 1
INVARIANT TypeOK
PROPERTIES RouteStable SentHome RegisterRoutes
CHECK_DEADLOCK FALSE
