\* two handlers, one writer, two readers of which one is kept idle, a restart
CONSTANTS
  c1 = c1
  c2 = c2
  k1 = k1
  k2 = k2
  k3 = k3
  alice = alice
  Clients = {c1, c2}
  Names = {alice}
  Conns = {k1, k2, k3}
  ReaderLimit = 2
  ReaderIdle = 1
  MaxStarts = 2
SPECIFICATION Spec
INVARIANTS
  MigratedBeforeUse
  AckedStay
  ReadYourWrites
  ClosedIsClosed
PROPERTIES
  ImplementsStore
  CloseReturns
  CallsReturn
CHECK_DEADLOCK FALSE
