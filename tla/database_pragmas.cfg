CONSTANTS
  c1 = c1
  c2 = c2
  k1 = k1
  k2 = k2
  k3 = k3
  alice = alice
  Clients = {c1, c2}
  Names = {alice}
  Conns = {k1, k2, k3}
  ReaderLimit = 2
  ReaderIdle = 1
  MaxStarts = 1
SPECIFICATION Spec
INVARIANT ConnectionsAreSet
CHECK_DEADLOCK FALSE
