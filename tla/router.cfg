\* registration may end after any call, or with the panic of the mux
CONSTANTS
  p1 = p1
  p2 = p2
  Patterns = {p1, p2}
  MaxCalls = 6
  MaxSpare = 1
SPECIFICATION Spec
SYMMETRY Symmetry
INVARIANTS
  RouteGoesThrough
  ErrorGoesTo
PROPERTY
  GroupsAreIndependent
CHECK_DEADLOCK FALSE
