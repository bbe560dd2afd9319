\* a start ends: the server is up or the process has ended
CONSTANT
  Inputs <- MCInputs
SPECIFICATION Spec
INVARIANTS
  LayersDecide
  SameInputsSameConfig
  EnabledAreUsed
  CertificatesTrusted
  NothingLeftBehind
CHECK_DEADLOCK FALSE
