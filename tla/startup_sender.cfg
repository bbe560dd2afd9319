\* a start ends: the server is up or the process has ended
CONSTANT
  Inputs <- MCInputs
SPECIFICATION Spec
INVARIANT
  MailHasSender
CHECK_DEADLOCK FALSE
