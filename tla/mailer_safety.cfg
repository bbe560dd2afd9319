\* two concurrent calls of two recipients, two tries each
CONSTANTS
  m1 = m1
  m2 = m2
  Calls = {m1, m2}
  Recipients = 2
  Malformed = {}
  SenderValid = TRUE
  Retries = 2
SPECIFICATION Spec
INVARIANTS
  ResultTells
  CopiesBounded
PROPERTY
  CallsReturn
