CONSTANTS
  m1 = m1
  m2 = m2
  Calls = {m1}
  Recipients = 1
  Malformed = {}
  SenderValid = TRUE
  Retries = 1
SPECIFICATION Spec
INVARIANT MultipartHasBoth
