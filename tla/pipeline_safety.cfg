\* one request: requests share no state but the configuration
CONSTANTS
  r1 = r1
  Requests = {r1}
  ErrorCodes = {404, 499, 503}
SPECIFICATION Spec
INVARIANTS
  CountedAsSent
  NothingWithoutKey
  
  ErrorsAreReported
PROPERTY
  AlwaysAnswered
