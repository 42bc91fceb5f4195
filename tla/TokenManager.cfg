CONSTANTS
  Requests = {r1, r2, r3}
  NoOne = NoOne
  MaxTokens = 2
SPECIFICATION FairSpec
INVARIANTS
  RetryUsesALaterToken
PROPERTIES
  RequestsEnd
