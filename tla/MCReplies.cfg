SPECIFICATION MCSpec
CONSTANTS
  p1 = p1
  p2 = p2
  Posts = {p1, p2}
  Channels = {"rcs", "sms"}
  MaxRestarts = 2
  NRows = 3
  Mms = {1, 3}
  MaxAttempts <- MCMaxAttempts
  FetchBatch = 2
  WebhookBatch = 2
  LockTimeout = 2
  Webhooks = {"w1"}
  o1 = o1
  s1 = s1
  s2 = s2
  c1 = c1
  c2 = c2
  OrgPatches = {o1}
  ProviderPatches = {s1, s2}
  Replies = {c1, c2}
CHECK_DEADLOCK FALSE
INVARIANTS
  AtMostOneDelivery
  RowTellsItsOwnMessage
  OwnFailureIsCertain
  
  AttemptsAreSpent
PROPERTIES
  EveryReplySettles
  EveryAttachmentSettles
  EveryRequestEnds
