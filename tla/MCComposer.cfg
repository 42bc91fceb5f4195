CONSTANTS
  u1 = u1
  u2 = u2
  nobody = nobody
  plain = plain
  toolong = toolong
  now = now
  later = later
  Users = {u1, u2}
  Nobody = nobody
  Operator = u1
  Texts = {plain, toolong}
  ValidTexts = {plain}
  Times = {now, later}
  Now = now
  MaxEdits = 1
  MaxFiles = 2
  MaxSessions = 1
  MaxToggles = 1
  MaxFaults = 2
SPECIFICATION Spec
INVARIANTS
  OneCampaignPerForm
  SentAsEstimated
PROPERTY InsistingOperatorSends
CHECK_DEADLOCK FALSE
