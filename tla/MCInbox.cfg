SPECIFICATION Spec
CONSTANTS
  Batches <- MCBatches
  ActiveCallers <- MCCallers
  Mobiles = {cust, other}
  NoKey = none
  NoNumber = blank
  Browsers = {b1, b2}
  Listening = {b1}
  View <- MCView
  ViewCaller <- MCViewCaller
  QueueMax = 2
  MaxUpdates = 1
  MaxFaults = 1
  k1 = k1
  none = none
  blank = blank
  cust = cust
  other = other
  rep = rep
  rep2 = rep2
  bot = bot
  stray = stray
  b1 = b1
  b2 = b2
CHECK_DEADLOCK FALSE
INVARIANTS
  ReadMeansShown

  
