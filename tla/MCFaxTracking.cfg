SPECIFICATION Spec
CONSTANTS
  NJobs = 1
  RecipientOf <- MCRecipientOf
  MaxLog = 2
  MaxInFlight = 1
  ScanMisses = 2
  DiscoveryMisses = 2
  ScanBatch = 2
  BackfillBatch = 2
  MaxFetchAttempts = 2
  MaxIncoming = 2
  MaxOthers = 1
  MaxFaults = 2
CHECK_DEADLOCK FALSE
INVARIANTS
  RefusedIsNotFaxed
  
  NothingIsSteppedOver
PROPERTY IncomingFaxSettles
