SPECIFICATION MCSpec
CONSTANTS
  r1 = r1
  r2 = r2
  q1 = q1
  q2 = q2
  Recipients = {r1, r2}
  NChunks = 2
  ChunkOf <- MCChunkOf
  Requests = {q1, q2}
  CallIds = {1, 2, 3, 4, 5, 6}
  SecondOf <- MCSecondOf
  DaySeconds = 2
  DaysShown = 1
  LastDay = 2
  Limit = 1
  MaxIds = 2
  PageFaults = 1
  Listeners = {"l1", "l2"}
  Paths = {"long", "short"}
  BytesOf <- MCBytesOf
  MaxItems = 2
  MaxBytes = 2
  CacheTtl = 1
  TokenTtl = 2
  MaxTransfer = 1
  LastTick = 3
  NoticeTabs = {"t1", "t2"}
  NCampaigns = 2
  NAudits = 2
  NoticeLimit = 1
  MaxReadIds = 2
  LastMoment = 5
  Operators = {"ann", "bob"}
  Users = {"kim", "lee"}
  KeycloakAdmins = {}
  MaxVersions = 3
  MaxMishaps = 2
  NChats = 3
  Phone <- MCPhone
  Caller <- MCCaller
  SentTimes <- MCSentTimes
  ReportTimes <- MCReportTimes
  Answers <- MCAnswers
  NoCaller = null
  MaxAnswers = 2
  Window = 2
  MaxUnits = 1
  KstAhead = 9
  cust = cust
  rep = rep
  bot = bot
  null = null
  adm1 = adm1
  adm2 = adm2
  web1 = web1
  web2 = web2
  NumberAdmins = {adm1, adm2}
  MaxNumberId = 3
  Phones = {"p1"}
  Files <- MCFiles
  DirClients = {web1, web2}
  MaxContactId = 2
  MaxGroupId = 1
  MaxRowFaults = 1
CHECK_DEADLOCK FALSE
INVARIANTS
  CanceledSendsNothing
  CanceledRowsAreCancelled
  PagesTileTheList
  DeletedRecordingsAgeOut
  DismissedStays
  AdminsAreAsSetUp
  ClientIsCurrent
  ChargesAreTheSessions
  ListTellsTheLastMessage
  OneActiveDefault
  AnswersTellTheEffect
