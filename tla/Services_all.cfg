SPECIFICATION Spec
CONSTANTS
  Reject = Reject
  None = None
  Reports = {"p1"}
  Watchdog = "watchdog"
  Period = 1
  Consecutive = 2
  InvertMode = TRUE
  MaxUpsets = 1
  Channels = {"c1", "c2"}
  Alerts = {"a1"}
  MaxAttempts = 3
  MaxToggles = 1
  MaxFaults = 1
  Sessions = {"s1", "s2"}
  NoSession = "none"
  Requests = {"r1"}
  MaxRows = 2
  MaxIssued = 2
  MaxMishaps = 1
  Items = {"k1", "k2", "k3"}
  NoItem = "none"
  MaxLosses = 1
  MonitorIds = {"m1", "m2"}
  ChannelIds = {"c1", "c2"}
  Approved = {"a1"}
  Others = {"a2"}
  Forms <- SomeForms
  Submissions = {"r1", "r2"}
  Installations <- SomeInstallations
  Uploads = {"u1", "u2"}
  HomeStates <- SomeHomeStates
  Edited <- SomeEdited
  KumaLists <- SomeKumaLists
  Probes = {"t1", "t2"}
  Checks <- SomeChecks
  Names = {"site", "other"}
  Literals = {"ip1", "ip2"}
  Families <- SomeFamilies
  Within <- SomeTexts
  MaxCached = 1
  MaxIdle = 1
  MaxRedirects = 2
  Configs <- SomeConfigs
  Values = {1, 2}
  Limit = 2
  QueueCap = 1
  MaxRounds = 3
  MaxExtras = 1
INVARIANTS
  TypeOK
  SilenceTakesItsTime
  DeliveryIsAccounted
  OneApprovalIsEnough
  RequestsAreTransactions
  ImportsAreFaithful
  KumaIsReadRight
  ProbesAreSound
  
PROPERTIES
  SilenceIsTold
CHECK_DEADLOCK FALSE
