SPECIFICATION ServicesSpec
CONSTANTS
  People = {a, b}
  Founder = a
  NoActor = NoActor
  MaxDesk = 2
  ClientEvents = {e1, e2}
  RowIds = {1, 2, 3}
  Retention = 1
  PageLimit = 1
  PruneLimit = 1
  TimelineSize = 2
  MaxDebugTime = 2
  MaxPrunes = 1
  ExportIds = {1, 2, 3, 4, 5, 6, 7}
  Sections <- MCSections
  TableOf <- MCTableOf
  ParentOf <- MCParentOf
  NestedIn <- MCNestedIn
  BatchSize = 2
  MaxExportEdits = 2
  LimitKeys = {x, y, z}
  Window = 2
  Limit = 2
  Capacity = 2
  MaxLimitTime = 3
  Topics = {t1, t2}
  NoTopic = NoTopic
  MaxTopicTime = 6
  MaxShipped = 4
  Tabs = {tab1, tab2}
  AuthTabs = {tab1}
  Calls = {c1, c2}
  MaxTokens = 2
  Leavers = {1, 2, 3}
  PassLimit = 1
  MaxExponent = 3
  MaxBackoff = 3
  UrlTtl = 1
  Patience = 6
  ListIds = {1, 2, 3}
  Directions = {"desc"}
  PageSize = 2
  MaxListTime = 2
INVARIANTS
  TrailTellsRole
  WalkMissesNothing
  CompleteIsWhole
  WindowHolds
  SuccessMeansCurrent
  ReportsWhatHappened
  DueIsTakenUp
  PagesMissNothing
PROPERTIES
  LastAdminFallsOnlyToStale
  PruneSparesLive
  TopicsTakeTurns
  RefreshIsShared
CHECK_DEADLOCK FALSE
