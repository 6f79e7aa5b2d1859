\* Purging by id, run over and over.
\* The clock is bounded, so the system comes to rest.
CHECK_DEADLOCK FALSE
SPECIFICATION MCFairSpec
CONSTANTS
  pocket = pocket
  relier = relier
  scan = scan
  byId = byId
  byId2 = byId2
  bulk = bulk
  bulkById = bulkById
  cron = cron
  Clients = {pocket, relier}
  Lifetimes = {0, 1}
  Purgers = {byId, byId2, scan, bulk, bulkById, cron}
  ById = {byId, byId2, bulkById}
  Ignored <- MCIgnored
  TokenCount <- MCTokenCount
  BatchSize <- MCBatchSize
  Epoch = 2
  None = None
  MaxTokens = 5
  MaxTime = 3
  MaxCrashes = 1
  Workloads <- ByIdWorkloads
PROPERTIES ExpiredIsPurged
