SPECIFICATION FairSpec
CONSTANTS
  None = None
  root = root
  worker = worker
  later = later
  q1 = q1
  q2 = q2
  q3 = q3
  bRoot = bRoot
  bWorker = bWorker
  project = project
  lower = lower
  raise = raise
  RootOf <- TheRoots
  RunOf <- TheRuns
  Tries <- OnlyOnce
  Scopes = {bRoot, bWorker, project}
  RunScopes <- TheScopes
  Runs = {root, worker, later}
  Requests = {q1, q2, q3}
  Embeddings = {}
  Delivery = {root, worker, later}
  DeliveryAttempts = 2
  DeliveryTokens = 2
  Configs = {}
  ConfigOf <- NoConfigs
  StartLimits <- RunLimits
  ModelSlots = 1
  Sizes = {1}
  Spends = {1}
  MaxDay = 2
  MaxCrashes = 1
INVARIANTS DeliveryCapped
PROPERTIES RequestsEnd
CHECK_DEADLOCK FALSE
