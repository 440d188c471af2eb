SPECIFICATION Spec
CONSTANTS
  None = None
  root = root
  worker = worker
  later = later
  q1 = q1
  q2 = q2
  q3 = q3
  bRoot = bRoot
  bWorker = bWorker
  project = project
  lower = lower
  raise = raise
  RootOf <- TheRoots
  RunOf <- TheRuns
  Tries <- RetryFirst
  Scopes = {bRoot, bWorker, project}
  RunScopes <- TheScopes
  Runs = {root, later}
  Requests = {q1, q2}
  Embeddings = {q2}
  Delivery = {}
  DeliveryAttempts = 0
  DeliveryTokens = 0
  Configs = {lower, raise}
  ConfigOf <- TheConfigs
  StartLimits <- TheLimits
  ModelSlots = 2
  Sizes = {1}
  Spends = {1, 2}
  MaxDay = 1
  MaxCrashes = 1
INVARIANTS InFlightIsOpen SpendWithinCeiling CompleteIsExact
PROPERTIES HoldsAreKept ReservationsFit
CHECK_DEADLOCK FALSE
