\* Each bound is the smallest under which the module's hazards occur; see the README.
SPECIFICATION ServicesSpec
CONSTANTS
  None = None v1 = v1 v2 = v2 x1 = x1 x2 = x2
  base = base tampered = tampered foreign = foreign
  Base = base Candidates = {v1, v2} Tampered = tampered Foreign = foreign
  MaxRounds = 2 MaxOperations = 4 MaxMeddling = 1 MaxDeliveryCrashes = 1
  Names = {x1, x2} MaxTreeOps = 3 MaxTreeEdits = 1 MaxTreeCrashes = 1
  task = task guest1 = guest1 Tasks = {task} Guest = guest1 Versions = {v1, v2}
  Targets = {"snapshot", "worktree", "sandbox"}
  MaxCopies = 2 MaxCopyEdits = 1 MaxCopyCrashes = 1 MaxCopyRuns = 4
  h1 = h1 h2 = h2 key1 = key1 key2 = key2 key3 = key3 key4 = key4 key5 = key5
  Handlers = {h1, h2} Registrations = {key1} Updates = {key2} Removals = {key3}
  RunActions = {key4} RunAdmissions = {key5} MaxSends = 3 MaxReceiptCrashes = 1
  Contents = {x1, x2} MaxMessages = 3 MaxDecisions = 2 MaxAttempts = 1
  MaxDocuments = 2 Texts = {v1, v2} Profiles = {v1, v2} Builders = {x1, x2}
  MaxRewrites = 1 MaxIndexEvents = 1
  SkillVersions = {v1, v2} MaxImports = 2 MaxSkillRuns = 2 MaxSkillEvents = 2
  AttachmentIds = {x1, x2} MaxUploads = 3 MaxFileRuns = 3 MaxFileCrashes = 1
  Goals = {x1, x2} Sources = {v1, v2} MaxTasks = 2 WorkersPerRun = 2
  MaxWorkerRuns = 2 MaxCalls = 2 MaxSourceEdits = 1 MaxWorkerCrashes = 1
  Histories = {v1, v2} MaxImportRuns = 4 MaxImportEvents = 2
  Endpoints <- TwoAddresses MaxCases = 2 MaxEvaluations = 1 MaxEvaluationEvents = 2
  Models = {x1, x2} Budget = 10 Fixed = 1 KeepRecent = 1 Cooldown = 1 MinNew = 3
  ResultSizes = {1, 4} SummarySizes = {1, 5} Placeholder = 2 MaxEvents = 8 MaxClock = 1
  Items <- WhatIsWritten MaxItems = 2 LastId = 9999 MaxUpdates = 3 MaxResults = 1
INVARIANTS ReceiptsAreTrue AnswerIsOneIndex SkillsAreAsReviewed FilesStay DelegatedOnce
  WorkersSettle EvaluationIsEvidence RequestsAreWhole SummariesArePaidOnce PlansAreSound
PROPERTIES DeliveryIsSound CheckoutsAreSafe CopiesAreSound PreferencesAreRespected
  PublicationIsOneBuild HistoryAsReviewed TasksKeepTheirIdentity
SYMMETRY Alike
CHECK_DEADLOCK FALSE
