\* Two Runs, each response up to two calls; one edit and one crash anywhere.  Up to four
\* outcomes of calls in two Runs, the window one shorter than the three of the code.
CONSTANTS
  bash = bash write_file = write_file read_file = read_file
  source = source changed = changed Opaque = Opaque None = None
  Calls = {bash, read_file} ReadOnly <- MCReadOnly Coop <- MCCoop Contents <- MCContents
  Raises = TRUE
  MaxRuns = 2 MaxBatch = 2 MaxEdits = 1 MaxCrashes = 1
  notFound = notFound testsFail = testsFail
  SourceStates = {source, changed} ReadFailures = {notFound} WriteFailures = {testsFail}
  Window = 2 MaxOutcomes = 4 MaxSourceChanges = 1 MaxLoopRuns = 2
SYMMETRY MCSymmetry
SPECIFICATION RunsAndLoopsSpec
INVARIANTS StoppedToolsAreStill UnpairedOnlyByEscape RepetitionIsStopped
PROPERTIES ContinueIsSound RecoveryIsHonest
CHECK_DEADLOCK FALSE
