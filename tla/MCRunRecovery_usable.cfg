\* Two Runs of one call each; nothing is edited and nothing crashes.
CONSTANTS
  bash = bash write_file = write_file read_file = read_file
  source = source changed = changed Opaque = Opaque None = None
  Calls = {write_file, read_file} ReadOnly <- MCReadOnly Coop <- MCCoop Contents <- MCContents
  Raises = TRUE
  MaxRuns = 2 MaxBatch = 1 MaxEdits = 0 MaxCrashes = 0
SPECIFICATION Spec
INVARIANTS SessionUsable
CHECK_DEADLOCK FALSE
