\* Three Runs and two crashes: a Run with a write in flight, its abandonment, and
\* what may be continued after.
CONSTANTS
  bash = bash write_file = write_file read_file = read_file
  source = source changed = changed Opaque = Opaque None = None
  Calls = {write_file} ReadOnly <- MCReadOnly Coop <- MCCoop Contents <- MCContents
  Raises = FALSE
  MaxRuns = 3 MaxBatch = 1 MaxEdits = 0 MaxCrashes = 2
SPECIFICATION Spec
PROPERTIES NoUnknownContinued
CHECK_DEADLOCK FALSE
