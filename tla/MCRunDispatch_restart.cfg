SPECIFICATION Spec
CONSTANTS
  r1 = r1 r2 = r2 r3 = r3 r4 = r4 a1 = a1 c1 = c1 s1 = s1 s2 = s2 s3 = s3 w1 = w1 w2 = w2
  Runs = {r1, r2, r3, r4}
  Abandons = {}
  Controls = {}
  Sessions = {s1, s2, s3}
  Workspaces = {w1, w2}
  SessionOf <- ThreeSessions
  WorkspaceOf <- TwoWorkspaces
  Continues = {r2}
  Prior <- NoPrior
  ActiveRoots = 1
  WaitingRoots = 2
  MaxRestarts = 1
  None = None
PROPERTIES KeysAreServed CloseFinishes
CHECK_DEADLOCK FALSE
