SPECIFICATION FairSpec
CONSTANTS
  r1 = r1 r2 = r2 r3 = r3 r4 = r4 a1 = a1 c1 = c1 s1 = s1 s2 = s2 s3 = s3 w1 = w1 w2 = w2
  Runs = {r1, r2, r3, r4}
  Abandons = {}
  Controls = {c1}
  Sessions = {s1, s2, s3}
  Workspaces = {w1}
  SessionOf <- SharedSessions
  WorkspaceOf <- OneWorkspace
  Continues = {r2}
  Prior <- PriorR1
  ActiveRoots = 1
  WaitingRoots = 1
  MaxRestarts = 0
  None = None
PROPERTIES AcceptedFinishes ControlServed
CHECK_DEADLOCK FALSE
