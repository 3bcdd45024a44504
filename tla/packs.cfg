SPECIFICATION MCSpec
CONSTANTS
  p1 = p1
  p2 = p2
  p3 = p3
  m1 = m1
  m2 = m2
  NoPack = NoPack
  Ids = {p1, p2, p3}
  Manifests = {m1, m2}
  ManifestOf <- MCManifestOf
  Requests = {r1}
  Jobs = {"hourly", "owner", "portal", "final"}
  MaxRows = 2
  Quota = 2
  MaxRunning = 2
  MaxFaults = 1
INVARIANTS
  ActivePackIsWhole
  VisitKeepsItsPack
  CleanedStaysClean
  FilesHaveRows
SYMMETRY Symmetry
CHECK_DEADLOCK FALSE
