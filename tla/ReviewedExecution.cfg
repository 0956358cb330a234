SPECIFICATION Spec
CONSTANTS
  None = None
  p1 = p1
  p2 = p2
  d1 = d1
  w1 = w1
  r1 = r1
  r2 = r2
  s1 = s1
  s2 = s2
  b1 = b1
  b2 = b2
  Procs = {p1, p2}
  Issues = {1}
  Candidates <- TheCandidates
  Deps = {d1}
  Bases = {b1, b2}
  Roots = {r1, r2}
  Stores = {s1}
  Old = {old}
  MaxProposals = 1
  MaxChanges = 1
SYMMETRY Symmetric
INVARIANTS
  OpenStoresAreWhole
  OnlyApprovedWorkRuns
  ReviewedRunsOwnPackage
  ReportsMatchTheStore
PROPERTIES
  OthersFilesAreKept
CHECK_DEADLOCK FALSE
