SPECIFICATION FairSpec
CONSTANTS
  None = None
  r1 = r1
  r2 = r2
  u1 = u1
  u2 = u2
  id1 = id1
  id2 = id2
  b1 = b1
  here = here
  there = there
  p1 = p1
  p2 = p2
  unchanged = unchanged
  docs = docs
  edited_docs = edited_docs
  more_docs = more_docs
  code = code
  Unchanged = unchanged
  Branches = {b1}
  AuthIds = {id1, id2}
  Attempts <- OneRun
  Auths <- Packages
  AuthId <- PackageIds
  BranchOf <- SameBranch
  Clones = {here}
  Prs = {p1}
  Trees <- AllTrees
  PathsOf <- AllPaths
  Allowed = {docs, more_docs}
INVARIANTS
  PublishedWasInspected
  
  RequestsAreLegal
PROPERTIES
  EveryRunReports
CHECK_DEADLOCK FALSE
