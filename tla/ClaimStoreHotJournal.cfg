SPECIFICATION Spec
CONSTANTS
  None = None
  c1 = c1
  c2 = c2
  a1 = a1
  a2 = a2
  u1 = u1
  u2 = u2
  u3 = u3
  id1 = id1
  id2 = id2
  p1 = p1
  p2 = p2
  Prs = {p1}
  NextStates = {"failed"}
  Clients <- MCClients
  Attempts = {a1, a2}
  Auths <- ThreePackages
  AuthIds = {id1, id2}
  AuthId <- SharedAndOther
SYMMETRY RaceSymmetry
INVARIANTS
  ReadersIgnoreUncommitted
CHECK_DEADLOCK FALSE
