SPECIFICATION Spec
CONSTANTS
  None = None
  c1 = c1
  c2 = c2
  a1 = a1
  a2 = a2
  u1 = u1
  u2 = u2
  u3 = u3
  id1 = id1
  id2 = id2
  p1 = p1
  p2 = p2
  Prs = {p1, p2}
  NextStates = {"invocation_starting", "invocation_started", "pr_opened_and_stopped", "completed_pending_review", "aborted", "failed", "cancelled", "timed_out"}
  Clients <- MCClients
  Attempts = {a1}
  Auths <- TwoPackages
  AuthIds = {id1, id2}
  AuthId <- SharedId
SYMMETRY ClientSymmetry
INVARIANTS
  StoredUnitsValidate
  AnswersAreDurable
  OneWinner
  OnlyForeignPackagesFindUnitsInvalid
PROPERTIES
  DefiniteFailuresChangeNothing
  ImplementsLedger
