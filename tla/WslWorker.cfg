SPECIFICATION FairWorkerSpec
CONSTANTS
  h1 = h1
  h2 = h2
  Helpers = {h1, h2}
  Escapes = {h2}
  ReadyPolls = 2
INVARIANTS
  ExitProofIsSound
  RunningIsKept
  StrangersAreSpared
  NoModelAfterUncertainty
  OnlyCheckedContents
  WorktreeIsWhole
PROPERTIES
  ImplementsContract
  EveryCallReturns
CHECK_DEADLOCK FALSE
