SPECIFICATION FairSpec
CONSTANTS
  h1 = h1
  h2 = h2
  Helpers = {h1, h2}
  Escapes = {h2}
  PromptChunks = 2
  PipeSize = 1
PROPERTIES
  InvocationEnds
CHECK_DEADLOCK FALSE
