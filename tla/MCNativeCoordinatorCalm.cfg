SPECIFICATION CalmSpec
CONSTANTS
  g1 = g1  g2 = g2  g3 = g3
  Agents = {g1, g2, g3}
  NoAgent = NoAgent
  MaxTokens = 3
  MaxWorkers = 1
  Fates = {"done", "lost"}
  Hidden <- MissesNone
  FindMayMiss = FALSE
  CloseSupported = FALSE
  Commands = {}
  Adopt = FALSE
  MaxUpsets = 0
PROPERTY EveryTokenIsRecorded
