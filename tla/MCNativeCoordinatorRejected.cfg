SPECIFICATION CalmSpec
CONSTANTS
  g1 = g1  g2 = g2  g3 = g3
  Agents = {g1, g2, g3}
  NoAgent = NoAgent
  MaxTokens = 2
  MaxWorkers = 1
  Fates = {"done", "lost"}
  Hidden <- MissesNone
  FindMayMiss = FALSE
  CloseSupported = TRUE
  Commands = {}
  Adopt = FALSE
  MaxUpsets = 1
PROPERTY AvailableIsHarvested
