SPECIFICATION Spec
CONSTANTS
  g1 = g1  g2 = g2  g3 = g3
  Agents = {g1, g2, g3}
  NoAgent = NoAgent
  MaxTokens = 3
  MaxWorkers = 1
  Fates = {"done", "void"}
  Hidden <- MissesOne
  FindMayMiss = TRUE
  CloseSupported = TRUE
  Commands = {"paused"}
  Adopt = TRUE
  MaxUpsets = 1
SYMMETRY Symmetry
INVARIANTS WithinCeiling OneSpawnPerToken ClosedIsHarvested OneTurnPerIdentity
PROPERTY TurnsKept
