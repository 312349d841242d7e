SPECIFICATION Spec
CONSTANTS
  a1 = a1  a2 = a2  a3 = a3  c1 = c1  c2 = c2  c3 = c3  p1 = p1  p2 = p2  p3 = p3
  k1 = k1  g1 = g1  g2 = g2  g3 = g3  f1 = f1  there = there  other = other
  Actions = {a1, a2}
  Claims = {c1, c2}
  Paths = {p1, p2}
  DependsOn <- ChainDependsOn
  Premises <- ChainPremises
  Required <- ChainRequired
  Affected <- ChainAffected
  Reads <- ChainReads
  Writes <- ChainWrites
  Kind <- ChainKind
  Mandatory = {a1, a2}
  IdOrder <- ChainOrder
  Agents = {g1, g2}
  NoAgent = NoAgent
  NoAction = NoAction
  Contents = {there, Missing}
  Missing = Missing
  Contracts = {1, 2}
  Cites <- ChainCites
  Attempts = {k1}
  AttemptOf <- OneAttempt
  Findings = {}
  Holdable = {}
  Surprises = {c1}
  Contestable = {c1}
  Commands = {"active", "paused"}
  MaxWorkers = 2
  MaxDispatches = 6
  MaxRepairCycles = 1
  MaxEdits = 2
  MaxRevisions = 0
SYMMETRY Symmetry
INVARIANTS RunningIsAssigned DependenciesReviewed CurrentWorkRestsOnSupport CompletionIsEarned
