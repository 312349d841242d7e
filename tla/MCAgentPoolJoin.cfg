SPECIFICATION HostSpec
CONSTANTS
  a1 = a1  a2 = a2  a3 = a3  c1 = c1  c2 = c2  c3 = c3  p1 = p1  p2 = p2  p3 = p3
  k1 = k1  g1 = g1  g2 = g2  g3 = g3  there = there
  Actions = {a1, a2, a3}
  Claims = {c1, c2, c3}
  Paths = {p1, p2, p3}
  DependsOn <- JoinDependsOn
  Premises <- NoPremises
  Required <- JoinRequired
  Affected <- JoinAffected
  Reads <- JoinReads
  Writes <- JoinWrites
  Kind <- JoinKind
  Mandatory = {a1, a2, a3}
  IdOrder <- JoinOrder
  Agents = {g1, g2, g3}
  NoAgent = NoAgent
  NoAction = NoAction
  Contents = {there}
  Missing = Missing
  Reviewer = g3
  Contracts = {1}
  Cites <- JoinCites
  Attempts = {k1}
  AttemptOf <- OneAttempt
  Findings = {}
  Holdable = {}
  Surprises = {}
  Contestable = {}
  Commands = {}
  MaxWorkers = 2
  MaxDispatches = 10
  MaxRepairCycles = 1
  MaxEdits = 0
  MaxRevisions = 0
PROPERTY GoalCompletes
