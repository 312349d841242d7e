SPECIFICATION Spec
CONSTANTS
  a1 = a1  a2 = a2  a3 = a3  c1 = c1  c2 = c2  c3 = c3  p1 = p1  p2 = p2  p3 = p3
  k1 = k1  g1 = g1  g2 = g2  g3 = g3  f1 = f1  there = there  other = other
  Actions = {a1, a2}
  Claims = {c1}
  Paths = {p1}
  DependsOn <- RepairDependsOn
  Premises <- NoPremises
  Required <- RepairRequired
  Affected <- RepairAffected
  Reads <- RepairReads
  Writes <- RepairWrites
  Kind <- RepairKind
  Mandatory = {a1}
  IdOrder <- RepairOrder
  Agents = {g1, g2}
  NoAgent = NoAgent
  NoAction = NoAction
  Contents = {there, other}
  Missing = Missing
  Contracts = {1}
  Cites <- RepairCites
  Attempts = {k1}
  AttemptOf <- OneAttempt
  Findings = {f1}
  Holdable = {a2}
  Surprises = {}
  Contestable = {}
  Commands = {}
  MaxWorkers = 1
  MaxDispatches = 6
  MaxRepairCycles = 2
  MaxEdits = 0
  MaxRevisions = 1
SYMMETRY Symmetry
INVARIANTS RepairBudget
PROPERTY DoneIsFinal
