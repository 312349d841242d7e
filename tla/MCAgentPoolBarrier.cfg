SPECIFICATION Spec
CONSTANTS
  a1 = a1  a2 = a2  a3 = a3  c1 = c1  c2 = c2  c3 = c3  p1 = p1  p2 = p2  p3 = p3
  k1 = k1  g1 = g1  g2 = g2  g3 = g3  f1 = f1  there = there  other = other
  Actions = {a1, a2, a3}
  Claims = {c1, c2, c3}
  Paths = {p1, p2}
  DependsOn <- OverlapDependsOn
  Premises <- NoPremises
  Required <- OverlapRequired
  Affected <- OverlapAffected
  Reads <- OverlapReads
  Writes <- OverlapWrites
  Kind <- OverlapKind
  Mandatory = {a1}
  IdOrder <- OverlapOrder
  Agents = {g1, g2, g3}
  NoAgent = NoAgent
  NoAction = NoAction
  Contents = {there}
  Missing = Missing
  Contracts = {1}
  Cites <- OverlapCites
  Attempts = {k1}
  AttemptOf <- OneAttempt
  Findings = {}
  Holdable = {}
  Surprises = {c1}
  Contestable = {}
  Commands = {}
  MaxWorkers = 2
  MaxDispatches = 5
  MaxRepairCycles = 1
  MaxEdits = 0
  MaxRevisions = 0
SYMMETRY Symmetry
PROPERTY BarrierIsKept
