SPECIFICATION LoopSpec
CONSTANTS
  w1 = w1  r1 = r1  k1 = k1  f1 = f1  there = there  other = other  p1 = p1
  Actions = {w1, r1}
  Initial = {r1}
  DependsOn <- MCDependsOn
  Kind <- MCKind
  Mandatory = {w1}
  Reviewed = {r1}
  Commands = {r1, "review"}
  Attempts = {k1}
  AttemptOf <- MCAttemptOf
  Findings = {f1}
  Contents = {there, other, Missing}
  Missing = Missing
  Plans = {p1}
  Adds <- MCAdds
  Rewires <- MCRewires
  NoAction = NoAction
  NotJudged = NotJudged
  Order <- MCOrder
  MaxDispatches = 4
  MaxRepairCycles = 2
  MaxDisturbances = 1
  q1 = q1  q2 = q2  q3 = q3
  Receipts = {q1, q2, q3}
  Analyzers = {a1, a2}
  Versions = {"1.0", "1.1"}
  Turns = {t1, t2}
  ReceiptFacts <- MCFacts
  Legacies <- MCLegacies
  NoReceipt = NoReceipt
  NoHolder = NoHolder
  LeaseSeconds = 1
  MaxReceipts = 2
  MaxProposals = 1
  MaxNoActions = 1
  MaxRevisions = 1
  MaxHookTurns = 1
  MaxClock = 2
  Contributions = {c1, c2}
  Submitters = {s1, s2}
  NoDraft = NoDraft
  g1 = g1  g2 = g2  d1 = d1  d2 = d2  d4 = d4
  Runs = {g1, g2}
  KindOf <- MCKindOf
  Pins = {"p1", "p2"}
  Patches = {d1, d2, d4}
  PathsOf <- MCPathsOf
  NoManifest = NoManifest
  NoPatch = NoPatch
  MaxReruns = 2
  MaxOwnerSteps = 2
SYMMETRY Alike
INVARIANTS NeverReplayed WorkFollowsReview SerialCompletion RepairsConverge ExecutedIsNotRewired
  ReceiptsAnswered AskedOncePerMemory IssuesAccounted
  AnnouncedIsValidated NothingStaleIsPublished
PROPERTIES ActiveProposalsSurvive
CHECK_DEADLOCK FALSE
