SPECIFICATION ServiceSpec
CONSTANTS
  Reports = {b1, b2}
  p1 = p1  p2 = p2
  Reporters = {p1, p2}
  TokenOf <- MCTokenOf
  Fingerprint <- MCFingerprint
  Principals = {"ta", "tb"}
  Admin = "admin"
  NoReport = NoReport
  NoPolicy = NoPolicy
  NoReceiptYet = NoReceiptYet
  Triage = {"fixed"}
  MaxInvocations = 3
  n1 = n1  n2 = n2  n3 = n3
  Clients = {n1, n2, n3}
  ClientToken <- MCClientToken
  PackageVersions = {1, 2}
  NoInstallation = 0
  NoVersion = 0
  NoEvent = NoEvent
  NoCopy = NoCopy
  MaxCommands = 4
  Checks = {u1, u2}
  Sources = {s1, s2}
  NoSource = NoSource
  NoCheck = NoCheck
  NotSet = NotSet
  FreshFor = 2
  Backoff = 1
  MaxNow = 1
  MaxChanges = 1
  MaxChoices = 2
  MaxDeaths = 1
  MapCommands = {m1, m2}
  Contents <- MCContents
  Scans <- MCScans
  NoClaim = NoClaim
  NoMap = NoMap
  MaxMapCommands = 4
  MaxMapChanges = 1
  Files = {"file", "test"}
  TestFiles = {"test"}
  Pinned = {"pin"}
  Unpinned = {"page"}
  Drafts <- MCDrafts
  FileContents = {"held", "other"}
  Missing = Missing
  MapElements = {{"x"}, {"y"}}
  Broken = Broken
  NoDraft = NoDraft
  Unwritten = Unwritten
  NoVerdict = NoVerdict
  MaxRecords = 1
  MaxRecordChanges = 1
SYMMETRY Alike
INVARIANTS
  ReceiptsNameReports UnapprovedOnlyIfChosen ChoiceStandsUnlessOverwritten
  SentVersionRecorded ErasedStaysErased
  ReplacesAsChosen SuspensionSticks
  MapsAreKept GuardedWorkIsAboutItsMap
  RecordsReadable VerdictIsExact
CHECK_DEADLOCK FALSE
