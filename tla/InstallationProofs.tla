------------------------- MODULE InstallationProofs -------------------------
(***************************************************************************)
(* What one installation of the skill does beside its goals: it reports    *)
(* problems, counts itself and updates itself. No lock guards the first    *)
(* two: a command writes back the policy it loaded.                        *)
(*                                                                         *)
(* Reports: what a command knows of the policy it loaded lasts until it    *)
(* ends, and whatever it was told names a row that is there or was         *)
(* removed.                                                                *)
(*                                                                         *)
(* Analytics: copies of the policy are sound, and an id that was erased is *)
(* known, once the erase is over, only to commands that were under way     *)
(* then and to events that were built before.                              *)
(*                                                                         *)
(* Updates: who is past the lock has it, and while it does nobody else     *)
(* writes the policy, so the copy that was read under the lock is still    *)
(* the policy on disk when it is acted upon and written back.              *)
(***************************************************************************)
EXTENDS ProblemReports, InstallationAnalytics, UpdatePolicy, TLAPS

-----------------------------------------------------------------------------
(* Problem reports.                                                        *)

ReporterFields == {"step", "command", "copy", "remote"}
ReporterSteps == {"idle", "create", "loaded", "send", "waiting", "failed", "sent", "receipt"}

\* The reports the server holds or held.
Stored == DOMAIN rows \cup removed

\* A policy configure, or a default, leaves on the device.
Allowed(x) == x \in Policies /\ (x.mode = "auto-minimal" /\ x.transport = "api" => autonomous)

\* What a command knows: the policy it loaded, that a report in its hands may
\* leave the device, and that the id it was told names a report of the server.
ReporterSound(p) ==
  /\ reporter[p].step \in ReporterSteps
  /\ IF InStep(p, "idle") THEN reporter[p].copy = NoPolicy ELSE Allowed(reporter[p].copy)
  /\ reporter[p].command.name = "configure" => reporter[p].command \in Configures
  /\ InStep(p, "send") =>
       /\ ~LegacyAutomatic(reporter[p].copy)
       /\ reporter[p].copy.mode = "auto-minimal" \/ reporter[p].command.approved
  /\ (InStep(p, "sent") \/ InStep(p, "receipt")) /\ reporter[p].copy.transport = "api" =>
       reporter[p].remote \in Stored

ReportsKnown ==
  /\ DOMAIN reporter = Reporters /\ \A p \in Reporters : DOMAIN reporter[p] = ReporterFields
  /\ \A p \in Reporters : ReporterSound(p)
  /\ policy # NoPolicy => Allowed(policy)
  /\ policy = NoPolicy => chosen = "unconfigured"
  /\ DOMAIN receipt = Reports
  /\ \A q \in inflight : q.from \in Reporters

\* As long as no older mode was written over the last choice, the policy and
\* every copy loaded since have the mode that was chosen.
CopiesAgree ==
  /\ policy # NoPolicy => policy.mode = chosen
  /\ \A p \in Reporters \ outdated : ~InStep(p, "idle") => reporter[p].copy.mode = chosen

ReportsInv ==
  ReportsKnown /\ ReceiptsNameReports /\ UnapprovedOnlyIfChosen /\ (overwritten \/ CopiesAgree)

OnlyBy(p) ==
  /\ DOMAIN reporter' = Reporters /\ DOMAIN reporter'[p] = ReporterFields
  /\ \A q \in Reporters \ {p} : reporter'[q] = reporter[q]

\* What the proofs use of the other variables of a step.
Forward ==
  /\ Stored \subseteq Stored' /\ (autonomous => autonomous')
  /\ inflight' \subseteq inflight \/ \A q \in inflight' : q.from \in Reporters

LEMMA MovesOn ==
  ASSUME ReportsKnown, NEW p \in Reporters, NEW step, Moves(p, step)
  PROVE  /\ OnlyBy(p) /\ reporter'[p].step = step /\ reporter'[p].copy = reporter[p].copy
         /\ reporter'[p].command = reporter[p].command /\ reporter'[p].remote = reporter[p].remote
  BY DEF Moves, ReportsKnown, OnlyBy, ReporterFields

LEMMA StopsSound ==
  ASSUME ReportsKnown, NEW p \in Reporters, Stops(p)
  PROVE  /\ OnlyBy(p) /\ ReporterSound(p)' /\ InStep(p, "idle")'
  <1>1. OnlyBy(p) /\ reporter'[p] = IdleReporter
    BY DEF Stops, ReportsKnown, OnlyBy, ReporterFields, IdleReporter
  <1>2. QED
    BY <1>1 DEF IdleReporter, NoCommand, ReporterSound, ReporterSteps, InStep

LEMMA SoundStays ==
  ASSUME ReportsKnown, Forward, NEW q \in Reporters, reporter'[q] = reporter[q]
  PROVE  ReporterSound(q)'
  BY DEF ReportsKnown, Forward, ReporterSound, InStep, Allowed, LegacyAutomatic

LEMMA KnownAfterStep ==
  ASSUME ReportsKnown, Forward, NEW p \in Reporters, OnlyBy(p), ReporterSound(p)',
         \/ policy' = policy /\ chosen' = chosen
         \/ policy' # NoPolicy /\ Allowed(policy)',
         DOMAIN receipt' = Reports
  PROVE  ReportsKnown'
  <1>1. \A q \in Reporters : ReporterSound(q)' /\ DOMAIN reporter'[q] = ReporterFields
    <2>1. SUFFICES ASSUME NEW q \in Reporters
                   PROVE  ReporterSound(q)' /\ DOMAIN reporter'[q] = ReporterFields
      OBVIOUS
    <2>2. CASE q = p
      BY <2>2 DEF OnlyBy
    <2>3. CASE q # p
      BY <2>3, SoundStays DEF OnlyBy, ReportsKnown
    <2>4. QED
      BY <2>2, <2>3
  <1>2. /\ policy' # NoPolicy => Allowed(policy)'
        /\ policy' = NoPolicy => chosen' = "unconfigured"
    BY DEF ReportsKnown, Forward, Allowed
  <1>3. \A q \in inflight' : q.from \in Reporters
    BY DEF Forward, ReportsKnown
  <1>4. QED
    BY <1>1, <1>2, <1>3 DEF ReportsKnown, OnlyBy

\* A step that sends nothing and writes no receipt keeps the other two.
LEMMA HistoryStays ==
  ASSUME Forward, ReceiptsNameReports, UnapprovedOnlyIfChosen, UNCHANGED <<receipt, sent>>
  PROVE  ReceiptsNameReports' /\ UnapprovedOnlyIfChosen'
  BY DEF Forward, ReceiptsNameReports, UnapprovedOnlyIfChosen, Stored

\* A command that goes on without writing the policy.
LEMMA CopiesStay ==
  ASSUME ReportsKnown, NEW p \in Reporters, OnlyBy(p), overwritten \/ CopiesAgree,
         UNCHANGED <<policy, chosen, outdated, overwritten>>,
         InStep(p, "idle")' \/ (reporter'[p].copy = reporter[p].copy /\ ~InStep(p, "idle"))
  PROVE  (overwritten \/ CopiesAgree)'
  <1>1. SUFFICES ASSUME CopiesAgree PROVE CopiesAgree'
    OBVIOUS
  <1>2. ASSUME NEW q \in Reporters \ outdated, ~InStep(q, "idle")'
        PROVE  reporter'[q].copy.mode = chosen
    <2>1. CASE q = p
      BY <1>1, <1>2, <2>1 DEF CopiesAgree
    <2>2. CASE q # p
      BY <1>1, <1>2, <2>2 DEF CopiesAgree, OnlyBy, InStep
    <2>3. QED
      BY <2>1, <2>2
  <1>3. QED
    BY <1>1, <1>2 DEF CopiesAgree

\* A command that writes the policy it loaded: either it loaded it after the
\* last configure, and has its mode, or an older mode is counted as written.
LEMMA CopiesSaved ==
  ASSUME ReportsKnown, NEW p \in Reporters, OnlyBy(p), overwritten \/ CopiesAgree,
         Save(p, reporter[p].copy), UNCHANGED <<chosen, outdated>>, ~InStep(p, "idle"),
         InStep(p, "idle")' \/ reporter'[p].copy = reporter[p].copy
  PROVE  (overwritten \/ CopiesAgree)'
  <1>1. SUFFICES ASSUME ~overwritten' PROVE CopiesAgree'
    OBVIOUS
  <1>2. CopiesAgree /\ policy' = reporter[p].copy /\ (p \in outdated => reporter[p].copy.mode = chosen)
    BY <1>1 DEF Save
  <1>3. policy'.mode = chosen
    BY <1>2 DEF CopiesAgree
  <1>4. ASSUME NEW q \in Reporters \ outdated, ~InStep(q, "idle")'
        PROVE  reporter'[q].copy.mode = chosen
    <2>1. CASE q = p
      BY <1>2, <1>4, <2>1 DEF CopiesAgree
    <2>2. CASE q # p
      BY <1>2, <1>4, <2>2 DEF CopiesAgree, OnlyBy, InStep
    <2>3. QED
      BY <2>1, <2>2
  <1>5. QED
    BY <1>3, <1>4 DEF CopiesAgree
-----------------------------------------------------------------------------
(* The report server.                                                      *)

\* A submission deletes nothing that is not counted as removed.
LEMMA StoreGrows ==
  ASSUME NEW principal, NEW report, StoreReport(principal, report)
  PROVE  Stored \subseteq Stored'
  BY DEF StoreReport, Stored, Put, Restrict, Fresh

\* Whatever a submission is told, the table holds a report of that id.
LEMMA ReplyIsStored ==
  ASSUME NEW principal, NEW report, StoreReport(principal, report),
         SubmitReply(principal, report) # Refused
  PROVE  SubmitReply(principal, report).report \in Stored'
  <1>1. CASE Twins(principal, report) # {}
    <2>1. PICK twin \in Twins(principal, report) :
            SubmitReply(principal, report) = DuplicateReply(report, twin)
      BY <1>1 DEF SubmitReply
    <2>2. twin \in DOMAIN rows'
      BY <1>1, <2>1 DEF StoreReport, Restrict, Twins
    <2>3. QED
      BY <2>1, <2>2 DEF DuplicateReply, Stored
  <1>2. CASE Twins(principal, report) = {}
    <2>1. report \notin Fresh
      BY <1>2 DEF SubmitReply
    <2>2. SubmitReply(principal, report) = [report |-> report, duplicate |-> FALSE]
      BY <1>2, <2>1 DEF SubmitReply
    <2>3. report \in DOMAIN rows'
      BY <1>2, <2>1 DEF StoreReport, Put
    <2>4. QED
      BY <2>2, <2>3 DEF Stored
  <1>3. QED
    BY <1>1, <1>2

LEMMA OwnerGrows ==
  ASSUME NEW r, NEW principal, NEW status, NEW version,
         \/ DeleteReport(r, principal) \/ Age(r) \/ UpdateReport(r, status, version) \/ Restart
  PROVE  Stored \subseteq Stored'
  <1>1. CASE DeleteReport(r, principal)
    BY <1>1 DEF DeleteReport, Drop, Restrict, Stored
  <1>2. CASE Age(r)
    BY <1>2 DEF Age, Stored
  <1>3. CASE UpdateReport(r, status, version)
    BY <1>3 DEF UpdateReport, Stored
  <1>4. CASE Restart
    BY <1>4 DEF Restart, Restrict, Fresh, Stored
  <1>5. QED
    BY <1>1, <1>2, <1>3, <1>4

-----------------------------------------------------------------------------
(* The steps of the reporters.                                             *)

LEMMA KeepsStill ==
  ASSUME UNCHANGED serverVars PROVE Stored' = Stored
  BY DEF serverVars, Stored

LEMMA ReportLoad ==
  ASSUME ReportsInv, NEW p \in Reporters, NEW c \in Configures \cup Prepares \cup Submits, Load(p, c)
  PROVE  ReportsInv'
  <1> DEFINE copy == IF policy = NoPolicy THEN DefaultPolicy(p) ELSE policy
  <1>1. /\ OnlyBy(p) /\ reporter'[p].step = IF policy = NoPolicy THEN "create" ELSE "loaded"
        /\ reporter'[p].copy = IF policy = NoPolicy THEN DefaultPolicy(p) ELSE policy
        /\ reporter'[p].command = c
    BY DEF Load, ReportsInv, ReportsKnown, OnlyBy, ReporterFields, IdleReporter
  <1>2. Forward
    BY KeepsStill DEF Load, Forward
  <1>3. Allowed(reporter'[p].copy)
    BY <1>1 DEF ReportsInv, ReportsKnown, Allowed, DefaultPolicy, Policies, Modes, Transports
  <1>4. ReporterSound(p)'
    <2>1. c.name = "configure" => c \in Configures
      BY DEF Prepares, Submits
    <2>2. QED
      BY <1>1, <1>2, <1>3, <2>1 DEF ReporterSound, InStep, ReporterSteps, Forward, Allowed
  <1>5. ReportsKnown'
    BY <1>1, <1>2, <1>4, KnownAfterStep DEF Load, ReportsInv, ReportsKnown
  <1>6. (overwritten \/ CopiesAgree)'
    <2>1. SUFFICES ASSUME CopiesAgree PROVE CopiesAgree'
      BY DEF Load, ReportsInv
    <2>2. UNCHANGED <<policy, chosen>> /\ outdated' = outdated \ {p}
      BY DEF Load
    <2>3. ASSUME NEW q \in Reporters \ outdated', ~InStep(q, "idle")'
          PROVE  reporter'[q].copy.mode = chosen
      <3>1. CASE q = p
        BY <1>1, <2>1, <3>1 DEF CopiesAgree, DefaultPolicy, ReportsInv, ReportsKnown
      <3>2. CASE q # p
        BY <1>1, <2>1, <2>2, <2>3, <3>2 DEF CopiesAgree, OnlyBy, InStep
      <3>3. QED
        BY <3>1, <3>2
    <2>4. QED
      BY <2>1, <2>2, <2>3 DEF CopiesAgree
  <1>7. QED
    BY <1>2, <1>5, <1>6, HistoryStays DEF ReportsInv, Load

LEMMA ReportCreate ==
  ASSUME ReportsInv, NEW p \in Reporters, CreatePolicy(p)
  PROVE  ReportsInv'
  <1>1. /\ OnlyBy(p) /\ reporter'[p].step = "loaded" /\ reporter'[p].copy = reporter[p].copy
        /\ reporter'[p].command = reporter[p].command
    BY MovesOn DEF CreatePolicy, ReportsInv
  <1>2. Forward
    BY KeepsStill DEF CreatePolicy, Forward
  <1>3. Allowed(reporter[p].copy)
    BY DEF CreatePolicy, ReportsInv, ReportsKnown, ReporterSound, InStep
  <1>4. ReporterSound(p)'
    BY <1>1, <1>2, <1>3 DEF ReportsInv, ReportsKnown, ReporterSound, InStep, ReporterSteps, Forward, Allowed
  <1>5. policy' # NoPolicy /\ Allowed(policy)'
    BY <1>2, <1>3, ReportAssumption DEF CreatePolicy, Save, Allowed, Forward
  <1>6. ReportsKnown'
    BY <1>1, <1>2, <1>4, <1>5, KnownAfterStep DEF CreatePolicy, ReportsInv, ReportsKnown
  <1>7. (overwritten \/ CopiesAgree)'
    BY <1>1, CopiesSaved DEF CreatePolicy, ReportsInv, InStep
  <1>8. QED
    BY <1>2, <1>6, <1>7, HistoryStays DEF ReportsInv, CreatePolicy

LEMMA ReportConfigure ==
  ASSUME ReportsInv, NEW p \in Reporters, Configure(p)
  PROVE  ReportsInv'
  <1>1. OnlyBy(p) /\ ReporterSound(p)' /\ InStep(p, "idle")'
    BY StopsSound DEF Configure, ReportsInv
  <1>2. reporter[p].copy \in Policies
    BY DEF Configure, ReportsInv, ReportsKnown, ReporterSound, InStep, Allowed
  <1>3. Forward
    BY KeepsStill DEF Configure, Forward
  <1> DEFINE c == reporter[p].command
             value == [reporter[p].copy EXCEPT !.mode = c.mode, !.transport = c.transport]
  <1>4. CASE c.mode = "auto-minimal" /\ c.transport = "github"
    <2>1. UNCHANGED <<policy, chosen, autonomous, outdated, overwritten>>
      BY <1>4 DEF Configure
    <2>2. ReportsKnown'
      BY <1>1, <1>3, <2>1, KnownAfterStep DEF Configure, ReportsInv, ReportsKnown
    <2>3. (overwritten \/ CopiesAgree)'
      BY <1>1, <2>1, CopiesStay DEF ReportsInv
    <2>4. QED
      BY <1>3, <2>2, <2>3, HistoryStays DEF ReportsInv, Configure
  <1>5. CASE ~(c.mode = "auto-minimal" /\ c.transport = "github")
    <2>1. /\ policy' = value /\ chosen' = c.mode /\ outdated' = Reporters
          /\ autonomous' = (autonomous \/ c.mode = "auto-minimal")
      BY <1>5 DEF Configure
    <2>2. c \in Configures
      BY DEF Configure, ReportsInv, ReportsKnown, ReporterSound
    <2>3. value \in Policies /\ value.mode = c.mode
      BY <1>2, <2>2 DEF Policies, Configures
    <2>4. policy' # NoPolicy /\ Allowed(policy)'
      BY <2>1, <2>3, ReportAssumption DEF Allowed
    <2>5. ReportsKnown'
      BY <1>1, <1>3, <2>4, KnownAfterStep DEF Configure, ReportsInv, ReportsKnown
    <2>6. (overwritten \/ CopiesAgree)'
      BY <2>1, <2>3 DEF CopiesAgree
    <2>7. QED
      BY <1>3, <2>5, <2>6, HistoryStays DEF ReportsInv, Configure
  <1>6. QED
    BY <1>4, <1>5

\* A command that ends without writing the policy.
LEMMA ReportEnds ==
  ASSUME ReportsInv, NEW p \in Reporters, Stops(p), Stored' = Stored,
         UNCHANGED <<policy, inflight, receipt, sent, chosen, autonomous, outdated, overwritten>>
  PROVE  ReportsInv'
  <1>1. OnlyBy(p) /\ ReporterSound(p)' /\ InStep(p, "idle")'
    BY StopsSound DEF ReportsInv
  <1>2. Forward
    BY DEF Forward
  <1>3. ReportsKnown'
    BY <1>1, <1>2, KnownAfterStep DEF ReportsInv, ReportsKnown
  <1>4. (overwritten \/ CopiesAgree)'
    BY <1>1, CopiesStay DEF ReportsInv
  <1>5. QED
    BY <1>2, <1>3, <1>4, HistoryStays DEF ReportsInv

\* A command that goes on to another step without writing the policy.
LEMMA ReportMoves ==
  ASSUME ReportsKnown, overwritten \/ CopiesAgree, Forward,
         NEW p \in Reporters, OnlyBy(p), ~InStep(p, "idle"), ~InStep(p, "create"),
         reporter'[p].step \in ReporterSteps \ {"idle", "create"},
         reporter'[p].copy = reporter[p].copy, reporter'[p].command = reporter[p].command,
         InStep(p, "send")' =>
           /\ ~LegacyAutomatic(reporter[p].copy)
           /\ reporter[p].copy.mode = "auto-minimal" \/ reporter[p].command.approved,
         (InStep(p, "sent")' \/ InStep(p, "receipt")') /\ reporter[p].copy.transport = "api" =>
           reporter'[p].remote \in Stored',
         UNCHANGED <<policy, chosen, outdated, overwritten, receipt>>
  PROVE  ReportsKnown' /\ (overwritten \/ CopiesAgree)'
  <1>1. /\ Allowed(reporter[p].copy)
        /\ reporter[p].command.name = "configure" => reporter[p].command \in Configures
    BY DEF ReportsKnown, ReporterSound
  <1>2. Allowed(reporter[p].copy)'
    BY <1>1 DEF Forward, Allowed
  <1>3. ReporterSound(p)'
    BY <1>1, <1>2 DEF ReporterSound, InStep, LegacyAutomatic
  <1>4. ReportsKnown'
    BY <1>3, KnownAfterStep DEF ReportsKnown
  <1>5. (overwritten \/ CopiesAgree)'
    BY CopiesStay DEF InStep
  <1>6. QED
    BY <1>4, <1>5

LEMMA ReportConsent ==
  ASSUME ReportsInv, NEW p \in Reporters, CheckConsent(p)
  PROVE  ReportsInv'
  <1>1. Stored' = Stored /\ UNCHANGED <<policy, inflight, receipt, sent, chosen, autonomous, outdated, overwritten>>
    BY KeepsStill DEF CheckConsent, sendHistory
  <1>2. CASE MayLeave(reporter[p].copy, reporter[p].command)
    <2>1. Moves(p, "send")
      BY <1>2 DEF CheckConsent
    <2>2. /\ OnlyBy(p) /\ reporter'[p].step = "send" /\ reporter'[p].copy = reporter[p].copy
          /\ reporter'[p].command = reporter[p].command
      BY <2>1, MovesOn DEF ReportsInv
    <2>3. Forward
      BY <1>1 DEF Forward
    <2>4. /\ ~LegacyAutomatic(reporter[p].copy)
          /\ reporter[p].copy.mode = "auto-minimal" \/ reporter[p].command.approved
      BY <1>2 DEF MayLeave
    <2>5. ~InStep(p, "idle") /\ ~InStep(p, "create")
      BY DEF CheckConsent, InStep
    <2>6. ReportsKnown' /\ (overwritten \/ CopiesAgree)'
      BY <1>1, <2>2, <2>3, <2>4, <2>5, ReportMoves DEF ReportsInv, InStep, ReporterSteps
    <2>7. QED
      BY <1>1, <2>3, <2>6, HistoryStays DEF ReportsInv
  <1>3. CASE ~MayLeave(reporter[p].copy, reporter[p].command)
    <2>1. Stops(p)
      BY <1>3 DEF CheckConsent
    <2>2. QED
      BY <1>1, <2>1, ReportEnds
  <1>4. QED
    BY <1>2, <1>3

\* What is handed to a transport was approved, or chosen to be sent without.
LEMMA HandedIsAllowed ==
  ASSUME ReportsInv, NEW p \in Reporters, InStep(p, "send"), Handed(p) \/ sent' = sent,
         autonomous' = autonomous
  PROVE  UnapprovedOnlyIfChosen'
  <1>1. reporter[p].command.approved \/ (reporter[p].copy.transport = "api" /\ autonomous)
    BY DEF ReportsInv, ReportsKnown, ReporterSound, InStep, Allowed, Policies, LegacyAutomatic, Transports
  <1>2. CASE sent' = sent
    BY <1>2 DEF ReportsInv, UnapprovedOnlyIfChosen
  <1>3. CASE Handed(p)
    <2>1. SUFFICES ASSUME NEW x \in sent' PROVE x.approved \/ (x.transport = "api" /\ autonomous')
      BY DEF UnapprovedOnlyIfChosen
    <2>2. CASE x \in sent
      BY <2>2 DEF ReportsInv, UnapprovedOnlyIfChosen
    <2>3. CASE x \notin sent
      <3>1. /\ x.approved = reporter[p].command.approved
            /\ x.transport = reporter[p].copy.transport
        BY <1>3, <2>3 DEF Handed
      <3>2. QED
        BY <1>1, <3>1
    <2>4. QED
      BY <2>2, <2>3
  <1>4. QED
    BY <1>2, <1>3

LEMMA ReceiptsStay ==
  ASSUME ReceiptsNameReports, Stored \subseteq Stored', receipt' = receipt
  PROVE  ReceiptsNameReports'
  BY DEF ReceiptsNameReports, Stored

LEMMA ReportGitHub ==
  ASSUME ReportsInv, NEW p \in Reporters, NEW public \in BOOLEAN, NEW made \in BOOLEAN,
         NEW answer \in BOOLEAN, SendGitHub(p, public, made, answer)
  PROVE  ReportsInv'
  <1>1. /\ Stored' = Stored /\ UNCHANGED <<policy, inflight, receipt, chosen, autonomous, outdated, overwritten>>
        /\ InStep(p, "send") /\ reporter[p].copy.transport = "github"
    BY KeepsStill DEF SendGitHub
  <1>2. Forward
    BY <1>1 DEF Forward
  <1>3. Handed(p) \/ sent' = sent
    BY DEF SendGitHub
  <1>4. /\ OnlyBy(p) /\ reporter'[p].step \in {"failed", "sent"}
        /\ reporter'[p].copy = reporter[p].copy /\ reporter'[p].command = reporter[p].command
    <2>1. \/ Moves(p, "failed")
          \/ reporter' = [reporter EXCEPT ![p].step = "sent", ![p].remote = reporter[p].command.report]
      BY DEF SendGitHub
    <2>2. CASE Moves(p, "failed")
      BY <2>2, MovesOn DEF ReportsInv
    <2>3. CASE reporter' = [reporter EXCEPT ![p].step = "sent", ![p].remote = reporter[p].command.report]
      BY <2>3 DEF ReportsInv, ReportsKnown, OnlyBy, ReporterFields
    <2>4. QED
      BY <2>1, <2>2, <2>3
  <1>5. ReportsKnown' /\ (overwritten \/ CopiesAgree)'
    BY <1>1, <1>2, <1>4, ReportMoves DEF ReportsInv, InStep, ReporterSteps
  <1>6. UnapprovedOnlyIfChosen'
    BY <1>1, <1>3, HandedIsAllowed
  <1>7. ReceiptsNameReports'
    BY <1>1, ReceiptsStay DEF ReportsInv
  <1>8. QED
    BY <1>5, <1>6, <1>7 DEF ReportsInv

LEMMA ReportPost ==
  ASSUME ReportsInv, NEW p \in Reporters, PostReport(p)
  PROVE  ReportsInv'
  <1>1. /\ Stored' = Stored /\ UNCHANGED <<policy, receipt, chosen, autonomous, outdated, overwritten>>
        /\ InStep(p, "send") /\ Handed(p)
    BY KeepsStill DEF PostReport
  <1>2. Forward
    BY <1>1 DEF Forward, PostReport, ReportsInv, ReportsKnown
  <1>3. /\ OnlyBy(p) /\ reporter'[p].step = "waiting"
        /\ reporter'[p].copy = reporter[p].copy /\ reporter'[p].command = reporter[p].command
    BY MovesOn DEF PostReport, ReportsInv
  <1>4. ReportsKnown' /\ (overwritten \/ CopiesAgree)'
    BY <1>1, <1>2, <1>3, ReportMoves DEF ReportsInv, InStep, ReporterSteps
  <1>5. UnapprovedOnlyIfChosen'
    BY <1>1, HandedIsAllowed
  <1>6. ReceiptsNameReports'
    BY <1>1, ReceiptsStay DEF ReportsInv
  <1>7. QED
    BY <1>4, <1>5, <1>6 DEF ReportsInv

\* A step that changes neither a command nor the files of the device.
LEMMA ReportIdles ==
  ASSUME ReportsInv, Forward, UNCHANGED <<reporter, policy, receipt, sent, chosen, autonomous, outdated, overwritten>>
  PROVE  ReportsInv'
  <1>1. \A p \in Reporters : ReporterSound(p)'
    BY SoundStays DEF ReportsInv
  <1>2. \A q \in inflight' : q.from \in Reporters
    BY DEF Forward, ReportsInv, ReportsKnown
  <1>3. ReportsKnown'
    BY <1>1, <1>2 DEF ReportsInv, ReportsKnown, Allowed
  <1>4. (overwritten \/ CopiesAgree)'
    BY DEF ReportsInv, CopiesAgree, InStep
  <1>5. QED
    BY <1>3, <1>4, HistoryStays DEF ReportsInv

LEMMA ReportHandle ==
  ASSUME ReportsInv, NEW request \in inflight, NEW refused \in BOOLEAN, NEW delivered \in BOOLEAN,
         HandlePost(request, refused, delivered)
  PROVE  ReportsInv'
  <1>0. PICK p \in Reporters : p = request.from
    BY DEF ReportsInv, ReportsKnown
  <1> DEFINE reply == SubmitReply(TokenOf[p], request.report)
             waits == InStep(p, "waiting") /\ reporter[p].command.report = request.report
  <1>1. /\ UNCHANGED <<policy, receipt, sent, chosen, autonomous, outdated, overwritten>>
        /\ inflight' \subseteq inflight
        /\ refused \/ StoreReport(TokenOf[p], request.report)
        /\ refused => UNCHANGED serverVars
    BY <1>0 DEF HandlePost, sendHistory
  <1>2. Forward
    BY <1>1, StoreGrows, KeepsStill DEF Forward
  <1>3. CASE reporter' = reporter
    BY <1>1, <1>2, <1>3, ReportIdles
  <1>4. CASE waits /\ Moves(p, "failed")
    <2>1. /\ OnlyBy(p) /\ reporter'[p].step = "failed"
          /\ reporter'[p].copy = reporter[p].copy /\ reporter'[p].command = reporter[p].command
      BY <1>4, MovesOn DEF ReportsInv
    <2>2. ReportsKnown' /\ (overwritten \/ CopiesAgree)'
      BY <1>1, <1>2, <1>4, <2>1, ReportMoves DEF ReportsInv, InStep, ReporterSteps
    <2>3. QED
      BY <1>1, <1>2, <2>2, HistoryStays DEF ReportsInv
  <1>5. CASE /\ waits /\ ~refused /\ reply # Refused
             /\ reporter' = [reporter EXCEPT ![p].step = "sent", ![p].remote = reply.report]
    <2>1. /\ OnlyBy(p) /\ reporter'[p].step = "sent" /\ reporter'[p].remote = reply.report
          /\ reporter'[p].copy = reporter[p].copy /\ reporter'[p].command = reporter[p].command
      BY <1>5 DEF ReportsInv, ReportsKnown, OnlyBy, ReporterFields
    <2>2. reply.report \in Stored'
      BY <1>1, <1>5, ReplyIsStored
    <2> HIDE DEF reply
    <2>3. ReportsKnown' /\ (overwritten \/ CopiesAgree)'
      BY <1>1, <1>2, <1>5, <2>1, <2>2, ReportMoves DEF ReportsInv, InStep, ReporterSteps
    <2>4. QED
      BY <1>1, <1>2, <2>3, HistoryStays DEF ReportsInv
  <1>6. QED
    BY <1>0, <1>3, <1>4, <1>5 DEF HandlePost

\* A command writes the policy it loaded back.
LEMMA ReportSaves ==
  ASSUME ReportsInv, NEW p \in Reporters, ~InStep(p, "idle"), ~InStep(p, "create"),
         Save(p, reporter[p].copy), OnlyBy(p), ReporterSound(p)', Stored' = Stored,
         \/ InStep(p, "idle")'
         \/ InStep(p, "receipt")' /\ reporter'[p].copy = reporter[p].copy,
         UNCHANGED <<inflight, receipt, sent, chosen, autonomous, outdated>>
  PROVE  ReportsInv'
  <1>1. Forward
    BY DEF Forward
  <1>2. Allowed(reporter[p].copy)
    BY DEF ReportsInv, ReportsKnown, ReporterSound
  <1>3. policy' # NoPolicy /\ Allowed(policy)'
    BY <1>2, ReportAssumption DEF Save, Allowed
  <1>4. ReportsKnown'
    BY <1>1, <1>3, KnownAfterStep DEF ReportsInv, ReportsKnown
  <1>5. (overwritten \/ CopiesAgree)'
    BY CopiesSaved DEF ReportsInv, InStep
  <1>6. QED
    BY <1>1, <1>4, <1>5, HistoryStays DEF ReportsInv

LEMMA ReportFails ==
  ASSUME ReportsInv, NEW p \in Reporters, SaveFailure(p)
  PROVE  ReportsInv'
  <1>1. OnlyBy(p) /\ ReporterSound(p)' /\ InStep(p, "idle")'
    BY StopsSound DEF SaveFailure, ReportsInv
  <1>2. Stored' = Stored
    BY KeepsStill DEF SaveFailure
  <1>3. ~InStep(p, "idle") /\ ~InStep(p, "create")
    BY DEF SaveFailure, InStep
  <1>4. QED
    BY <1>1, <1>2, <1>3, ReportSaves DEF SaveFailure, SavedAfterFailure

LEMMA ReportDelivered ==
  ASSUME ReportsInv, NEW p \in Reporters, SaveSuccess(p)
  PROVE  ReportsInv'
  <1>1. /\ OnlyBy(p) /\ reporter'[p].step = "receipt" /\ reporter'[p].copy = reporter[p].copy
        /\ reporter'[p].command = reporter[p].command /\ reporter'[p].remote = reporter[p].remote
    BY MovesOn DEF SaveSuccess, ReportsInv
  <1>2. Stored' = Stored /\ autonomous' = autonomous
    BY KeepsStill DEF SaveSuccess
  <1>3. ReporterSound(p) /\ reporter[p].step = "sent"
    BY DEF SaveSuccess, ReportsInv, ReportsKnown, InStep
  <1>4. ReporterSound(p)'
    BY <1>1, <1>2, <1>3 DEF ReporterSound, InStep, ReporterSteps, Allowed
  <1>5. QED
    BY <1>1, <1>2, <1>3, <1>4, ReportSaves DEF SaveSuccess, InStep

LEMMA ReportReceipt ==
  ASSUME ReportsInv, NEW p \in Reporters, SaveReceipt(p)
  PROVE  ReportsInv'
  <1>1. OnlyBy(p) /\ ReporterSound(p)' /\ InStep(p, "idle")'
    BY StopsSound DEF SaveReceipt, ReportsInv
  <1>2. /\ Stored' = Stored /\ DOMAIN receipt' = Reports
        /\ UNCHANGED <<policy, inflight, sent, chosen, autonomous, outdated, overwritten>>
    BY KeepsStill DEF SaveReceipt, sendHistory, ReportsInv, ReportsKnown
  <1>3. Forward
    BY <1>2 DEF Forward
  <1>4. ReportsKnown'
    BY <1>1, <1>2, <1>3, KnownAfterStep DEF ReportsInv
  <1>5. (overwritten \/ CopiesAgree)'
    BY <1>1, <1>2, CopiesStay DEF ReportsInv
  <1>6. reporter[p].copy.transport = "api" => reporter[p].remote \in Stored
    BY DEF SaveReceipt, ReportsInv, ReportsKnown, ReporterSound
  <1>7. ReceiptsNameReports'
    <2>1. SUFFICES ASSUME NEW r \in Reports, receipt'[r] # NoReceiptYet, receipt'[r].transport = "api"
                   PROVE  receipt'[r].remote \in Stored'
      BY DEF ReceiptsNameReports, Stored
    <2>2. CASE receipt'[r] = receipt[r]
      BY <1>2, <2>1, <2>2 DEF ReportsInv, ReceiptsNameReports, Stored
    <2>3. CASE receipt'[r] # receipt[r]
      <3>1. receipt'[r] = [transport |-> reporter[p].copy.transport, remote |-> reporter[p].remote]
        BY <2>3 DEF SaveReceipt, ReportsInv, ReportsKnown
      <3>2. QED
        BY <1>2, <1>6, <2>1, <3>1
    <2>4. QED
      BY <2>2, <2>3
  <1>8. UnapprovedOnlyIfChosen'
    BY <1>2 DEF ReportsInv, UnapprovedOnlyIfChosen
  <1>9. QED
    BY <1>4, <1>5, <1>7, <1>8 DEF ReportsInv

LEMMA ReportGivesUp ==
  ASSUME ReportsInv, NEW p \in Reporters, GiveUp(p)
  PROVE  ReportsInv'
  <1>1. /\ OnlyBy(p) /\ reporter'[p].step = "failed"
        /\ reporter'[p].copy = reporter[p].copy /\ reporter'[p].command = reporter[p].command
    BY MovesOn DEF GiveUp, ReportsInv
  <1>2. Stored' = Stored /\ UNCHANGED <<policy, inflight, receipt, sent, chosen, autonomous, outdated, overwritten>>
    BY KeepsStill DEF GiveUp, sendHistory
  <1>3. Forward
    BY <1>2 DEF Forward
  <1>4. ReportsKnown' /\ (overwritten \/ CopiesAgree)'
    BY <1>1, <1>2, <1>3, ReportMoves DEF GiveUp, ReportsInv, InStep, ReporterSteps
  <1>5. QED
    BY <1>2, <1>3, <1>4, HistoryStays DEF ReportsInv

LEMMA ReportsBegin == ReportInit => ReportsInv
  <1> SUFFICES ASSUME ReportInit PROVE ReportsInv
    OBVIOUS
  <1>2. \A p \in Reporters : reporter[p] = IdleReporter
    BY DEF ReportInit
  <1>3. \A p \in Reporters : ReporterSound(p) /\ DOMAIN reporter[p] = ReporterFields /\ InStep(p, "idle")
    BY <1>2 DEF ReporterSound, IdleReporter, NoCommand, ReporterSteps, ReporterFields, InStep
  <1>4. policy = NoPolicy \/ policy = LegacyPolicy
    BY DEF ReportInit
  <1>5. policy # NoPolicy => Allowed(policy)
    BY <1>4 DEF LegacyPolicy, Allowed, Policies, Modes, Transports
  <1>6. ReportsKnown
    BY <1>3, <1>5 DEF ReportInit, ReportsKnown
  <1>7. ReceiptsNameReports /\ UnapprovedOnlyIfChosen
    BY DEF ReportInit, ReceiptsNameReports, UnapprovedOnlyIfChosen
  <1>8. CopiesAgree
    BY <1>3 DEF ReportInit, CopiesAgree
  <1>9. QED
    BY <1>6, <1>7, <1>8 DEF ReportsInv

LEMMA ReporterGoesOn ==
  ASSUME ReportsInv, NEW p \in Reporters,
         \/ \E c \in Configures \cup Prepares \cup Submits : Load(p, c)
         \/ CreatePolicy(p) \/ Configure(p) \/ Prepare(p) \/ CheckConsent(p)
         \/ \E public, made, answer \in BOOLEAN : SendGitHub(p, public, made, answer)
         \/ PostReport(p) \/ GiveUp(p) \/ SaveFailure(p) \/ SaveSuccess(p) \/ SaveReceipt(p)
         \/ ReporterDies(p)
         \/ \E r \in Reports : RemoteDelete(p, r)
  PROVE  ReportsInv'
  <1>1. ASSUME Prepare(p) \/ ReporterDies(p) PROVE ReportsInv'
    BY <1>1, ReportEnds, KeepsStill DEF Prepare, ReporterDies, sendHistory
  <1>2. ASSUME NEW r \in Reports, RemoteDelete(p, r) PROVE ReportsInv'
    BY <1>2, OwnerGrows, ReportIdles DEF RemoteDelete, clientVars, sendHistory, Forward
  <1>3. QED
    BY <1>1, <1>2, ReportLoad, ReportCreate, ReportConfigure, ReportConsent, ReportGitHub,
       ReportPost, ReportGivesUp, ReportFails, ReportDelivered, ReportReceipt

LEMMA ReportsStep == ReportsInv /\ [ReportNext]_reportVars => ReportsInv'
  <1>1. SUFFICES ASSUME ReportsInv, [ReportNext]_reportVars PROVE ReportsInv'
    OBVIOUS
  <1>2. ASSUME NEW request \in inflight, LoseRequest(request) PROVE ReportsInv'
    BY <1>1, <1>2, KeepsStill, ReportIdles DEF LoseRequest, sendHistory, Forward
  <1>3. ASSUME NEW request \in inflight,
               \E refused, delivered \in BOOLEAN : HandlePost(request, refused, delivered)
        PROVE  ReportsInv'
    BY <1>1, <1>3, ReportHandle
  <1>4. CASE Owner
    <2>1. Stored \subseteq Stored'
      BY <1>4, OwnerGrows DEF Owner
    <2>2. QED
      BY <1>1, <1>4, <2>1, ReportIdles DEF Owner, clientVars, sendHistory, Forward
  <1>5. CASE UNCHANGED reportVars
    BY <1>1, <1>5, KeepsStill, ReportIdles DEF reportVars, clientVars, sendHistory, Forward
  <1>6. QED
    BY <1>1, <1>2, <1>3, <1>4, <1>5, ReporterGoesOn DEF ReportNext

LEMMA ReportsHold == ReportSpec => []ReportsInv
  BY ReportsBegin, ReportsStep, PTL DEF ReportSpec

\* An API receipt names a report that the server stored: whatever is lost,
\* late, deduplicated or refused between HandlePost and SaveReceipt.
THEOREM ReceiptsNameStoredReports == ReportSpec => []ReceiptsNameReports
<1>1. ReportsInv => ReceiptsNameReports
  BY DEF ReportsInv
<1> QED BY <1>1, ReportsHold, PTL

\* Without an approval nothing is handed to a transport but what a configure
\* of this device let go to the private service.
THEOREM UnapprovedReportsWereChosen == ReportSpec => []UnapprovedOnlyIfChosen
<1>1. ReportsInv => UnapprovedOnlyIfChosen
  BY DEF ReportsInv
<1> QED BY <1>1, ReportsHold, PTL

\* The policy on file has the mode of the last configure, unless a command
\* that loaded it before that configure has since written an older mode back.
THEOREM ChoicesAreKept == ReportSpec => []ChoiceStandsUnlessOverwritten
<1>1. ReportsInv => ChoiceStandsUnlessOverwritten
  BY DEF ReportsInv, CopiesAgree, ChoiceStandsUnlessOverwritten
<1> QED BY <1>1, ReportsHold, PTL

-----------------------------------------------------------------------------
(* The table of the server, and the types.                                 *)

\* A submission stores a report only if its principal has none of the same
\* content, and keeps what is fresh.
LEMMA StoreTyped ==
  ASSUME ServerTypeOK, NEW principal \in Principals, NEW report \in Reports,
         StoreReport(principal, report)
  PROVE  ServerTypeOK'
  <1>1. removed' \subseteq Reports
    BY DEF ServerTypeOK, StoreReport
  <1>2. \A r \in DOMAIN rows' :
           \/ r \in Fresh /\ rows'[r] = rows[r]
           \/ /\ r = report /\ Twins(principal, report) = {}
              /\ rows'[r] = [principal |-> principal, status |-> "received", old |-> FALSE]
    BY DEF StoreReport, Put, Restrict
  <1>3. Fresh \subseteq DOMAIN rows
    BY DEF Fresh
  <1>4. \A r \in DOMAIN rows' :
           r \in Reports /\ rows'[r].principal \in Principals /\ rows'[r].status \in ReportStatuses
    BY <1>2, <1>3 DEF ServerTypeOK, ReportStatuses
  <1>5. ASSUME NEW r \in DOMAIN rows', NEW t \in DOMAIN rows',
               rows'[r].principal = rows'[t].principal, Fingerprint[r] = Fingerprint[t]
        PROVE  r = t
    <2>1. CASE r \in Fresh /\ rows'[r] = rows[r] /\ t \in Fresh /\ rows'[t] = rows[t]
      BY <1>3, <1>5, <2>1 DEF ServerTypeOK
    <2>2. CASE r = report /\ t = report
      BY <2>2
    <2>3. CASE r = report /\ t \in Fresh /\ rows'[t] = rows[t] /\ rows'[r].principal = principal
               /\ Twins(principal, report) = {}
      BY <1>5, <2>3 DEF Twins
    <2>4. CASE t = report /\ r \in Fresh /\ rows'[r] = rows[r] /\ rows'[t].principal = principal
               /\ Twins(principal, report) = {}
      BY <1>5, <2>4 DEF Twins
    <2>5. QED
      BY <1>2, <2>1, <2>2, <2>3, <2>4
  <1>6. QED
    BY <1>1, <1>4, <1>5 DEF ServerTypeOK

\* A table whose rows only become fewer, older or of another status.
LEMMA ServerTyped ==
  ASSUME ServerTypeOK, removed' \subseteq Reports,
         \A q \in DOMAIN rows' : /\ q \in DOMAIN rows /\ rows'[q].principal = rows[q].principal
                                 /\ rows'[q].status \in ReportStatuses
  PROVE  ServerTypeOK'
  BY DEF ServerTypeOK

LEMMA DeleteTyped ==
  ASSUME ServerTypeOK, NEW r \in Reports, NEW principal, DeleteReport(r, principal)
  PROVE  ServerTypeOK'
  BY ServerTyped DEF DeleteReport, Drop, Restrict, ServerTypeOK

LEMMA RestartTyped ==
  ASSUME ServerTypeOK, Restart PROVE ServerTypeOK'
  BY ServerTyped DEF Restart, Restrict, Fresh, ServerTypeOK

LEMMA AgeTyped ==
  ASSUME ServerTypeOK, NEW r, Age(r) PROVE ServerTypeOK'
  <1>1. DOMAIN rows' = DOMAIN rows /\ removed' = removed
    BY DEF Age
  <1>2. ASSUME NEW q \in DOMAIN rows
        PROVE  rows'[q].principal = rows[q].principal /\ rows'[q].status = rows[q].status
    BY DEF Age
  <1>3. QED
    BY <1>1, <1>2, ServerTyped DEF ServerTypeOK

LEMMA UpdateTyped ==
  ASSUME ServerTypeOK, NEW r, NEW status \in Triage, NEW version, UpdateReport(r, status, version)
  PROVE  ServerTypeOK'
  <1>1. DOMAIN rows' = DOMAIN rows /\ removed' = removed
    BY DEF UpdateReport
  <1>2. ASSUME NEW q \in DOMAIN rows
        PROVE  rows'[q].principal = rows[q].principal /\ rows'[q].status \in {rows[q].status, status}
    BY DEF UpdateReport
  <1>3. QED
    BY <1>1, <1>2, ServerTyped, ReportAssumption DEF ServerTypeOK

\* A command names a report of the installation, and a submit is a submit.
CommandsNamed ==
  \A p \in Reporters : ~InStep(p, "idle") =>
    /\ reporter[p].command \in Configures \cup Prepares \cup Submits
    /\ InStep(p, "send") => reporter[p].command \in Submits

ReportTypes == ServerTypeOK /\ DOMAIN outbox \subseteq Reports /\ CommandsNamed
               /\ \A q \in inflight : q.report \in Reports

\* Who goes on with its command, other than to send.
LEMMA CommandGoesOn ==
  ASSUME ReportsKnown, CommandsNamed, NEW p \in Reporters, OnlyBy(p),
         \/ InStep(p, "idle")'
         \/ ~InStep(p, "idle") /\ reporter'[p].command = reporter[p].command
            /\ (InStep(p, "send")' => reporter[p].command \in Submits)
  PROVE  CommandsNamed'
  <1>1. SUFFICES ASSUME NEW q \in Reporters, ~InStep(q, "idle")'
                 PROVE  /\ reporter'[q].command \in Configures \cup Prepares \cup Submits
                        /\ InStep(q, "send")' => reporter'[q].command \in Submits
    BY DEF CommandsNamed
  <1>2. CASE q = p
    BY <1>1, <1>2 DEF CommandsNamed
  <1>3. CASE q # p
    BY <1>1, <1>3 DEF CommandsNamed, OnlyBy, InStep
  <1>4. QED
    BY <1>2, <1>3

LEMMA TypesStop ==
  ASSUME ReportsKnown, ReportTypes, NEW p \in Reporters, Stops(p), UNCHANGED <<rows, removed, inflight>>,
         DOMAIN outbox' \subseteq Reports
  PROVE  ReportTypes'
  BY StopsSound, CommandGoesOn DEF ReportTypes, ServerTypeOK

LEMMA TypesMove ==
  ASSUME ReportsKnown, ReportTypes, NEW p \in Reporters, NEW step, Moves(p, step),
         ~InStep(p, "idle"), step # "send" \/ reporter[p].command \in Submits, UNCHANGED <<rows, removed, outbox>>,
         \A q \in inflight' : q \in inflight \/ q.report \in Reports
  PROVE  ReportTypes'
  BY MovesOn, CommandGoesOn DEF ReportTypes, ServerTypeOK, InStep

LEMMA TypesHandle ==
  ASSUME ReportsKnown, ReportTypes, NEW request \in inflight, NEW refused \in BOOLEAN,
         NEW delivered \in BOOLEAN, HandlePost(request, refused, delivered)
  PROVE  ReportTypes'
  <1>1. request.from \in Reporters /\ request.report \in Reports
    BY DEF ReportsKnown, ReportTypes
  <1>2. ServerTypeOK'
    <2>1. CASE refused
      BY <2>1 DEF HandlePost, serverVars, ReportTypes, ServerTypeOK
    <2>2. CASE ~refused
      BY <1>1, <2>2, StoreTyped, ReportAssumption DEF HandlePost, ReportTypes
    <2>3. QED
      BY <2>1, <2>2
  <1>3. CommandsNamed'
    <2>1. CASE reporter' = reporter
      BY <2>1 DEF ReportTypes, CommandsNamed, InStep
    <2>2. CASE reporter' # reporter
      <3>1. PICK p \in Reporters : p = request.from
        BY <1>1
      <3>2. PICK remote :
              /\ InStep(p, "waiting")
              /\ \/ Moves(p, "failed")
                 \/ reporter' = [reporter EXCEPT ![p].step = "sent", ![p].remote = remote]
        BY <2>2, <3>1 DEF HandlePost
      <3>3. /\ OnlyBy(p) /\ reporter'[p].step # "send"
            /\ reporter'[p].command = reporter[p].command
        <4>1. CASE Moves(p, "failed")
          BY <4>1, MovesOn
        <4>2. CASE reporter' = [reporter EXCEPT ![p].step = "sent", ![p].remote = remote]
          BY <4>2 DEF ReportsKnown, OnlyBy, ReporterFields
        <4>3. QED
          BY <3>2, <4>1, <4>2
      <3>4. QED
        BY <3>2, <3>3, CommandGoesOn DEF ReportTypes, InStep
    <2>3. QED
      BY <2>1, <2>2
  <1>4. QED
    BY <1>2, <1>3 DEF HandlePost, ReportTypes

LEMMA TypesGoOn ==
  ASSUME ReportsKnown, ReportTypes, NEW p \in Reporters,
         \/ \E c \in Configures \cup Prepares \cup Submits : Load(p, c)
         \/ CreatePolicy(p) \/ Configure(p) \/ Prepare(p) \/ CheckConsent(p)
         \/ \E public, made, answer \in BOOLEAN : SendGitHub(p, public, made, answer)
         \/ PostReport(p) \/ GiveUp(p) \/ SaveFailure(p) \/ SaveSuccess(p) \/ SaveReceipt(p)
         \/ ReporterDies(p)
  PROVE  ReportTypes'
  <1>1. ASSUME NEW c \in Configures \cup Prepares \cup Submits, Load(p, c) PROVE ReportTypes'
    <2>1. OnlyBy(p) /\ reporter'[p].command = c /\ reporter'[p].step # "send"
      BY <1>1 DEF Load, ReportsKnown, OnlyBy, ReporterFields, IdleReporter
    <2>2. CommandsNamed'
      <3>1. SUFFICES ASSUME NEW q \in Reporters, ~InStep(q, "idle")'
                     PROVE  /\ reporter'[q].command \in Configures \cup Prepares \cup Submits
                            /\ InStep(q, "send")' => reporter'[q].command \in Submits
        BY DEF CommandsNamed
      <3>2. CASE q = p
        BY <2>1, <3>2 DEF InStep
      <3>3. CASE q # p
        BY <2>1, <3>1, <3>3 DEF CommandsNamed, ReportTypes, OnlyBy, InStep
      <3>4. QED
        BY <3>2, <3>3
    <2>3. QED
      BY <1>1, <2>2 DEF Load, ReportTypes, ServerTypeOK, serverVars
  <1>2. CASE Configure(p) \/ SaveFailure(p) \/ SaveReceipt(p) \/ ReporterDies(p)
    BY <1>2, TypesStop DEF Configure, SaveFailure, SaveReceipt, ReporterDies, serverVars, ReportTypes
  <1>3. CASE Prepare(p)
    <2>1. reporter[p].command \in Prepares
      BY <1>3 DEF Prepare, ReportTypes, CommandsNamed, InStep, Configures, Submits
    <2>2. DOMAIN outbox' \subseteq Reports
      BY <1>3, <2>1 DEF Prepare, Put, Prepares, ReportTypes
    <2>3. QED
      BY <1>3, <2>2, TypesStop DEF Prepare, serverVars
  <1>4. CASE CreatePolicy(p) \/ GiveUp(p) \/ SaveSuccess(p)
    BY <1>4, TypesMove DEF CreatePolicy, GiveUp, SaveSuccess, serverVars, InStep, ReportTypes
  <1>5. CASE CheckConsent(p)
    <2>1. reporter[p].command \in Submits
      BY <1>5 DEF CheckConsent, ReportTypes, CommandsNamed, InStep, Configures, Prepares
    <2>2. QED
      BY <1>5, <2>1, TypesMove, TypesStop DEF CheckConsent, serverVars, InStep, ReportTypes
  <1>6. ASSUME NEW public \in BOOLEAN, NEW made \in BOOLEAN, NEW answer \in BOOLEAN,
               SendGitHub(p, public, made, answer)
        PROVE  ReportTypes'
    <2>1. /\ OnlyBy(p) /\ reporter'[p].step # "send" /\ reporter'[p].command = reporter[p].command
      <3>1. \/ Moves(p, "failed")
            \/ reporter' = [reporter EXCEPT ![p].step = "sent", ![p].remote = reporter[p].command.report]
        BY <1>6 DEF SendGitHub
      <3>2. CASE Moves(p, "failed")
        BY <3>2, MovesOn
      <3>3. CASE reporter' = [reporter EXCEPT ![p].step = "sent", ![p].remote = reporter[p].command.report]
        BY <3>3 DEF ReportsKnown, OnlyBy, ReporterFields
      <3>4. QED
        BY <3>1, <3>2, <3>3
    <2>2. CommandsNamed'
      BY <1>6, <2>1, CommandGoesOn DEF SendGitHub, InStep, ReportTypes
    <2>3. QED
      BY <1>6, <2>2 DEF SendGitHub, serverVars, ReportTypes, ServerTypeOK
  <1>7. CASE PostReport(p)
    <2>1. reporter[p].command.report \in Reports
      BY <1>7 DEF PostReport, ReportTypes, CommandsNamed, InStep, Submits
    <2>2. QED
      BY <1>7, <2>1, TypesMove DEF PostReport, serverVars, InStep
  <1>8. QED
    BY <1>1, <1>2, <1>3, <1>4, <1>5, <1>6, <1>7

LEMMA TypesStep == ReportsInv /\ ReportTypes /\ [ReportNext]_reportVars => ReportTypes'
  <1> SUFFICES ASSUME ReportsInv, ReportTypes, [ReportNext]_reportVars PROVE ReportTypes'
    OBVIOUS
  <1>1. ReportsKnown
    BY DEF ReportsInv
  <1>2. ASSUME ServerTypeOK', UNCHANGED <<reporter, outbox>>, inflight' \subseteq inflight
        PROVE  ReportTypes'
    BY <1>2 DEF ReportTypes, CommandsNamed, InStep
  <1>3. ASSUME NEW p \in Reporters, NEW r \in Reports, RemoteDelete(p, r) PROVE ReportTypes'
    <2>1. DeleteReport(r, TokenOf[p]) /\ UNCHANGED <<reporter, outbox, inflight>>
      BY <1>3 DEF RemoteDelete, clientVars
    <2>2. QED
      BY <1>2, <2>1, DeleteTyped DEF ReportTypes
  <1>4. ASSUME NEW request \in inflight, LoseRequest(request) PROVE ReportTypes'
    BY <1>2, <1>4 DEF LoseRequest, serverVars, ReportTypes, ServerTypeOK
  <1>5. ASSUME NEW request \in inflight,
               \E refused, delivered \in BOOLEAN : HandlePost(request, refused, delivered)
        PROVE  ReportTypes'
    BY <1>1, <1>5, TypesHandle
  <1>6. CASE Owner
    <2>1. UNCHANGED <<reporter, outbox, inflight>>
      BY <1>6 DEF Owner, clientVars
    <2>2. ServerTypeOK'
      <3>1. ASSUME NEW r \in Reports, DeleteReport(r, Admin) \/ Age(r) PROVE ServerTypeOK'
        BY <3>1, DeleteTyped, AgeTyped DEF ReportTypes
      <3>2. ASSUME NEW r \in Reports, NEW status \in Triage, NEW version \in BOOLEAN,
                   UpdateReport(r, status, version)
            PROVE  ServerTypeOK'
        BY <3>2, UpdateTyped DEF ReportTypes
      <3>3. QED
        BY <1>6, <3>1, <3>2, RestartTyped DEF Owner, ReportTypes
    <2>3. QED
      BY <1>2, <2>1, <2>2
  <1>7. CASE UNCHANGED reportVars
    BY <1>2, <1>7 DEF reportVars, serverVars, clientVars, ReportTypes, ServerTypeOK
  <1>8. QED
    BY <1>1, <1>3, <1>4, <1>5, <1>6, <1>7, TypesGoOn DEF ReportNext

\* The files of the device and the table are well formed; in the table a
\* principal has no two reports of the same content.
THEOREM ReportTypeCorrect == ReportSpec => []ReportTypeOK
<1>1. ReportInit => ReportTypes
  <2> SUFFICES ASSUME ReportInit PROVE ReportTypes
    OBVIOUS
  <2>1. ServerTypeOK
    BY DEF ReportInit, ServerInit, ServerTypeOK
  <2>2. CommandsNamed
    BY DEF ReportInit, CommandsNamed, InStep, IdleReporter
  <2>3. QED
    BY <2>1, <2>2 DEF ReportInit, ReportTypes
<1>2. ReportsInv /\ ReportTypes => ReportTypeOK
  <2> SUFFICES ASSUME ReportsInv, ReportTypes PROVE ReportTypeOK
    OBVIOUS
  <2>1. policy \in Policies \cup {NoPolicy}
    BY DEF ReportsInv, ReportsKnown, Allowed
  <2>2. ASSUME NEW p \in Reporters
        PROVE  reporter[p].step \in ReporterSteps /\ (reporter[p].copy = NoPolicy <=> InStep(p, "idle"))
    BY ReportAssumption DEF ReportsInv, ReportsKnown, ReporterSound, Allowed
  <2>3. QED
    BY <2>1, <2>2 DEF ReportTypeOK, ReportTypes, ReportsInv, ReportsKnown, ReporterSteps
<1> QED BY <1>1, <1>2, ReportsHold, TypesStep, PTL DEF ReportSpec

-----------------------------------------------------------------------------
(* Installation analytics.                                                 *)

PolicyFields == {"mode", "prompted", "installation", "sent", "pending"}
ClientFields == {"step", "command", "copy", "event"}

\* A policy that validate_policy loads, and whose history is true.
Sound(x) ==
  /\ DOMAIN x = PolicyFields /\ x.mode \in {"unconfigured", "on", "off"}
  /\ x.installation \in 1 .. minted \/ x.installation = NoInstallation
  /\ x.mode = "on" => x.installation \in 1 .. minted
  /\ x.pending # NoEvent =>
       /\ x.pending.installation = x.installation /\ x.pending.id \in 1 .. built
       /\ x.installation \in 1 .. minted
  /\ x.sent # NoVersion =>
       x.installation \in 1 .. minted /\ <<x.installation, x.sent>> \in recorded

Sending == {"send", "waiting", "failed", "recorded"}

\* What a command knows: its copy was sound, its event is the pending one of
\* its copy, and what it was told is in the history.
ClientKnown(c) ==
  /\ client[c].step \in {"idle", "loaded", "erased"} \cup Sending
  /\ ~In(c, "idle") => Sound(client[c].copy)
  /\ client[c].step \in Sending =>
       /\ client[c].event.installation = client[c].copy.installation
       /\ client[c].event.id \in 1 .. built /\ client[c].copy.installation \in 1 .. minted
  /\ In(c, "recorded") =>
       <<client[c].copy.installation, client[c].event.version>> \in recorded
  /\ In(c, "erased") => client[c].copy.installation \in 1 .. minted

AnalyticsKnown ==
  /\ minted \in Nat /\ built \in Nat
  /\ DOMAIN client = Clients /\ (\A c \in Clients : DOMAIN client[c] = ClientFields)
  /\ Sound(consent) /\ \A c \in Clients : ClientKnown(c)
  /\ \A q \in requests :
       /\ q.from \in Clients
       /\ q.event.installation \in 1 .. minted /\ q.event.id \in 1 .. built

-----------------------------------------------------------------------------
(* The client's side.                                                      *)

\* Ids and what was recorded only grow.
LEMMA SoundGrows ==
  ASSUME AnalyticsKnown, NEW x, Sound(x), minted' \in Nat, minted <= minted',
         built' \in Nat, built <= built', recorded \subseteq recorded'
  PROVE  Sound(x)'
  BY DEF AnalyticsKnown, Sound

Grows ==
  /\ minted' \in Nat /\ minted <= minted' /\ built' \in Nat /\ built <= built'
  /\ recorded \subseteq recorded'

Others(c) ==
  /\ DOMAIN client' = Clients /\ DOMAIN client'[c] = ClientFields
  /\ \A d \in Clients \ {c} : client'[d] = client[d]

RequestsKnown ==
  \A q \in requests :
    /\ q.from \in Clients
    /\ q.event.installation \in 1 .. minted /\ q.event.id \in 1 .. built

LEMMA ClientGrows ==
  ASSUME AnalyticsKnown, Grows, NEW d \in Clients, client'[d] = client[d]
  PROVE  ClientKnown(d)'
  <1>1. ~In(d, "idle") => Sound(client[d].copy)'
    BY SoundGrows DEF AnalyticsKnown, ClientKnown, Grows
  <1>2. QED
    BY <1>1 DEF AnalyticsKnown, ClientKnown, Grows, Sending, In, Sound

LEMMA KnownAfter ==
  ASSUME AnalyticsKnown, Grows, NEW c \in Clients, Others(c), ClientKnown(c)',
         consent' = consent \/ Sound(consent)', RequestsKnown'
  PROVE  AnalyticsKnown'
  <1>1. Sound(consent)'
    <2>1. CASE consent' = consent
      BY <2>1, SoundGrows DEF AnalyticsKnown, Grows, Sound
    <2>2. QED
      BY <2>1
  <1>2. \A d \in Clients : ClientKnown(d)'
    BY ClientGrows DEF Others
  <1>3. \A d \in Clients : DOMAIN client'[d] = ClientFields
    BY DEF Others, AnalyticsKnown
  <1>4. QED
    BY <1>1, <1>2, <1>3 DEF AnalyticsKnown, Grows, Others, RequestsKnown

LEMMA DoneLeaves ==
  ASSUME AnalyticsKnown, NEW c \in Clients, Done(c)
  PROVE  /\ Others(c) /\ client'[c] = IdleClient /\ ClientKnown(c)'
         /\ \A step : In(c, step)' => step = "idle"
  <1>1. client'[c] = IdleClient /\ Others(c)
    BY DEF Done, AnalyticsKnown, Others, IdleClient, ClientFields
  <1>2. QED
    BY <1>1 DEF ClientKnown, IdleClient, In, Sending

LEMMA AdvanceLeaves ==
  ASSUME AnalyticsKnown, NEW c \in Clients, NEW step, Advance(c, step)
  PROVE  /\ Others(c) /\ client'[c].step = step /\ client'[c].copy = client[c].copy
         /\ client'[c].event = client[c].event
  BY DEF Advance, AnalyticsKnown, Others, ClientFields

\* A step of a client that is past sending keeps what it knows, recorded or not.
LEMMA StepsOn ==
  ASSUME AnalyticsKnown, Grows, NEW c \in Clients, client[c].step \in Sending,
         client'[c].step \in Sending, client'[c].copy = client[c].copy,
         client'[c].event = client[c].event,
         client'[c].step = "recorded" =>
           <<client[c].copy.installation, client[c].event.version>> \in recorded'
  PROVE  ClientKnown(c)'
  <1>1. Sound(client[c].copy)'
    BY SoundGrows DEF AnalyticsKnown, ClientKnown, Grows, In, Sending
  <1>2. QED
    BY <1>1 DEF AnalyticsKnown, ClientKnown, Grows, Sending, In, Sound

-----------------------------------------------------------------------------
(* The kinds of steps.                                                     *)

\* A command under way as its id was erased is counted once it writes it.
Counted(c) ==
  c \in behind /\ Erased(client[c].copy.installation) => client[c].copy.installation \in revived'

\* A command writes the policy, or leaves it, and ends.
Ends(c) ==
  /\ Done(c) /\ ~In(c, "idle")  /\ Grows /\ Sound(consent)'
  /\ \/ consent' = consent
     \/ consent'.installation = client[c].copy.installation /\ ~In(c, "erased") /\ Counted(c)
     \/ consent'.installation \notin 1 .. minted
  /\ IF In(c, "erased")
     THEN /\ EraseOver(c)
          /\ consent'.installation = client[c].copy.installation =>
               consent'.installation \in revived' \/ consent'.installation \notin 1 .. minted
     ELSE UNCHANGED <<behind, sealed>>
  /\ revived \subseteq revived'
  /\ UNCHANGED <<requests, installs, events, recorded, erased>>

Plain(c, command) ==
  /\ AnalyticsKnown /\ c \in Clients /\ Doing(c, command) /\ Done(c)
  /\ UNCHANGED <<built, package, requests, installs, events, recorded, erased, behind, sealed>>

LEMMA WriteCounts ==
  ASSUME NEW c, NEW copy, WriteBack(c, copy)
  PROVE  /\ consent' = copy /\ revived \subseteq revived'
         /\ copy.installation = client[c].copy.installation => Counted(c)
  BY DEF WriteBack, Counted

LEMMA PlainCopy ==
  ASSUME NEW c, NEW command, Plain(c, command)
  PROVE  /\ Sound(client[c].copy) /\ ~In(c, "idle") /\ ~In(c, "erased")
         /\ minted' = minted => Grows
  <1>1. client[c].step = "loaded" /\ ClientKnown(c)
    BY DEF Plain, Doing, In, AnalyticsKnown
  <1>2. Sound(client[c].copy) /\ ~In(c, "idle") /\ ~In(c, "erased")
    BY <1>1 DEF ClientKnown, In
  <1>3. /\ built' = built /\ recorded' = recorded /\ minted \in Nat /\ built \in Nat
    BY DEF Plain, AnalyticsKnown
  <1>4. QED
    BY <1>2, <1>3 DEF Grows

LEMMA PromptEnds ==
  ASSUME AnalyticsKnown, NEW c \in Clients, Prompt(c)
  PROVE  Ends(c)
  <1>1. Plain(c, "prompt") /\ minted' = minted
    BY DEF Prompt, Plain, serviceVars, eraseHistory
  <1>2. \/ consent' = consent /\ revived' = revived
        \/ WriteBack(c, [client[c].copy EXCEPT !.prompted = TRUE])
    BY DEF Prompt
  <1>3. CASE consent' = consent /\ revived' = revived
    <2>1. Sound(consent)'
      BY <1>1, <1>3 DEF Sound, Plain, AnalyticsKnown
    <2>2. QED
      BY <1>1, <1>3, <2>1, PlainCopy DEF Ends, Plain
  <1>4. CASE WriteBack(c, [client[c].copy EXCEPT !.prompted = TRUE])
    <2>1. consent' = [client[c].copy EXCEPT !.prompted = TRUE] /\ revived \subseteq revived'
      BY <1>4, WriteCounts
    <2>2. Sound(consent)' /\ consent'.installation = client[c].copy.installation
      BY <1>1, <2>1, PlainCopy DEF Sound, PolicyFields, Plain, AnalyticsKnown
    <2>3. Counted(c)
      BY <1>4, <2>1, <2>2, WriteCounts
    <2>4. QED
      BY <1>1, <2>1, <2>2, <2>3, PlainCopy DEF Ends, Plain
  <1>5. QED
    BY <1>2, <1>3, <1>4

LEMMA EnableEnds ==
  ASSUME AnalyticsKnown, NEW c \in Clients, EnableAnalytics(c)
  PROVE  Ends(c)
  <1> DEFINE copy == client[c].copy
             fresh == copy.installation = NoInstallation
  <1>1. Plain(c, "enable")
    BY DEF EnableAnalytics, Plain, serviceVars, eraseHistory
  <1>2. /\ Sound(copy) /\ ~In(c, "idle") /\ ~In(c, "erased") /\ minted \in Nat /\ built \in Nat
        /\ built' = built /\ recorded' = recorded
    BY <1>1, PlainCopy DEF Plain, AnalyticsKnown
  <1>3. CASE fresh
    <2>1. /\ minted' = minted + 1
          /\ consent' = [copy EXCEPT !.mode = "on", !.prompted = TRUE, !.installation = minted + 1]
          /\ revived \subseteq revived'
      BY <1>3 DEF EnableAnalytics, WriteBack
    <2>2. copy.pending = NoEvent /\ copy.sent = NoVersion
      BY <1>2, <1>3, AnalyticsAssumption DEF Sound
    <2>3. /\ DOMAIN consent' = PolicyFields /\ consent'.installation = minted + 1
          /\ consent'.mode = "on" /\ consent'.pending = NoEvent /\ consent'.sent = NoVersion
      BY <1>2, <2>1, <2>2 DEF Sound, PolicyFields
    <2>4. Sound(consent)' /\ Grows
      BY <1>2, <2>1, <2>3 DEF Sound, Grows
    <2>5. consent'.installation \notin 1 .. minted
      BY <1>2, <2>3
    <2>6. QED
      BY <1>1, <1>2, <2>1, <2>4, <2>5 DEF Ends, Plain
  <1>4. CASE ~fresh
    <2>1. /\ minted' = minted /\ consent' = [copy EXCEPT !.mode = "on", !.prompted = TRUE]
          /\ WriteBack(c, consent')
      <3>1. minted' = minted
        BY <1>4 DEF EnableAnalytics
      <3>2. WriteBack(c, [copy EXCEPT !.mode = "on", !.prompted = TRUE,
                                      !.installation = copy.installation])
        BY <1>4 DEF EnableAnalytics
      <3>3. consent' = [copy EXCEPT !.mode = "on", !.prompted = TRUE,
                                    !.installation = copy.installation]
        BY <3>2 DEF WriteBack
      <3>4. QED
        BY <1>2, <3>1, <3>2, <3>3 DEF Sound, PolicyFields
    <2>2. /\ DOMAIN consent' = PolicyFields /\ consent'.installation = copy.installation
          /\ consent'.mode = "on" /\ consent'.pending = copy.pending /\ consent'.sent = copy.sent
      BY <1>2, <2>1 DEF Sound, PolicyFields
    <2>3. Sound(consent)' /\ Grows
      BY <1>2, <1>4, <2>1, <2>2 DEF Sound, Grows
    <2>4. Counted(c) /\ revived \subseteq revived'
      BY <2>1, <2>2, WriteCounts
    <2>5. QED
      BY <1>1, <1>2, <2>2, <2>3, <2>4 DEF Ends, Plain
  <1>5. QED
    BY <1>3, <1>4

LEMMA DisableEnds ==
  ASSUME AnalyticsKnown, NEW c \in Clients, DisableAnalytics(c)
  PROVE  Ends(c)
  <1>1. Plain(c, "disable") /\ minted' = minted
    BY DEF DisableAnalytics, Plain, serviceVars, eraseHistory
  <1>2. WriteBack(c, [client[c].copy EXCEPT !.mode = "off", !.prompted = TRUE, !.pending = NoEvent])
    BY DEF DisableAnalytics
  <1>3. /\ consent' = [client[c].copy EXCEPT !.mode = "off", !.prompted = TRUE, !.pending = NoEvent]
        /\ revived \subseteq revived'
    BY <1>2, WriteCounts
  <1>4. Sound(consent)' /\ consent'.installation = client[c].copy.installation
    BY <1>1, <1>3, PlainCopy DEF Sound, PolicyFields, Plain, AnalyticsKnown
  <1>5. Counted(c)
    BY <1>2, <1>3, <1>4, WriteCounts
  <1>6. QED
    BY <1>1, <1>3, <1>4, <1>5, PlainCopy DEF Ends, Plain

\* A retry or an answer writes back the copy, with the event counted or not.
LEMMA OutcomeEnds ==
  ASSUME AnalyticsKnown, NEW c \in Clients, EventFailed(c) \/ EventRecorded(c)
  PROVE  Ends(c)
  <1>1. /\ Done(c) /\ ~In(c, "idle") /\ ~In(c, "erased") /\ Sound(client[c].copy)
        /\ UNCHANGED <<minted, built, requests, installs, events, recorded, erased, behind, sealed>>
    BY DEF EventFailed, EventRecorded, In, AnalyticsKnown, ClientKnown, serviceVars, eraseHistory
  <1>2. Grows
    BY <1>1 DEF Grows, AnalyticsKnown
  <1>3. WriteBack(c, consent')
    BY DEF EventFailed, EventRecorded, WriteBack
  <1>4. Sound(consent)' /\ consent'.installation = client[c].copy.installation
    <2>1. CASE EventFailed(c)
      BY <1>1, <2>1 DEF EventFailed, WriteBack, Sound
    <2>2. CASE EventRecorded(c)
      <3>1. consent' = [client[c].copy EXCEPT !.sent = client[c].event.version, !.pending = NoEvent]
        BY <2>2 DEF EventRecorded, WriteBack, SentVersion
      <3>2. /\ <<client[c].copy.installation, client[c].event.version>> \in recorded
            /\ client[c].copy.installation \in 1 .. minted
        BY <2>2 DEF EventRecorded, AnalyticsKnown, ClientKnown, Sending, In
      <3>3. QED
        BY <1>1, <3>1, <3>2 DEF Sound, PolicyFields
    <2>3. QED
      BY <2>1, <2>2
  <1>5. Counted(c) /\ revived \subseteq revived'
    BY <1>3, <1>4, WriteCounts
  <1>6. QED
    BY <1>1, <1>2, <1>4, <1>5 DEF Ends

LEMMA EraseSavedEnds ==
  ASSUME AnalyticsKnown, NEW c \in Clients, EraseSaved(c)
  PROVE  Ends(c)
  <1>1. /\ Done(c) /\ In(c, "erased") /\ ~In(c, "idle") /\ EraseOver(c)
        /\ UNCHANGED <<minted, built, requests, installs, events, recorded, erased, revived>>
    BY DEF EraseSaved, In, serviceVars
  <1>2. Grows
    BY <1>1 DEF Grows, AnalyticsKnown
  <1>3. Sound(consent)' /\ consent'.installation = NoInstallation
    BY <1>1 DEF EraseSaved, Forgotten, Unconfigured, Sound, PolicyFields
  <1>4. NoInstallation \notin 1 .. minted
    BY AnalyticsAssumption DEF AnalyticsKnown
  <1>5. QED
    BY <1>1, <1>2, <1>3, <1>4 DEF Ends

LEMMA DeathEnds ==
  ASSUME AnalyticsKnown, NEW c \in Clients, ClientDies(c)
  PROVE  Ends(c)
  <1>1. /\ Done(c) /\ ~In(c, "idle") /\ consent' = consent
        /\ UNCHANGED <<minted, built, requests, installs, events, recorded, erased>>
        /\ IF In(c, "erased")
           THEN /\ EraseOver(c)
                /\ consent'.installation = client[c].copy.installation =>
                     consent'.installation \in revived'
           ELSE UNCHANGED <<behind, sealed>>
        /\ revived \subseteq revived'
    BY DEF ClientDies, fileVars, serviceVars
  <1>2. Grows
    BY <1>1 DEF Grows, AnalyticsKnown
  <1>3. Sound(consent)'
    BY <1>1 DEF AnalyticsKnown, Sound
  <1>4. QED
    BY <1>1, <1>2, <1>3 DEF Ends

\* A command goes on: it writes a pending event, or sends it and waits.
GoesOn(c) ==
  /\ Others(c) /\ ClientKnown(c)' /\ Grows
  /\ \/ consent' = consent /\ client[c].step \in Sending /\ client'[c].event = client[c].event
     \/ Sound(consent)' /\ consent'.installation = client[c].copy.installation /\ Counted(c)
  /\ ~In(c, "idle") /\ ~In(c, "erased") /\ ~In(c, "idle")' /\ ~In(c, "erased")'
  /\ client'[c].copy.installation = client[c].copy.installation
  /\ revived \subseteq revived'
  /\ UNCHANGED <<installs, events, erased, behind, sealed, recorded>>
  /\ \A q \in requests' :
       \/ q \in requests
       \/ client[c].step \in Sending /\ q.from = c /\ q.event = client[c].event

LEMMA CheckInGoesOn ==
  ASSUME AnalyticsKnown, NEW c \in Clients, CheckIn(c)
  PROVE  Ends(c) \/ GoesOn(c)
  <1> DEFINE copy == client[c].copy
             event == NextEvent(copy)
  <1>1. /\ client[c].step = "loaded" /\ Sound(copy) /\ ~In(c, "idle") /\ ~In(c, "erased")
        /\ minted \in Nat /\ built \in Nat /\ DOMAIN client = Clients
        /\ DOMAIN client[c] = ClientFields
        /\ UNCHANGED <<package, minted, requests, installs, events, recorded, erased, behind, sealed>>
    BY DEF CheckIn, Doing, In, AnalyticsKnown, ClientKnown, serviceVars, eraseHistory
  <1>2. CASE copy.mode # "on" \/ event = NoEvent
    <2>1. Done(c) /\ UNCHANGED <<consent, built, revived>>
      BY <1>2 DEF CheckIn
    <2>2. Grows /\ Sound(consent)'
      BY <1>1, <2>1 DEF Grows, AnalyticsKnown, Sound
    <2>3. QED
      BY <1>1, <2>1, <2>2 DEF Ends
  <1>3. CASE ~(copy.mode # "on" \/ event = NoEvent)
    <2>0. WriteBack(c, [copy EXCEPT !.pending = event])
      BY <1>3 DEF CheckIn
    <2>1. /\ consent' = [copy EXCEPT !.pending = event]
          /\ built' = IF copy.pending = NoEvent THEN built + 1 ELSE built
          /\ client' = [client EXCEPT ![c].step = "send", ![c].copy = consent', ![c].event = event]
      BY <1>3, <2>0 DEF CheckIn, WriteBack
    <2>2. copy.installation \in 1 .. minted
      BY <1>1, <1>3 DEF Sound
    <2>3. event.installation = copy.installation /\ event.id \in 1 .. built' /\ built' \in Nat
      <3>1. CASE copy.pending # NoEvent
        BY <1>1, <2>1, <3>1 DEF NextEvent, Sound
      <3>2. CASE copy.pending = NoEvent
        <4>1. event = [id |-> built + 1, installation |-> copy.installation, version |-> package]
          BY <1>3, <3>2 DEF NextEvent
        <4>2. QED
          BY <1>1, <2>1, <3>2, <4>1
      <3>3. QED
        BY <3>1, <3>2
    <2> HIDE DEF event
    <2>4. /\ DOMAIN consent' = PolicyFields /\ consent'.mode = "on" /\ consent'.pending = event
          /\ consent'.installation = copy.installation /\ consent'.sent = copy.sent
      BY <1>1, <1>3, <2>1 DEF Sound, PolicyFields
    <2>5. Sound(consent)' /\ Grows
      BY <1>1, <2>1, <2>2, <2>3, <2>4 DEF Sound, Grows
    <2>6. /\ Others(c) /\ client'[c].step = "send" /\ client'[c].copy = consent'
          /\ client'[c].event = event
      BY <1>1, <2>1 DEF Others, ClientFields
    <2>7. Sound(client[c].copy)'
      BY <2>5, <2>6 DEF Sound
    <2>8. ClientKnown(c)'
      BY <1>1, <2>2, <2>3, <2>4, <2>6, <2>7 DEF ClientKnown, Sending, In
    <2>9. Counted(c) /\ revived \subseteq revived'
      BY <2>0, <2>1, <2>4, WriteCounts
    <2>10. QED
      BY <1>1, <2>4, <2>5, <2>6, <2>8, <2>9 DEF GoesOn, In
  <1>4. QED
    BY <1>2, <1>3

LEMMA SendGoesOn ==
  ASSUME AnalyticsKnown, NEW c \in Clients, SendEvent(c) \/ EventGivesUp(c)
  PROVE  GoesOn(c)
  <1>1. /\ consent' = consent /\ client[c].step \in {"send", "waiting"}
        /\ UNCHANGED <<package, minted, built, installs, events, recorded, erased, behind, sealed,
                       revived>>
        /\ Advance(c, "waiting") \/ Advance(c, "failed")
    BY DEF SendEvent, EventGivesUp, In, fileVars, serviceVars, analyticsHistory, eraseHistory
  <1>2. /\ Others(c) /\ client'[c].step \in {"waiting", "failed"}
        /\ client'[c].copy = client[c].copy /\ client'[c].event = client[c].event
    BY <1>1, AdvanceLeaves
  <1>3. Grows
    BY <1>1 DEF Grows, AnalyticsKnown
  <1>4. ClientKnown(c)'
    BY <1>1, <1>2, <1>3, StepsOn DEF Sending
  <1>5. \A q \in requests' : q \in requests \/ q = [from |-> c, event |-> client[c].event]
    BY DEF SendEvent, EventGivesUp, serviceVars
  <1>6. \A q \in requests' : q \in requests \/ (q.from = c /\ q.event = client[c].event)
    BY <1>5
  <1>7. ~In(c, "idle") /\ ~In(c, "erased") /\ ~In(c, "idle")' /\ ~In(c, "erased")'
    BY <1>1, <1>2 DEF In
  <1>8. QED
    BY <1>1, <1>2, <1>3, <1>4, <1>6, <1>7 DEF GoesOn, Sending

LEMMA EndsKnown ==
  ASSUME AnalyticsKnown, NEW c \in Clients, Ends(c) \/ GoesOn(c)
  PROVE  AnalyticsKnown'
  <1>1. Grows /\ Others(c) /\ ClientKnown(c)' /\ (consent' = consent \/ Sound(consent)')
    BY DoneLeaves DEF Ends, GoesOn
  <1>2. client[c].step \in Sending =>
          client[c].event.installation \in 1 .. minted /\ client[c].event.id \in 1 .. built
    BY DEF AnalyticsKnown, ClientKnown
  <1>3. RequestsKnown'
    BY <1>1, <1>2 DEF Ends, GoesOn, Grows, AnalyticsKnown, RequestsKnown
  <1>4. QED
    BY <1>1, <1>3, KnownAfter

LEMMA LoadKnown ==
  ASSUME AnalyticsKnown, NEW c \in Clients, NEW command, LoadPolicy(c, command)
  PROVE  AnalyticsKnown' /\ Others(c) /\ client'[c].step = "loaded"
         /\ client'[c].copy = consent
  <1>1. UNCHANGED <<consent, package, minted, built, requests, installs, events, recorded, erased>>
    BY DEF LoadPolicy, fileVars, serviceVars
  <1>2. client'[c] = [IdleClient EXCEPT !.step = "loaded", !.command = command, !.copy = consent]
        /\ Others(c)
    BY DEF LoadPolicy, AnalyticsKnown, Others, IdleClient, ClientFields
  <1>3. client'[c].step = "loaded" /\ client'[c].copy = consent
    BY <1>2 DEF IdleClient
  <1>4. Grows /\ RequestsKnown'
    BY <1>1 DEF Grows, AnalyticsKnown, RequestsKnown
  <1>5. Sound(client[c].copy)'
    BY <1>1, <1>3 DEF AnalyticsKnown, Sound
  <1>6. ClientKnown(c)'
    BY <1>3, <1>5 DEF ClientKnown, In, Sending
  <1>7. QED
    BY <1>1, <1>2, <1>3, <1>4, <1>6, KnownAfter

\* The answer of an erase: nothing local is written yet.
LEMMA EraseKnown ==
  ASSUME AnalyticsKnown, NEW c \in Clients, NEW reached \in BOOLEAN, NEW answered \in BOOLEAN,
         Erase(c, reached, answered)
  PROVE  /\ AnalyticsKnown' /\ Others(c)
         /\ client[c].step = "loaded" /\ client'[c].step \in {"idle", "erased"}
         /\ consent' = consent \/ consent'.installation = NoInstallation
         /\ client'[c].step = "erased" => consent' = consent /\ client'[c].copy = client[c].copy
  <1> DEFINE copy == client[c].copy
  <1>1. /\ client[c].step = "loaded" /\ Sound(copy)
        /\ UNCHANGED <<package, minted, built, requests, recorded>>
    BY DEF Erase, Doing, In, AnalyticsKnown, ClientKnown
  <1>2. Grows /\ RequestsKnown'
    BY <1>1 DEF Grows, AnalyticsKnown, RequestsKnown
  <1>3. CASE copy.installation = NoInstallation
    <2>1. Done(c) /\ consent' = [copy EXCEPT !.mode = "off", !.prompted = TRUE]
      BY <1>3 DEF Erase
    <2>2. Sound(consent)' /\ consent'.installation = NoInstallation
      BY <1>1, <1>3, <2>1 DEF Sound, PolicyFields
    <2>3. QED
      BY <1>1, <1>2, <2>1, <2>2, DoneLeaves, KnownAfter DEF IdleClient
  <1>4. CASE copy.installation # NoInstallation /\ answered
    <2>1. Advance(c, "erased") /\ consent' = consent
      BY <1>4 DEF Erase
    <2>2. Others(c) /\ client'[c].step = "erased" /\ client'[c].copy = copy
      BY <2>1, AdvanceLeaves
    <2>3. Sound(client[c].copy)'
      BY <1>1, <2>2 DEF Sound
    <2>4. ClientKnown(c)'
      BY <1>1, <1>4, <2>2, <2>3 DEF ClientKnown, In, Sending, Sound
    <2>5. QED
      BY <1>1, <1>2, <2>1, <2>2, <2>4, KnownAfter
  <1>5. CASE copy.installation # NoInstallation /\ ~answered
    <2>1. Done(c) /\ consent' = consent
      BY <1>5 DEF Erase
    <2>2. QED
      BY <1>1, <1>2, <2>1, DoneLeaves, KnownAfter DEF IdleClient
  <1>6. QED
    BY <1>3, <1>4, <1>5

\* The service moves a waiting client on, to what is in the history.
LEMMA HandleKnown ==
  ASSUME AnalyticsKnown, NEW q \in requests, NEW refused \in BOOLEAN, NEW delivered \in BOOLEAN,
         HandleEvent(q, refused, delivered)
  PROVE  /\ AnalyticsKnown' /\ consent' = consent
         /\ \A c \in Clients :
              /\ client'[c].copy = client[c].copy /\ client'[c].event = client[c].event
              /\ \/ client'[c].step = client[c].step
                 \/ client[c].step = "waiting" /\ client'[c].step \in Sending
  <1> DEFINE c == q.from
             taken == ~refused /\ Accepted(q.event, ClientToken[c])
  <1>1. /\ consent' = consent /\ UNCHANGED <<package, minted, built>>
        /\ requests' = requests \ {q}
        /\ recorded' = IF taken THEN recorded \cup {<<q.event.installation, q.event.version>>}
                        ELSE recorded
        /\ client' = IF In(c, "waiting") /\ client[c].event = q.event
                     THEN [client EXCEPT ![c].step =
                             IF taken /\ delivered THEN "recorded" ELSE "failed"]
                     ELSE client
    BY DEF HandleEvent, fileVars
  <1>2. Grows /\ RequestsKnown' /\ c \in Clients /\ DOMAIN client = Clients
        /\ DOMAIN client[c] = ClientFields
    BY <1>1 DEF Grows, AnalyticsKnown, RequestsKnown
  <1>3. CASE In(c, "waiting") /\ client[c].event = q.event
    <2>1. client' = [client EXCEPT ![c].step = IF taken /\ delivered THEN "recorded" ELSE "failed"]
      BY <1>1, <1>3
    <2>2. /\ Others(c) /\ client'[c].copy = client[c].copy /\ client'[c].event = client[c].event
          /\ client'[c].step \in {"recorded", "failed"}
          /\ client'[c].step = "recorded" => taken
      BY <1>2, <2>1 DEF Others, ClientFields
    <2>3. client[c].event.installation = client[c].copy.installation
      BY <1>2, <1>3 DEF AnalyticsKnown, ClientKnown, In, Sending
    <2>4. client'[c].step = "recorded" =>
            <<client[c].copy.installation, client[c].event.version>> \in recorded'
      BY <1>1, <1>3, <2>2, <2>3
    <2>5. ClientKnown(c)'
      BY <1>2, <1>3, <2>2, <2>4, StepsOn DEF In, Sending
    <2>6. AnalyticsKnown'
      BY <1>1, <1>2, <2>2, <2>5, KnownAfter
    <2>7. ASSUME NEW d \in Clients
          PROVE  /\ client'[d].copy = client[d].copy /\ client'[d].event = client[d].event
                 /\ \/ client'[d].step = client[d].step
                    \/ client[d].step = "waiting" /\ client'[d].step \in Sending
      <3>1. CASE d = c
        BY <1>3, <2>2, <3>1 DEF In, Sending
      <3>2. CASE d # c
        BY <2>2, <3>2 DEF Others
      <3>3. QED
        BY <3>1, <3>2
    <2>8. QED
      BY <1>1, <2>6, <2>7
  <1>4. CASE ~(In(c, "waiting") /\ client[c].event = q.event)
    <2>1. client' = client
      BY <1>1, <1>4
    <2>2. Others(c) /\ ClientKnown(c)'
      BY <1>2, <2>1, ClientGrows DEF Others, AnalyticsKnown
    <2>3. AnalyticsKnown'
      BY <1>1, <1>2, <2>2, KnownAfter
    <2>4. QED
      BY <1>1, <2>1, <2>3
  <1>5. QED
    BY <1>3, <1>4

\* What leaves client and policy alone.
Aside ==
  \/ \E q \in requests : EventLost(q)
  \/ \E i \in DOMAIN installs : Outlived(i)
  \/ Upgrade \/ UNCHANGED analyticsVars

LEMMA AsideKnown ==
  ASSUME AnalyticsKnown, Aside
  PROVE  /\ AnalyticsKnown' /\ consent' = consent /\ client' = client
         /\ requests' \subseteq requests
         /\ UNCHANGED <<minted, erased, behind, sealed, revived>>
  <1>1. /\ consent' = consent /\ client' = client /\ requests' \subseteq requests
        /\ UNCHANGED <<minted, built, recorded, erased, behind, sealed, revived>>
    BY DEF Aside, EventLost, Outlived, Upgrade, fileVars, serviceVars, analyticsHistory,
       eraseHistory, analyticsVars
  <1>2. Grows /\ Sound(consent)'
    BY <1>1 DEF Grows, AnalyticsKnown, Sound
  <1>3. \A c \in Clients : ClientKnown(c)'
    BY <1>1, <1>2, ClientGrows
  <1>4. QED
    BY <1>1, <1>2, <1>3 DEF AnalyticsKnown

LEMMA AnalyticsKinds ==
  ASSUME AnalyticsKnown, [AnalyticsNext]_analyticsVars
  PROVE  \/ \E c \in Clients :
              \/ Ends(c) \/ GoesOn(c)
              \/ \E command : LoadPolicy(c, command)
              \/ \E reached, answered \in BOOLEAN : Erase(c, reached, answered)
         \/ \E q \in requests, refused, delivered \in BOOLEAN : HandleEvent(q, refused, delivered)
         \/ Aside
  <1>1. ASSUME NEW c \in Clients,
               \/ Prompt(c) \/ EnableAnalytics(c) \/ DisableAnalytics(c) \/ CheckIn(c)
               \/ SendEvent(c) \/ EventGivesUp(c) \/ EventFailed(c) \/ EventRecorded(c)
               \/ EraseSaved(c) \/ ClientDies(c)
        PROVE  Ends(c) \/ GoesOn(c)
    BY <1>1, PromptEnds, EnableEnds, DisableEnds, CheckInGoesOn, SendGoesOn, OutcomeEnds,
       EraseSavedEnds, DeathEnds
  <1>2. QED
    BY <1>1 DEF AnalyticsNext, Aside

LEMMA AnalyticsInvariant == AnalyticsSpec => []AnalyticsKnown
  <1>1. AnalyticsInit => AnalyticsKnown
    <2> SUFFICES ASSUME AnalyticsInit PROVE AnalyticsKnown
      OBVIOUS
    <2>1. Sound(consent)
      BY DEF AnalyticsInit, Unconfigured, Sound, PolicyFields
    <2>2. \A c \in Clients : client[c] = IdleClient
      BY DEF AnalyticsInit
    <2>3. \A c \in Clients : DOMAIN client[c] = ClientFields /\ ClientKnown(c)
      BY <2>2 DEF IdleClient, ClientFields, ClientKnown, In, Sending
    <2>4. QED
      BY <2>1, <2>3 DEF AnalyticsInit, AnalyticsKnown
  <1>2. AnalyticsKnown /\ [AnalyticsNext]_analyticsVars => AnalyticsKnown'
    BY AnalyticsKinds, EndsKnown, LoadKnown, EraseKnown, HandleKnown, AsideKnown
  <1>3. QED
    BY <1>1, <1>2, PTL DEF AnalyticsSpec

\* A policy never counts a version as sent that the service did not record for
\* its installation, whatever is retried, lost, upgraded or written back.
THEOREM SentVersionsAreRecorded == AnalyticsSpec => []SentVersionRecorded
  <1>1. AnalyticsKnown => SentVersionRecorded
    BY DEF AnalyticsKnown, Sound, SentVersionRecorded
  <1>2. QED
    BY <1>1, AnalyticsInvariant, PTL

-----------------------------------------------------------------------------
(* The service's tables.                                                   *)

Row == {"principal", "version", "old"}

TablesKnown ==
  /\ DOMAIN events \subseteq 1 .. built
  /\ \A i \in DOMAIN installs : DOMAIN installs[i] = Row
  /\ \A e \in DOMAIN events :
       /\ events[e].installation \in DOMAIN installs
       /\ events[e].principal = installs[events[e].installation].principal

LEMMA HandleTables ==
  ASSUME AnalyticsKnown, TablesKnown, NEW q \in requests, NEW refused, NEW delivered,
         HandleEvent(q, refused, delivered)
  PROVE  /\ TablesKnown'
         /\ \A i \in DOMAIN installs' :
              \/ i = q.event.installation
              \/ i \in DOMAIN installs /\ installs'[i] = installs[i]
  <1> DEFINE event == q.event
             i == event.installation
             token == ClientToken[q.from]
             known == event.id \in DOMAIN events /\ events[event.id].installation \in Retained
             row == [principal |-> token, version |-> event.version, old |-> FALSE]
             kept == Restrict(installs, Retained)
             keptEvents == Restrict(events, {e \in DOMAIN events : events[e].installation \in Retained})
  <1>1. built' = built /\ event.id \in 1 .. built
    BY DEF HandleEvent, fileVars, AnalyticsKnown
  <1>2. /\ DOMAIN kept = Retained /\ (\A j \in Retained : kept[j] = installs[j])
        /\ Retained \subseteq DOMAIN installs
        /\ DOMAIN keptEvents = {e \in DOMAIN events : events[e].installation \in Retained}
        /\ \A e \in DOMAIN keptEvents : keptEvents[e] = events[e]
    BY DEF Restrict, Retained
  <1>3. CASE installs' = installs /\ events' = events
    BY <1>1, <1>3 DEF TablesKnown
  <1>4. CASE installs' = kept /\ events' = keptEvents
    <2>1. TablesKnown'
      BY <1>1, <1>2, <1>4 DEF TablesKnown
    <2>2. QED
      BY <1>2, <1>4, <2>1
  <1>5. CASE /\ installs' = Put(kept, i, row)
             /\ events' = Put(keptEvents, event.id, [installation |-> i, principal |-> token])
             /\ Accepted(event, token) /\ ~known
    <2>1. i \in Retained => installs[i].principal = token
      BY <1>5 DEF Accepted
    <2>2. /\ DOMAIN installs' = Retained \cup {i} /\ installs'[i] = row
          /\ \A j \in Retained \ {i} : installs'[j] = installs[j]
      BY <1>2, <1>5 DEF Put
    <2>3. /\ DOMAIN events' = DOMAIN keptEvents \cup {event.id}
          /\ events'[event.id].installation = i /\ events'[event.id].principal = token
          /\ \A e \in DOMAIN keptEvents \ {event.id} : events'[e] = events[e]
      BY <1>2, <1>5 DEF Put
    <2>4. row.principal = token /\ DOMAIN row = Row
      BY DEF Row
    <2> HIDE DEF row, kept, keptEvents, known
    <2>5. ASSUME NEW e \in DOMAIN events'
          PROVE  /\ events'[e].installation \in DOMAIN installs'
                 /\ events'[e].principal = installs'[events'[e].installation].principal
      <3>1. CASE e = event.id
        BY <2>2, <2>3, <2>4, <3>1
      <3>2. CASE e # event.id
        <4>1. /\ e \in DOMAIN events /\ events[e].installation \in Retained /\ events'[e] = events[e]
          BY <1>2, <2>3, <3>2
        <4>2. events[e].principal = installs[events[e].installation].principal
          BY <4>1 DEF TablesKnown
        <4>3. QED
          BY <2>1, <2>2, <2>4, <4>1, <4>2
      <3>3. QED
        BY <3>1, <3>2
    <2>6. DOMAIN events' \subseteq 1 .. built'
      BY <1>1, <1>2, <2>3 DEF TablesKnown
    <2>7. \A j \in DOMAIN installs' : DOMAIN installs'[j] = Row
      BY <1>2, <2>2, <2>4 DEF TablesKnown
    <2>8. TablesKnown'
      BY <2>5, <2>6, <2>7 DEF TablesKnown
    <2>9. QED
      BY <1>2, <2>2, <2>8
  <1>6. QED
    BY <1>3, <1>4, <1>5 DEF HandleEvent

LEMMA EraseTables ==
  ASSUME TablesKnown, NEW c \in Clients, NEW reached, NEW answered, Erase(c, reached, answered)
  PROVE  /\ TablesKnown'
         /\ \A i \in DOMAIN installs' : i \in DOMAIN installs /\ installs'[i] = installs[i]
  <1> DEFINE i == client[c].copy.installation
  <1>1. built' = built
    BY DEF Erase
  <1>2. CASE installs' = installs /\ events' = events
    BY <1>1, <1>2 DEF TablesKnown
  <1>3. CASE /\ installs' = Drop(installs, {i})
             /\ events' = Restrict(events, {e \in DOMAIN events : events[e].installation # i})
    <2>1. /\ DOMAIN installs' = DOMAIN installs \ {i}
          /\ \A j \in DOMAIN installs' : installs'[j] = installs[j]
          /\ DOMAIN events' = {e \in DOMAIN events : events[e].installation # i}
          /\ \A e \in DOMAIN events' : events'[e] = events[e]
      BY <1>3 DEF Drop, Restrict
    <2>2. TablesKnown'
      BY <1>1, <2>1 DEF TablesKnown
    <2>3. QED
      BY <2>1, <2>2
  <1>4. QED
    BY <1>2, <1>3 DEF Erase

LEMMA AsideTables ==
  ASSUME TablesKnown, Aside
  PROVE  /\ TablesKnown'
         /\ \A i \in DOMAIN installs' :
              i \in DOMAIN installs /\ installs'[i].principal = installs[i].principal
  <1>1. built' = built /\ events' = events
    BY DEF Aside, EventLost, Outlived, Upgrade, fileVars, serviceVars, analyticsVars
  <1>2. CASE installs' = installs
    BY <1>1, <1>2 DEF TablesKnown
  <1>3. ASSUME NEW i \in DOMAIN installs, installs' = [installs EXCEPT ![i].old = TRUE]
        PROVE  /\ DOMAIN installs' = DOMAIN installs
               /\ \A j \in DOMAIN installs : /\ installs'[j].principal = installs[j].principal
                                             /\ DOMAIN installs'[j] = Row
    BY <1>3 DEF TablesKnown, Row
  <1>4. installs' = installs \/ \E i \in DOMAIN installs : installs' = [installs EXCEPT ![i].old = TRUE]
    BY DEF Aside, EventLost, Outlived, Upgrade, serviceVars, analyticsVars
  <1>5. QED
    BY <1>1, <1>2, <1>3, <1>4 DEF TablesKnown

LEMMA TablesStep ==
  AnalyticsKnown /\ TablesKnown /\ [AnalyticsNext]_analyticsVars => TablesKnown'
  <1> SUFFICES ASSUME AnalyticsKnown, TablesKnown, [AnalyticsNext]_analyticsVars
               PROVE  TablesKnown'
    OBVIOUS
  <1>1. ASSUME NEW c \in Clients, Ends(c) \/ GoesOn(c) \/ \E command : LoadPolicy(c, command)
        PROVE  TablesKnown'
    <2>1. UNCHANGED <<installs, events>> /\ built \in Nat /\ built' \in Nat /\ built <= built'
      <3>1. CASE Ends(c) \/ GoesOn(c)
        BY <3>1 DEF Ends, GoesOn, Grows, AnalyticsKnown
      <3>2. CASE \E command : LoadPolicy(c, command)
        <4>1. installs' = installs /\ events' = events /\ built' = built
          BY <3>2 DEF LoadPolicy, fileVars, serviceVars
        <4>2. QED
          BY <4>1 DEF AnalyticsKnown
      <3>3. QED
        BY <1>1, <3>1, <3>2
    <2>2. QED
      BY <2>1 DEF TablesKnown
  <1>2. QED
    BY <1>1, AnalyticsKinds, HandleTables, EraseTables, AsideTables

\* Types, and that an event belongs to an installation of its own principal.
THEOREM AnalyticsTypeCorrect == AnalyticsSpec => []AnalyticsTypeOK
  <1>1. AnalyticsInit => TablesKnown
    BY DEF AnalyticsInit, TablesKnown
  <1>2. AnalyticsKnown /\ TablesKnown => AnalyticsTypeOK
    BY DEF AnalyticsKnown, Sound, TablesKnown, AnalyticsTypeOK
  <1>3. QED
    BY <1>1, <1>2, TablesStep, AnalyticsInvariant, PTL DEF AnalyticsSpec

-----------------------------------------------------------------------------
(* Erasure.                                                                *)

Holds(c, i) == ~In(c, "idle") /\ client[c].copy.installation = i

Gone(i, token) == ~(i \in DOMAIN installs /\ installs[i].principal = token)

\* The erase of an installation is over: the policy has forgotten it, and it
\* is known only to commands that were under way then and to events built before.
Over(i) ==
  /\ consent.installation # i
  /\ \A c \in Clients : Holds(c, i) => c \in behind
  /\ \A c \in Clients :
       Holds(c, i) /\ client[c].step \in Sending => client[c].event.id <= sealed
  /\ \A q \in requests : q.event.installation = i => q.event.id <= sealed

Quiet(i, token) == Gone(i, token) /\ (BeingErased(i) \/ Over(i))

ErasedKnown ==
  \A x \in erased :
    /\ x = <<x[1], x[2]>> /\ x[1] \in 1 .. minted
    /\ x[1] \in revived \/ Quiet(x[1], x[2])

\* The installation whose erasure must last through a step.
Lasting(i, token) ==
  /\ i \in 1 .. minted /\ Erased(i) /\ <<i, token>> \in erased
  /\ Quiet(i, token) /\ i \notin revived'

LEMMA QuietEnds ==
  ASSUME AnalyticsKnown, NEW c \in Clients, Ends(c), NEW i, NEW token, Lasting(i, token)
  PROVE  Quiet(i, token)'
  <1>1. /\ Others(c) /\ client'[c].step = "idle" /\ installs' = installs /\ requests' = requests
    BY DoneLeaves DEF Ends, IdleClient
  <1>2. Gone(i, token)'
    BY <1>1 DEF Lasting, Quiet, Gone
  <1>3. \A d \in Clients : Holds(d, i)' => d # c /\ Holds(d, i) /\ client'[d] = client[d]
    BY <1>1 DEF Others, Holds, In
  <1>4. ASSUME NEW d \in Clients, d # c, In(d, "erased"), client[d].copy.installation = i
        PROVE  BeingErased(i)'
    BY <1>1, <1>4 DEF Others, BeingErased, In
  <1>5. CASE ~In(c, "erased")
    <2>1. behind' = behind /\ sealed' = sealed
      BY <1>5 DEF Ends
    <2>2. CASE BeingErased(i)
      BY <1>2, <1>4, <1>5, <2>2 DEF BeingErased, Quiet
    <2>3. CASE Over(i)
      <3>1. consent'.installation # i
        <4>1. SUFFICES ASSUME consent'.installation = i PROVE FALSE
          OBVIOUS
        <4>2. client[c].copy.installation = i /\ Counted(c)
          BY <2>3, <4>1 DEF Ends, Over, Lasting
        <4>3. c \in behind
          BY <2>3, <4>2 DEF Over, Holds, Ends
        <4>4. QED
          BY <4>2, <4>3 DEF Counted, Lasting
      <3>2. Over(i)'
        BY <1>1, <1>3, <2>1, <2>3, <3>1 DEF Over
      <3>3. QED
        BY <1>2, <3>2 DEF Quiet
    <2>4. QED
      BY <2>2, <2>3 DEF Lasting, Quiet
  <1>6. CASE In(c, "erased")
    <2>1. /\ behind' = behind \cup {d \in Clients \ {c} : ~In(d, "idle")}
          /\ sealed' = built
      BY <1>6 DEF Ends, EraseOver
    <2>2. CASE consent'.installation = i
      <3>1. consent' = consent /\ client[c].copy.installation # i
        BY <1>6, <2>2 DEF Ends, Lasting
      <3>2. BeingErased(i)
        BY <2>2, <3>1 DEF Lasting, Quiet, Over
      <3>3. QED
        BY <1>2, <1>4, <3>1, <3>2 DEF BeingErased, Quiet
    <2>3. CASE consent'.installation # i
      <3>1. \A d \in Clients : Holds(d, i)' => d \in behind'
        BY <1>3, <2>1 DEF Holds
      <3>2. ASSUME NEW d \in Clients, client[d].step \in Sending
            PROVE  client[d].event.id <= built
        <4>1. client[d].event.id \in 1 .. built /\ built \in Nat
          BY <3>2 DEF AnalyticsKnown, ClientKnown
        <4>2. QED
          BY <4>1
      <3>3. \A q \in requests : q.event.id <= built
        BY DEF AnalyticsKnown
      <3>4. Over(i)'
        BY <1>1, <1>3, <2>1, <2>3, <3>1, <3>2, <3>3 DEF Over
      <3>5. QED
        BY <1>2, <3>4 DEF Quiet
    <2>4. QED
      BY <2>2, <2>3
  <1>7. QED
    BY <1>5, <1>6

LEMMA QuietGoesOn ==
  ASSUME AnalyticsKnown, NEW c \in Clients, GoesOn(c), NEW i, NEW token, Lasting(i, token)
  PROVE  Quiet(i, token)'
  <1>1. /\ Others(c) /\ installs' = installs /\ behind' = behind /\ sealed' = sealed
        /\ ~In(c, "idle") /\ ~In(c, "erased")
        /\ client'[c].copy.installation = client[c].copy.installation
    BY DEF GoesOn
  <1>2. Gone(i, token)'
    BY <1>1 DEF Lasting, Quiet, Gone
  <1>3. CASE BeingErased(i)
    <2>1. BeingErased(i)'
      BY <1>1, <1>3 DEF Others, BeingErased, In
    <2>2. QED
      BY <1>2, <2>1 DEF Quiet
  <1>4. CASE Over(i)
    <2>1. Holds(c, i) =>
            /\ consent' = consent /\ client[c].step \in Sending
            /\ client'[c].event = client[c].event /\ client[c].event.id <= sealed
      BY <1>4 DEF GoesOn, Over, Holds, Counted, Lasting
    <2>2. consent'.installation # i
      BY <1>1, <1>4, <2>1 DEF GoesOn, Over, Holds
    <2>3. ASSUME NEW d \in Clients, Holds(d, i)'
          PROVE  d \in behind /\ (client'[d].step \in Sending => client'[d].event.id <= sealed)
      <3>1. CASE d = c
        BY <1>1, <1>4, <2>1, <2>3, <3>1 DEF Over, Holds
      <3>2. CASE d # c
        BY <1>1, <1>4, <2>3, <3>2 DEF Others, Over, Holds, In
      <3>3. QED
        BY <3>1, <3>2
    <2>4. ASSUME NEW q \in requests', q.event.installation = i
          PROVE  q.event.id <= sealed
      <3>1. CASE q \in requests
        BY <1>4, <2>4, <3>1 DEF Over
      <3>2. CASE q \notin requests
        <4>1. client[c].step \in Sending /\ q.event = client[c].event
          BY <3>2 DEF GoesOn
        <4>2. Holds(c, i)
          BY <1>1, <2>4, <4>1 DEF Holds, AnalyticsKnown, ClientKnown
        <4>3. QED
          BY <2>1, <4>1, <4>2
      <3>3. QED
        BY <3>1, <3>2
    <2>5. Over(i)'
      BY <1>1, <2>2, <2>3, <2>4 DEF Over
    <2>6. QED
      BY <1>2, <2>5 DEF Quiet
  <1>5. QED
    BY <1>3, <1>4 DEF Lasting, Quiet

LEMMA QuietLoad ==
  ASSUME AnalyticsKnown, NEW c \in Clients, NEW command, LoadPolicy(c, command),
         NEW i, NEW token, Lasting(i, token)
  PROVE  Quiet(i, token)'
  <1>1. /\ Others(c) /\ client'[c].step = "loaded" /\ client'[c].copy = consent /\ In(c, "idle")
        /\ installs' = installs /\ requests' = requests /\ consent' = consent
        /\ behind' = behind \ {c} /\ sealed' = sealed
    BY LoadKnown DEF LoadPolicy, fileVars, serviceVars
  <1>2. Gone(i, token)'
    BY <1>1 DEF Lasting, Quiet, Gone
  <1>3. CASE BeingErased(i)
    <2>1. BeingErased(i)'
      BY <1>1, <1>3 DEF Others, BeingErased, In
    <2>2. QED
      BY <1>2, <2>1 DEF Quiet
  <1>4. CASE Over(i)
    <2>1. \A d \in Clients : Holds(d, i)' => d # c /\ Holds(d, i) /\ client'[d] = client[d]
      BY <1>1, <1>4 DEF Over, Others, Holds, In
    <2>2. Over(i)'
      BY <1>1, <1>4, <2>1 DEF Over
    <2>3. QED
      BY <1>2, <2>2 DEF Quiet
  <1>5. QED
    BY <1>3, <1>4 DEF Lasting, Quiet

LEMMA QuietErase ==
  ASSUME AnalyticsKnown, TablesKnown, NEW c \in Clients, NEW reached \in BOOLEAN,
         NEW answered \in BOOLEAN, Erase(c, reached, answered),
         NEW i, NEW token, Lasting(i, token)
  PROVE  Quiet(i, token)'
  <1>1. /\ Others(c) /\ client[c].step = "loaded" /\ client'[c].step \in {"idle", "erased"}
        /\ consent' = consent \/ consent'.installation = NoInstallation
        /\ client'[c].step = "erased" => client'[c].copy = client[c].copy
        /\ requests' = requests /\ behind' = behind /\ sealed' = sealed
    BY EraseKnown DEF Erase
  <1>2. Gone(i, token)'
    BY EraseTables DEF Lasting, Quiet, Gone
  <1>3. CASE BeingErased(i)
    <2>1. BeingErased(i)'
      BY <1>1, <1>3 DEF Others, BeingErased, In
    <2>2. QED
      BY <1>2, <2>1 DEF Quiet
  <1>4. CASE Over(i)
    <2>1. CASE client'[c].step = "erased" /\ client[c].copy.installation = i
      <3>1. BeingErased(i)'
        BY <1>1, <2>1 DEF BeingErased, In
      <3>2. QED
        BY <1>2, <3>1 DEF Quiet
    <2>2. CASE ~(client'[c].step = "erased" /\ client[c].copy.installation = i)
      <3>1. \A d \in Clients : Holds(d, i)' => d # c /\ Holds(d, i) /\ client'[d] = client[d]
        BY <1>1, <2>2 DEF Others, Holds, In
      <3>2. consent'.installation # i
        BY <1>1, <1>4, AnalyticsAssumption DEF Over, Lasting, AnalyticsKnown
      <3>3. Over(i)'
        BY <1>1, <1>4, <3>1, <3>2 DEF Over
      <3>4. QED
        BY <1>2, <3>3 DEF Quiet
    <2>3. QED
      BY <2>1, <2>2
  <1>5. QED
    BY <1>3, <1>4 DEF Lasting, Quiet

\* What an erase has just been told is gone.
LEMMA EraseQuiets ==
  ASSUME AnalyticsKnown, NEW c \in Clients, NEW reached \in BOOLEAN,
         NEW answered \in BOOLEAN, Erase(c, reached, answered), NEW x \in erased', x \notin erased
  PROVE  x = <<x[1], x[2]>> /\ x[1] \in 1 .. minted' /\ Quiet(x[1], x[2])'
  <1>0. PICK i, token : i = client[c].copy.installation /\ token = ClientToken[c]
    OBVIOUS
  <1>1. client[c].step = "loaded" /\ Sound(client[c].copy) /\ minted' = minted
    BY DEF Erase, Doing, In, AnalyticsKnown, ClientKnown
  <1>2. /\ i # NoInstallation /\ answered /\ reached /\ x = <<i, token>> /\ Advance(c, "erased")
        /\ IF i \in DOMAIN installs /\ installs[i].principal = token
           THEN installs' = Drop(installs, {i}) ELSE installs' = installs
    BY <1>0 DEF Erase
  <1>3. i \in 1 .. minted
    BY <1>0, <1>1, <1>2 DEF Sound
  <1>4. client'[c].step = "erased" /\ client'[c].copy = client[c].copy
    BY <1>2, AdvanceLeaves
  <1>5. Gone(i, token)'
    BY <1>2 DEF Drop, Restrict, Gone
  <1>6. BeingErased(i)'
    BY <1>0, <1>4 DEF BeingErased, In
  <1>7. x[1] = i /\ x[2] = token
    BY <1>2
  <1>8. QED
    BY <1>1, <1>2, <1>3, <1>5, <1>6, <1>7 DEF Quiet

\* An installation enters the table with an event the service had not counted,
\* and counts as revived when that event was built before its erase was over.
LEMMA HandleEnters ==
  ASSUME NEW q \in requests, NEW refused, NEW delivered, HandleEvent(q, refused, delivered),
         NEW i \in DOMAIN installs', ~(i \in DOMAIN installs /\ installs'[i] = installs[i])
  PROVE  /\ i = q.event.installation /\ installs'[i].principal = ClientToken[q.from]
         /\ <<i, ClientToken[q.from]>> \in erased /\ (q.event.id <= sealed \/ BeingErased(i)) =>
              i \in revived'
  <1> DEFINE event == q.event
             token == ClientToken[q.from]
             taken == ~refused /\ Accepted(event, token)
             known == event.id \in DOMAIN events /\ events[event.id].installation \in Retained
             row == [principal |-> token, version |-> event.version, old |-> FALSE]
             kept == Restrict(installs, Retained)
  <1>1. DOMAIN kept = Retained /\ (\A j \in Retained : kept[j] = installs[j])
        /\ Retained \subseteq DOMAIN installs
    BY DEF Restrict, Retained
  <1>2. installs' # installs /\ installs' # kept
    BY <1>1
  <1>3. /\ taken /\ ~known /\ installs' = Put(kept, event.installation, row)
        /\ revived' = IF /\ taken /\ ~known /\ <<event.installation, token>> \in erased
                         /\ event.id <= sealed \/ BeingErased(event.installation)
                      THEN revived \cup {event.installation} ELSE revived
    BY <1>2 DEF HandleEvent
  <1> HIDE DEF kept, known, taken
  <1>4. i = event.installation /\ installs'[i] = row
    BY <1>1, <1>3 DEF Put
  <1>5. QED
    BY <1>3, <1>4

LEMMA QuietHandle ==
  ASSUME AnalyticsKnown, NEW q \in requests, NEW refused \in BOOLEAN,
         NEW delivered \in BOOLEAN, HandleEvent(q, refused, delivered),
         NEW i, NEW token, Lasting(i, token)
  PROVE  Quiet(i, token)'
  <1>1. /\ consent' = consent /\ requests' \subseteq requests /\ DOMAIN client' = Clients
        /\ behind' = behind /\ sealed' = sealed
        /\ \A c \in Clients :
              /\ client'[c].copy = client[c].copy /\ client'[c].event = client[c].event
              /\ \/ client'[c].step = client[c].step
                 \/ client[c].step = "waiting" /\ client'[c].step \in Sending
    BY HandleKnown DEF HandleEvent, AnalyticsKnown, eraseHistory
  <1>2. Gone(i, token)'
    <2>1. SUFFICES ASSUME i \in DOMAIN installs', installs'[i].principal = token
                   PROVE  FALSE
      BY DEF Gone
    <2>2. ~(i \in DOMAIN installs /\ installs'[i] = installs[i])
      BY <2>1 DEF Lasting, Quiet, Gone
    <2>3. i = q.event.installation /\ token = ClientToken[q.from]
      BY <2>1, <2>2, HandleEnters
    <2>4. q.event.id <= sealed \/ BeingErased(i)
      BY <2>3 DEF Lasting, Quiet, Over
    <2>5. QED
      BY <2>1, <2>2, <2>3, <2>4, HandleEnters DEF Lasting
  <1>3. CASE BeingErased(i)
    <2>1. BeingErased(i)'
      BY <1>1, <1>3 DEF BeingErased, In
    <2>2. QED
      BY <1>2, <2>1 DEF Quiet
  <1>4. CASE Over(i)
    <2>1. \A d \in Clients : Holds(d, i)' => Holds(d, i)
      BY <1>1 DEF Holds, In
    <2>2. \A d \in Clients : client'[d].step \in Sending => client[d].step \in Sending
      BY <1>1 DEF Sending
    <2>3. Over(i)'
      BY <1>1, <1>4, <2>1, <2>2 DEF Over
    <2>4. QED
      BY <1>2, <2>3 DEF Quiet
  <1>5. QED
    BY <1>3, <1>4 DEF Lasting, Quiet

LEMMA QuietAside ==
  ASSUME AnalyticsKnown, TablesKnown, Aside, NEW i, NEW token, Lasting(i, token)
  PROVE  Quiet(i, token)'
  <1>1. /\ consent' = consent /\ client' = client /\ requests' \subseteq requests
        /\ behind' = behind /\ sealed' = sealed
    BY AsideKnown
  <1>2. i \in DOMAIN installs' => i \in DOMAIN installs /\ installs'[i].principal = installs[i].principal
    BY AsideTables
  <1>3. Gone(i, token)'
    BY <1>2 DEF Lasting, Quiet, Gone
  <1>4. Over(i) => Over(i)'
    BY <1>1 DEF Over, Holds, In
  <1>5. BeingErased(i) => BeingErased(i)'
    BY <1>1 DEF BeingErased, In
  <1>6. QED
    BY <1>3, <1>4, <1>5 DEF Lasting, Quiet

LEMMA HistoryGrows ==
  ASSUME AnalyticsKnown, [AnalyticsNext]_analyticsVars
  PROVE  revived \subseteq revived' /\ minted \in Nat /\ minted' \in Nat /\ minted <= minted'
  <1>1. ASSUME NEW c \in Clients, Ends(c) \/ GoesOn(c)
        PROVE  revived \subseteq revived' /\ minted' \in Nat /\ minted <= minted'
    BY <1>1 DEF Ends, GoesOn, Grows
  <1>2. ASSUME NEW c \in Clients, NEW command, LoadPolicy(c, command)
        PROVE  revived \subseteq revived' /\ minted' = minted
    BY <1>2 DEF LoadPolicy, fileVars
  <1>3. ASSUME NEW c \in Clients, NEW reached \in BOOLEAN, NEW answered \in BOOLEAN,
               Erase(c, reached, answered)
        PROVE  revived \subseteq revived' /\ minted' = minted
    BY <1>3 DEF Erase
  <1>4. ASSUME NEW q \in requests, NEW refused \in BOOLEAN, NEW delivered \in BOOLEAN,
               HandleEvent(q, refused, delivered)
        PROVE  revived \subseteq revived' /\ minted' = minted
    BY <1>4 DEF HandleEvent, fileVars
  <1>5. CASE Aside
    BY <1>5, AsideKnown DEF AnalyticsKnown
  <1>6. minted \in Nat
    BY DEF AnalyticsKnown
  <1>7. QED
    BY <1>1, <1>2, <1>3, <1>4, <1>5, <1>6, AnalyticsKinds

LEMMA ErasedStep ==
  AnalyticsKnown /\ TablesKnown /\ ErasedKnown /\ [AnalyticsNext]_analyticsVars => ErasedKnown'
  <1> SUFFICES ASSUME AnalyticsKnown, TablesKnown, ErasedKnown, [AnalyticsNext]_analyticsVars,
                      NEW x \in erased'
               PROVE  /\ x = <<x[1], x[2]>> /\ x[1] \in 1 .. minted'
                      /\ x[1] \in revived' \/ Quiet(x[1], x[2])'
    BY DEF ErasedKnown
  <1>1. CASE x \in erased
    <2>1. /\ x = <<x[1], x[2]>> /\ x[1] \in 1 .. minted
          /\ x[1] \in revived \/ Quiet(x[1], x[2])
      BY <1>1 DEF ErasedKnown
    <2>2. x[1] \in 1 .. minted' /\ (x[1] \in revived => x[1] \in revived')
      BY <2>1, HistoryGrows
    <2>3. SUFFICES ASSUME x[1] \notin revived' PROVE Quiet(x[1], x[2])'
      BY <2>1, <2>2
    <2>4. Lasting(x[1], x[2])
      BY <1>1, <2>1, <2>2, <2>3 DEF Lasting, Erased
    <2>5. QED
      BY <2>4, QuietEnds, QuietGoesOn, QuietLoad, QuietErase, QuietHandle, QuietAside,
         AnalyticsKinds
  <1>2. CASE x \notin erased
    <2>1. ASSUME NEW c \in Clients, Ends(c) \/ GoesOn(c) \/ \E command : LoadPolicy(c, command)
          PROVE  erased' = erased
      BY <2>1 DEF Ends, GoesOn, LoadPolicy
    <2>2. ASSUME NEW q \in requests, NEW refused, NEW delivered, HandleEvent(q, refused, delivered)
          PROVE  erased' = erased
      BY <2>2 DEF HandleEvent, eraseHistory
    <2>3. Aside => erased' = erased
      BY AsideKnown
    <2>4. PICK c \in Clients, reached \in BOOLEAN, answered \in BOOLEAN : Erase(c, reached, answered)
      BY <1>2, <2>1, <2>2, <2>3, AnalyticsKinds
    <2>5. QED
      BY <1>2, <2>4, EraseQuiets
  <1>3. QED
    BY <1>1, <1>2

\* An installation that was erased comes back only with an event built before
\* its erase was over, a copy of the policy loaded before that and written
\* after, or the death of the eraser, for any number of clients and tokens.
THEOREM ErasuresHold == AnalyticsSpec => []ErasedStaysErased
  <1>1. AnalyticsInit => TablesKnown /\ ErasedKnown
    BY DEF AnalyticsInit, TablesKnown, ErasedKnown
  <1>2. ErasedKnown => ErasedStaysErased
    BY DEF ErasedKnown, Quiet, Gone, ErasedStaysErased
  <1>3. QED
    BY <1>1, <1>2, TablesStep, ErasedStep, AnalyticsInvariant, PTL DEF AnalyticsSpec

-----------------------------------------------------------------------------
(* The updater.                                                            *)

Locked(c) == check[c].step \in {"holding", "native", "ended"}

\* A process past the lock has it, and has read the policy that is on disk.
HolderKnows == \A c \in Checks : Locked(c) => lock = c /\ check[c].seen = choice

\* Past the lock, a process only looks, or updates are on and not suspended.
Admitted ==
  \A c \in Checks : Locked(c) =>
    \/ ReadOnly(check[c].seen, check[c].force)
    \/ check[c].seen.mode \in {"notify", "auto"} /\ ~check[c].seen.suspended

\* A replacement is started in auto mode.
ReplacesInAuto ==
  \A c \in Checks : check[c].step \in {"native", "ended"} => check[c].seen.mode = "auto"

\* Auto mode stays suspended after an integrity failure.
StaysDistrusted == distrusted => choice.mode # "auto" \/ choice.suspended

Types == UpdateTypeOK /\ orphans <= deaths
UpdateInv == Types /\ HolderKnows /\ Admitted /\ ReplacesInAuto /\ StaysDistrusted

Check == [step : {"idle", "prompt", "due", "holding", "native", "ended"},
          force : BOOLEAN, seen : Choice, succeeded : BOOLEAN]

USE DEF updateBounds

LEMMA Bounds ==
  /\ FreshFor \in Nat /\ Backoff \in Nat /\ MaxNow \in Nat
  /\ MaxChanges \in Nat /\ MaxChoices \in Nat /\ MaxDeaths \in Nat
  BY UpdateAssumption

LEMMA IdleIsCheck == IdleCheck \in Check /\ NoChoice \in Choice
  BY UpdateAssumption DEF IdleCheck, NoChoice, Choice, Check, PolicyModes, Dues

\* What a process leaves when it ends, and the lock it frees.
LEMMA Leaving ==
  ASSUME Types, NEW c \in Checks, Leave(c)
  PROVE  /\ check' \in [Checks -> Check]
         /\ check'[c] = IdleCheck
         /\ \A d \in Checks \ {c} : check'[d] = check[d]
  BY IdleIsCheck DEF Leave, Types, UpdateTypeOK, Check

LEMMA OutcomeTyped ==
  ASSUME Types, NEW p \in Choice, NEW success \in BOOLEAN, NEW suspend \in BOOLEAN
  PROVE  /\ Outcome(p, success, suspend) \in Choice
         /\ Outcome(p, success, suspend).mode = p.mode
         /\ Outcome(p, success, suspend).suspended = suspend
  <1>1. now + (IF success THEN FreshFor ELSE Backoff) \in Dues
    BY UpdateAssumption DEF Types, UpdateTypeOK, Dues
  <1> QED BY <1>1 DEF Outcome, Choice

\* A concluding process hands the policy it read on, with another due time and
\* suspension, and perhaps degraded to notify.
LEMMA Concluding ==
  ASSUME UpdateInv, NEW c \in Checks, Locked(c), NEW p \in Choice, Conclude(c, p),
         p.mode \in {choice.mode, "notify"}
  PROVE  UpdateInv'
  <1>1. Types'
    BY Leaving DEF UpdateInv, Types, UpdateTypeOK, Conclude, Free, Check
  <1>2. lock = c /\ check[c].seen = choice
    BY DEF UpdateInv, HolderKnows
  <1>3. \A d \in Checks : ~Locked(d)'
    <2> TAKE d \in Checks
    <2>1. CASE d = c
      BY <2>1, Leaving DEF UpdateInv, Conclude, Locked, IdleCheck
    <2>2. CASE d # c
      BY <1>2, <2>2, Leaving DEF UpdateInv, HolderKnows, Conclude, Locked
    <2> QED BY <2>1, <2>2
  <1>4. HolderKnows' /\ Admitted' /\ ReplacesInAuto'
    BY <1>3 DEF HolderKnows, Admitted, ReplacesInAuto, Locked
  <1>5. StaysDistrusted'
    <2>1. distrusted => choice.mode # "auto"
      BY <1>2 DEF UpdateInv, Admitted, ReadOnly, StaysDistrusted, Locked
    <2>2. choice' = p /\ distrusted' = (distrusted \/ (p.suspended /\ p.mode = "auto"))
      BY DEF Conclude
    <2> QED BY <2>1, <2>2 DEF StaysDistrusted
  <1> QED BY <1>1, <1>4, <1>5 DEF UpdateInv

\* A process that ends without writing disturbs nothing.
LEMMA Withdrawing ==
  ASSUME UpdateInv, NEW c \in Checks, Leave(c), lock' \in {lock, NoCheck},
         lock' = NoCheck => lock \in {c, NoCheck},
         UNCHANGED <<now, choice, host, distrusted, changes, choices>>,
         orphans' \in 0..MaxDeaths, deaths' \in 0..MaxDeaths, orphans' <= deaths'
  PROVE  UpdateInv'
  <1>1. Types'
    BY Leaving DEF UpdateInv, Types, UpdateTypeOK, Check
  <1>2. \A d \in Checks : Locked(d)' => d # c /\ Locked(d) /\ check'[d] = check[d]
    BY Leaving DEF UpdateInv, Locked, IdleCheck
  <1>3. \A d \in Checks : Locked(d)' => lock' = d
    BY <1>2, UpdateAssumption DEF UpdateInv, HolderKnows
  <1>4. HolderKnows' /\ Admitted'
    BY <1>2, <1>3 DEF UpdateInv, HolderKnows, Admitted, ReadOnly
  <1>5. ReplacesInAuto' /\ StaysDistrusted'
    BY <1>2 DEF UpdateInv, ReplacesInAuto, StaysDistrusted, Locked
  <1> QED BY <1>1, <1>4, <1>5 DEF UpdateInv

\* A step of the host, the clock or a native update leaves the processes, the
\* lock and the policy alone.
LEMMA Elsewhere ==
  ASSUME UpdateInv, Types', UNCHANGED <<choice, lock, check, distrusted>>
  PROVE  UpdateInv'
  BY DEF UpdateInv, HolderKnows, Admitted, ReadOnly, ReplacesInAuto, StaysDistrusted, Locked

\* The owner writes the policy only while nobody holds the lock.
LEMMA Unlocked ==
  ASSUME UpdateInv, lock = NoCheck
  PROVE  \A c \in Checks : ~Locked(c)
  BY UpdateAssumption DEF UpdateInv, HolderKnows

LEMMA InitHolds == ASSUME UpdateInit PROVE UpdateInv
  <1>1. host \in Host
    BY DEF UpdateInit
  <1>2. 0 \in 0..MaxNow /\ 0 \in 0..MaxDeaths /\ 0 \in 0..MaxChanges /\ 0 \in 0..MaxChoices
    BY Bounds
  <1>3. check \in [Checks -> Check] /\ choice \in Choice
    BY IdleIsCheck DEF UpdateInit
  <1>4. Types
    <2>1. /\ now = 0 /\ orphans = 0 /\ changes = 0 /\ choices = 0 /\ deaths = 0
          /\ lock = NoCheck /\ distrusted = FALSE
      BY DEF UpdateInit
    <2>2. distrusted \in BOOLEAN /\ lock \in Checks \cup {NoCheck}
      BY <2>1
    <2>3. now \in 0..MaxNow /\ orphans \in 0..MaxDeaths /\ orphans <= deaths
      BY <1>2, <2>1
    <2>4. changes \in 0..MaxChanges /\ choices \in 0..MaxChoices /\ deaths \in 0..MaxDeaths
      BY <1>2, <2>1
    <2> QED BY <1>1, <1>3, <2>2, <2>3, <2>4 DEF Types, UpdateTypeOK, Check
  <1> QED BY <1>4 DEF UpdateInit, UpdateInv, HolderKnows, Admitted, ReplacesInAuto,
                      StaysDistrusted, Locked, IdleCheck

LEMMA TypedReplacement == ASSUME Types PROVE Replaced \subseteq Host
  <1>1. host \in Host
    BY DEF Types, UpdateTypeOK
  <1>2. ASSUME NEW files \in 0..2, NEW manifest \in 1..2
        PROVE  [host EXCEPT !.files = files, !.manifest = manifest] \in Host
    BY <1>1 DEF Host
  <1>3. host.files \in 0..2 /\ host.manifest \in 1..2
    BY <1>1 DEF Host
  <1>4. ASSUME NEW h \in Replaced PROVE h \in Host
    <2>1. PICK pair \in {<<2, 2>>, <<0, 2>>, <<0, host.manifest>>, <<host.files, host.manifest>>} :
            h = [host EXCEPT !.files = pair[1], !.manifest = pair[2]]
      BY DEF Replaced
    <2>2. pair[1] \in 0..2 /\ pair[2] \in 1..2
      BY <1>3
    <2> QED BY <1>2, <2>1, <2>2
  <1> QED BY <1>4

\* A process of its own moves: only its record changes, and to one that is not
\* past the lock or was already there with the same policy.
LEMMA CheckMoves ==
  ASSUME UpdateInv, NEW c \in Checks, NEW r \in Check,
         check' = [check EXCEPT ![c] = r],
         UNCHANGED <<now, choice, lock, orphans, distrusted, updateBounds>>, host' \in Host,
         \/ r.step \notin {"holding", "native", "ended"}
         \/ /\ Locked(c) /\ r.seen = check[c].seen /\ r.force = check[c].force
            /\ r.step \in {"native", "ended"} => r.seen.mode = "auto"
  PROVE  UpdateInv'
  <1>1. /\ check' \in [Checks -> Check] /\ check'[c] = r
        /\ \A d \in Checks \ {c} : check'[d] = check[d]
    BY DEF UpdateInv, Types, UpdateTypeOK, Check
  <1>2. Types'
    BY <1>1 DEF UpdateInv, Types, UpdateTypeOK, Check
  <1>3. \A d \in Checks : Locked(d)' => /\ Locked(d) /\ check'[d].seen = check[d].seen
                                       /\ check'[d].force = check[d].force
    BY <1>1 DEF Locked
  <1>4. HolderKnows' /\ Admitted'
    BY <1>3 DEF UpdateInv, HolderKnows, Admitted, ReadOnly
  <1>5. ReplacesInAuto'
    BY <1>1 DEF UpdateInv, ReplacesInAuto, Locked
  <1> QED BY <1>2, <1>4, <1>5 DEF UpdateInv, StaysDistrusted

\* The inductive invariant of the updater.
THEOREM UpdateInvHolds == UpdateSpec => []UpdateInv
<1>1. UpdateInit => UpdateInv
  BY InitHolds
<1>2. ASSUME UpdateInv, [UpdateNext]_updateVars PROVE UpdateInv'
  <2> USE <1>2
  <2>0. Types /\ UpdateTypeOK
    BY DEF UpdateInv, Types
  <2>1. CASE UNCHANGED updateVars
    <3>1. Types'
      BY <2>0, <2>1 DEF Types, UpdateTypeOK, updateVars
    <3> QED BY <2>1, <3>1, Elsewhere DEF updateVars
  <2>2. ASSUME NEW c \in Checks, NEW force \in BOOLEAN, StartCheck(c, force)
        PROVE  UpdateInv'
    <3>1. choice \in Choice
      BY <2>0 DEF UpdateTypeOK
    <3>2. PICK r : /\ check' = [check EXCEPT ![c] = r]
                   /\ \/ r = [IdleCheck EXCEPT !.step = "due", !.force = force, !.seen = choice]
                      \/ r = [IdleCheck EXCEPT !.step = "prompt"]
      BY <2>2 DEF StartCheck
    <3>3. r \in Check /\ r.step \in {"due", "prompt"}
      BY <3>1, <3>2, IdleIsCheck DEF Check
    <3> QED BY <2>0, <2>2, <3>2, <3>3, CheckMoves DEF StartCheck, UpdateTypeOK
  <2>3. ASSUME NEW c \in Checks, PromptOwner(c) PROVE UpdateInv'
    <3>1. CASE choice' = choice
      BY <2>0, <2>3, <3>1, Withdrawing DEF PromptOwner, UpdateTypeOK, Types
    <3>2. CASE choice' # choice
      <4>1. /\ lock = NoCheck /\ choice.mode = "unconfigured"
            /\ choice' = [choice EXCEPT !.prompted = TRUE]
        BY <2>3, <3>2 DEF PromptOwner
      <4>2. choice' \in Choice /\ choice'.mode = "unconfigured"
        BY <2>0, <4>1 DEF UpdateTypeOK, Choice
      <4>3. \A d \in Checks : ~Locked(d)'
        BY <2>0, <2>3, <4>1, Unlocked, Leaving DEF PromptOwner, Locked, IdleCheck
      <4>4. Types'
        BY <2>0, <2>3, <4>2, Leaving DEF PromptOwner, Types, UpdateTypeOK, Check
      <4> QED BY <4>2, <4>3, <4>4 DEF UpdateInv, HolderKnows, Admitted, ReplacesInAuto,
                                      StaysDistrusted, Locked
    <3> QED BY <3>1, <3>2
  <2>4. ASSUME NEW c \in Checks, TakeLock(c) PROVE UpdateInv'
    <3>1. CASE lock' = c /\ lock # c
      <4>1. /\ lock = NoCheck /\ Proceeds(choice, check[c].force)
            /\ check' = [check EXCEPT ![c].step = "holding", ![c].seen = choice]
        BY <2>4, <3>1 DEF TakeLock, Reloaded
      <4>2. \/ ReadOnly(choice, check[c].force)
            \/ choice.mode \in {"notify", "auto"} /\ ~choice.suspended
        BY <4>1 DEF Proceeds
      <4>3. /\ check' \in [Checks -> Check]
            /\ check'[c].step = "holding" /\ check'[c].seen = choice
            /\ check'[c].force = check[c].force
            /\ \A d \in Checks \ {c} : check'[d] = check[d]
        BY <2>0, <4>1 DEF UpdateTypeOK, Check
      <4>4. Types'
        BY <2>0, <2>4, <3>1, <4>3 DEF TakeLock, Types, UpdateTypeOK, Check
      <4>5. \A d \in Checks : Locked(d)' => d = c
        BY <4>1, <4>3, Unlocked DEF Locked
      <4> QED BY <2>4, <3>1, <4>2, <4>3, <4>4, <4>5
              DEF UpdateInv, HolderKnows, Admitted, ReadOnly, ReplacesInAuto, StaysDistrusted,
                  Locked, TakeLock
    <3>2. CASE ~(lock' = c /\ lock # c)
      <4>1. CASE lock = NoCheck /\ Proceeds(choice, check[c].force)
        BY <2>4, <3>2, <4>1, UpdateAssumption DEF TakeLock, Reloaded
      <4>2. CASE ~(lock = NoCheck /\ Proceeds(choice, check[c].force))
        <5>1. /\ Leave(c)
              /\ UNCHANGED <<lock, now, choice, orphans, host, distrusted, updateBounds>>
          BY <2>4, <4>2 DEF TakeLock, Reloaded
        <5> QED BY <2>0, <5>1, Withdrawing DEF UpdateTypeOK, Types
      <4> QED BY <4>1, <4>2
    <3> QED BY <3>1, <3>2
  <2>5. ASSUME NEW c \in Checks, Inspect(c) PROVE UpdateInv'
    <3> DEFINE seen == check[c].seen
    <3>1. Locked(c) /\ seen \in Choice /\ seen = choice
      BY <2>0, <2>5 DEF Inspect, CheckAt, Locked, UpdateInv, HolderKnows, UpdateTypeOK
    <3>2. \/ Withdraw(c)
          \/ \E success \in BOOLEAN, suspend \in BOOLEAN : Conclude(c, Outcome(seen, success, suspend))
          \/ Conclude(c, Outcome([seen EXCEPT !.mode = "notify"], TRUE, FALSE))
      <4>1. CASE Unavailable
        BY <2>5, <4>1 DEF Inspect, Discovered
      <4>2. CASE ~Unavailable /\ ~Discovered
        BY <2>5, <4>2 DEF Inspect
      <4>3. CASE Discovered /\ ~BoundTo(seen)
        BY <2>5, <4>3 DEF Inspect, Discovered, Unavailable
      <4>4. CASE Discovered /\ BoundTo(seen)
        <5> DEFINE looks == ReadOnly(seen, check[c].force)
        <5>1. CASE looks \/ seen.mode = "notify"
          BY <2>5, <4>4, <5>1 DEF Inspect, Discovered, Unavailable
        <5>2. CASE ~looks /\ seen.mode = "auto"
          BY <2>5, <4>4, <5>2 DEF Inspect, Discovered, Unavailable
        <5>3. CASE ~looks /\ seen.mode \notin {"auto", "notify"}
          BY <3>1, <5>3 DEF UpdateInv, Admitted
        <5> QED BY <5>1, <5>2, <5>3
      <4> QED BY <4>1, <4>2, <4>3, <4>4
    <3>3. CASE Withdraw(c)
      BY <2>0, <3>3, Withdrawing DEF Withdraw, Free, UpdateTypeOK, Types
    <3>4. ASSUME NEW success \in BOOLEAN, NEW suspend \in BOOLEAN,
                 Conclude(c, Outcome(seen, success, suspend))
          PROVE  UpdateInv'
      BY <2>0, <3>1, <3>4, OutcomeTyped, Concluding
    <3>5. CASE Conclude(c, Outcome([seen EXCEPT !.mode = "notify"], TRUE, FALSE))
      <4>1. [seen EXCEPT !.mode = "notify"] \in Choice
            /\ [seen EXCEPT !.mode = "notify"].mode = "notify"
        BY <3>1 DEF Choice, PolicyModes
      <4> QED BY <2>0, <3>1, <3>5, <4>1, OutcomeTyped, Concluding
    <3> QED BY <3>2, <3>3, <3>4, <3>5
  <2>6. ASSUME NEW c \in Checks, StartNative(c) PROVE UpdateInv'
    <3>1. check[c] \in Check /\ check[c].step = "holding" /\ check[c].seen.mode = "auto"
      BY <2>0, <2>6 DEF StartNative, CheckAt, MayReplace, UpdateTypeOK, Check
    <3> DEFINE r == [check[c] EXCEPT !.step = "native"]
    <3>2. r \in Check /\ r.step = "native" /\ r.seen = check[c].seen /\ r.force = check[c].force
      BY <3>1 DEF Check
    <3>3. check' = [check EXCEPT ![c] = r]
      BY <2>6 DEF StartNative
    <3> HIDE DEF r
    <3> QED BY <2>0, <2>6, <3>1, <3>2, <3>3, CheckMoves DEF StartNative, Locked, UpdateTypeOK
  <2>7. ASSUME NEW c \in Checks, NativeEnds(c) PROVE UpdateInv'
    <3>1. check[c] \in Check /\ check[c].step = "native" /\ check[c].seen.mode = "auto"
      BY <2>0, <2>7 DEF NativeEnds, CheckAt, UpdateTypeOK, Check, UpdateInv, ReplacesInAuto
    <3>2. PICK succeeded \in BOOLEAN :
            check' = [check EXCEPT ![c].step = "ended", ![c].succeeded = succeeded]
      BY <2>7 DEF NativeEnds
    <3> DEFINE r == [check[c] EXCEPT !.step = "ended", !.succeeded = succeeded]
    <3>3. r \in Check /\ r.step = "ended" /\ r.seen = check[c].seen /\ r.force = check[c].force
      BY <3>1 DEF Check
    <3>4. check' = [check EXCEPT ![c] = r]
      BY <2>0, <3>2 DEF UpdateTypeOK
    <3>5. host' \in Host
      BY <2>0, <2>7, TypedReplacement DEF NativeEnds
    <3> HIDE DEF r
    <3> QED BY <2>7, <3>1, <3>3, <3>4, <3>5, CheckMoves DEF NativeEnds, Locked
  <2>8. ASSUME NEW c \in Checks, CheckReplacement(c) PROVE UpdateInv'
    <3>1. Locked(c) /\ check[c].seen \in Choice /\ check[c].seen = choice
      BY <2>0, <2>8 DEF CheckReplacement, CheckAt, Locked, UpdateInv, HolderKnows, UpdateTypeOK
    <3>2. PICK success \in BOOLEAN, suspend \in BOOLEAN :
            Conclude(c, Outcome(check[c].seen, success, suspend))
      BY <2>0, <2>8 DEF CheckReplacement, UpdateTypeOK
    <3> QED BY <2>0, <3>1, <3>2, OutcomeTyped, Concluding
  <2>9. ASSUME NEW c \in Checks, Die(c) PROVE UpdateInv'
    <3>1. /\ orphans' \in 0..MaxDeaths /\ deaths' \in 0..MaxDeaths /\ orphans' <= deaths'
      BY <2>0, <2>9, UpdateAssumption DEF Die, Types, UpdateTypeOK
    <3> QED BY <2>9, <3>1, Withdrawing DEF Die, Free
  <2>10. ASSUME NEW mode \in {"auto", "notify"}, EnableUpdates(mode) PROVE UpdateInv'
    <3>1. choice' \in Choice
      <4>1. now \in Dues /\ host.source \in Sources
        BY <2>0, UpdateAssumption DEF UpdateTypeOK, Host, Dues
      <4>2. PICK m \in {"auto", "notify"} :
              choice' = [mode |-> m, prompted |-> TRUE, bound |-> host.source,
                         due |-> now, suspended |-> FALSE]
        BY <2>10 DEF EnableUpdates
      <4> QED BY <4>1, <4>2 DEF Choice, PolicyModes
    <3>2. Types'
      <4>1. choices' \in 0..MaxChoices
        BY <2>0, <2>10, Bounds DEF EnableUpdates, UpdateTypeOK
      <4> QED BY <2>0, <2>10, <3>1, <4>1 DEF EnableUpdates, Types, UpdateTypeOK
    <3>3. \A c \in Checks : ~Locked(c)'
      BY <2>10, Unlocked DEF EnableUpdates, Locked
    <3> QED BY <2>10, <3>2, <3>3 DEF EnableUpdates, UpdateInv, HolderKnows, Admitted,
                                     ReplacesInAuto, StaysDistrusted, Locked
  <2>11. CASE DisableUpdates
    <3>1. choice' \in Choice /\ choice'.mode = "off"
      BY <2>0, <2>11 DEF DisableUpdates, Choice, PolicyModes, UpdateTypeOK, Dues
    <3>2. Types'
      BY <2>0, <2>11, <3>1, Bounds DEF DisableUpdates, Types, UpdateTypeOK
    <3>3. \A c \in Checks : ~Locked(c)'
      BY <2>11, Unlocked DEF DisableUpdates, Locked
    <3> QED BY <3>1, <3>2, <3>3 DEF UpdateInv, HolderKnows, Admitted,
                                    ReplacesInAuto, StaysDistrusted, Locked
  <2>12. CASE ChangeHost
    <3>1. host \in Host /\ host.manifest \in 1..2
      BY <2>0 DEF UpdateTypeOK, Host
    <3>2. host' \in Host
      <4>1. ASSUME NEW listing \in {"one", "unclear", "failed"},
                   host' = [host EXCEPT !.listing = listing]
            PROVE  host' \in Host
        BY <3>1, <4>1 DEF Host
      <4>2. ASSUME NEW source \in Sources,
                   host' = [host EXCEPT !.source = source, !.listing = "one",
                                        !.files = 2, !.manifest = 2]
            PROVE  host' \in Host
        <5>1. 2 \in 0..2 /\ 2 \in 1..2
          OBVIOUS
        <5> QED BY <3>1, <4>2, <5>1 DEF Host
      <4>3. ASSUME NEW eligible \in BOOLEAN, host' = [host EXCEPT !.eligible = eligible]
            PROVE  host' \in Host
        BY <3>1, <4>3 DEF Host
      <4>4. ASSUME NEW files \in {0, host.manifest}, host' = [host EXCEPT !.files = files]
            PROVE  host' \in Host
        BY <3>1, <4>4 DEF Host
      <4> QED BY <2>12, <4>1, <4>2, <4>3, <4>4 DEF ChangeHost
    <3>3. Types'
      <4>1. changes' \in 0..MaxChanges
        <5>1. changes < MaxChanges /\ changes' = changes + 1
          BY <2>12 DEF ChangeHost
        <5> QED BY <2>0, <5>1, Bounds DEF UpdateTypeOK
      <4> QED BY <2>0, <2>12, <3>2, <4>1 DEF ChangeHost, Types, UpdateTypeOK
    <3> QED BY <2>12, <3>3, Elsewhere DEF ChangeHost
  <2>13. CASE OrphanEnds
    <3>1. host' \in Host
      BY <2>0, <2>13, TypedReplacement DEF OrphanEnds
    <3>2. Types'
      BY <2>0, <2>13, <3>1, Bounds DEF OrphanEnds, Types, UpdateTypeOK
    <3> QED BY <2>13, <3>2, Elsewhere DEF OrphanEnds
  <2>14. CASE Clock
    <3>1. Types'
      BY <2>0, <2>14, Bounds DEF Clock, Types, UpdateTypeOK
    <3> QED BY <2>14, <3>1, Elsewhere DEF Clock
  <2> QED BY <2>1, <2>2, <2>3, <2>4, <2>5, <2>6, <2>7, <2>8, <2>9, <2>10, <2>11, <2>12, <2>13,
             <2>14 DEF UpdateNext, CheckStep
<1> QED BY <1>1, <1>2, PTL DEF UpdateSpec

(* The policy file, the lock and the processes have their types, for any   *)
(* number of processes and any bound.                                      *)
THEOREM UpdateTypeCorrect == UpdateSpec => []UpdateTypeOK
<1>1. UpdateInv => UpdateTypeOK
  BY DEF UpdateInv, Types
<1> QED BY <1>1, UpdateInvHolds, PTL

(* A live process that replaces the package does so under the policy that  *)
(* is on disk, in auto mode and not suspended, and does so alone.          *)
THEOREM ReplacesOnlyAsChosen == UpdateSpec => []ReplacesAsChosen
<1>1. UpdateInv => ReplacesAsChosen
  <2> SUFFICES ASSUME UpdateInv, NEW c \in Checks, check[c].step = "native"
               PROVE  /\ choice.mode = "auto" /\ ~choice.suspended
                      /\ \A d \in Checks : check[d].step = "native" => d = c
    BY DEF ReplacesAsChosen, CheckAt
  <2>1. Locked(c) /\ check[c].seen = choice /\ choice.mode = "auto"
    BY DEF UpdateInv, HolderKnows, ReplacesInAuto, Locked
  <2>2. ~choice.suspended
    BY <2>1 DEF UpdateInv, Admitted, ReadOnly
  <2>3. \A d \in Checks : check[d].step = "native" => d = c
    BY <2>1 DEF UpdateInv, HolderKnows, Locked
  <2> QED BY <2>1, <2>2, <2>3
<1> QED BY <1>1, UpdateInvHolds, PTL

(* No check lifts the suspension that an integrity failure caused.         *)
THEOREM SuspensionHolds == UpdateSpec => []SuspensionSticks
<1>1. UpdateInv /\ ReplacesAsChosen => SuspensionSticks
  BY DEF ReplacesAsChosen, SuspensionSticks, UpdateInv, StaysDistrusted
<1> QED BY <1>1, UpdateInvHolds, ReplacesOnlyAsChosen, PTL
=============================================================================
