--------------------------- MODULE ProblemReports ---------------------------
(***************************************************************************)
(* The problem reporter (problem_report.py) on one installation, with the   *)
(* owner API and GitHub behind it.  Every command is a process: it loads    *)
(* the policy, perhaps sends, and writes back the policy it loaded, with no *)
(* lock; requests may be lost, or arrive after the client gave up.          *)
(***************************************************************************)
EXTENDS ReportServer, Naturals

CONSTANTS
  Reporters,        \* processes
  TokenOf,          \* [Reporters -> Principals], the token in the environment
  NoPolicy,         \* the policy file does not exist
  NoReceiptYet,
  Triage,           \* the statuses the owner gives
  MaxInvocations    \* bound on the commands started

VARIABLES
  policy,       \* the policy file: [mode, transport, installation]
  reporter,     \* [Reporters -> [step, command, copy, remote]]
  outbox,       \* prepared reports: report -> the installation id in it
  inflight,     \* POST requests on their way to the server: [from, report]
  receipt,      \* [Reports -> the remote id in the local receipt]
  issues_of,    \* [Reports -> issues on GitHub]
  sent,         \* history: [report, approved, transport] handed to a transport
  chosen,       \* history: the last mode a configure command saved
  autonomous,   \* history: some configure chose auto-minimal with the API
  outdated,     \* history: processes that loaded nothing since the last configure
  overwritten,  \* history: one of them wrote another mode over what it chose
  invocations

clientVars == <<policy, reporter, outbox, inflight, receipt, issues_of>>
sendHistory == <<sent, chosen, autonomous, outdated, overwritten>>
reportVars == <<serverVars, clientVars, sendHistory, invocations>>

Modes == {"unconfigured", "ask", "auto-minimal", "off"}
Transports == {"github", "api"}

Configures == [name : {"configure"}, mode : Modes \ {"unconfigured"}, transport : Transports]
Prepares == [name : {"prepare"}, report : Reports]
Submits == [name : {"submit"}, report : Reports, approved : BOOLEAN, public : BOOLEAN]
NoCommand == [name |-> "none"]

\* The policies a device may hold, one from before the transport rule included.
Policies == [mode : Modes, transport : Transports, installation : Reporters \cup {"legacy"}]

ASSUME ReportAssumption ==
  /\ NoPolicy \notin Policies
  /\ TokenOf \in [Reporters -> Principals]
  /\ Triage \subseteq ReportStatuses

IdleReporter == [step |-> "idle", command |-> NoCommand, copy |-> NoPolicy, remote |-> NoReport]
InStep(p, step) == reporter[p].step = step
Moves(p, step) == reporter' = [reporter EXCEPT ![p].step = step]
Stops(p) == reporter' = [reporter EXCEPT ![p] = IdleReporter]

\* default_policy: an installation id of its own, named after its maker.
DefaultPolicy(p) == [mode |-> "unconfigured", transport |-> "github", installation |-> p]

\* PolicyStore.save of a policy loaded before: the whole file is replaced,
\* whatever a configure made of it since.
Save(p, value) ==
  /\ policy' = value
  /\ overwritten' = (overwritten \/ (p \in outdated /\ value.mode # chosen))

\* load(create=True): the first command on a device writes the default.
Load(p, command) ==
  /\ InStep(p, "idle") /\ invocations < MaxInvocations
  /\ command.name = "submit" => command.report \in DOMAIN outbox
  /\ command.name = "prepare" => command.report \notin DOMAIN outbox
  /\ reporter' = [reporter EXCEPT ![p] =
       [IdleReporter EXCEPT !.command = command,
          !.step = IF policy = NoPolicy THEN "create" ELSE "loaded",
          !.copy = IF policy = NoPolicy THEN DefaultPolicy(p) ELSE policy]]
  /\ invocations' = invocations + 1 /\ outdated' = outdated \ {p}
  /\ UNCHANGED <<serverVars, policy, outbox, inflight, receipt, issues_of,
                 sent, chosen, autonomous, overwritten>>

CreatePolicy(p) ==
  /\ InStep(p, "create") /\ Save(p, reporter[p].copy) /\ Moves(p, "loaded")
  /\ UNCHANGED <<serverVars, outbox, inflight, receipt, issues_of,
                 sent, chosen, autonomous, outdated, invocations>>

\* configure: automatic reports need the private API.
Configure(p) ==
  LET c == reporter[p].command IN
  /\ InStep(p, "loaded") /\ c.name = "configure"
  /\ IF c.mode = "auto-minimal" /\ c.transport = "github"
     THEN UNCHANGED <<policy, chosen, autonomous, outdated, overwritten>>
     ELSE /\ policy' = [reporter[p].copy EXCEPT !.mode = c.mode, !.transport = c.transport]
          /\ chosen' = c.mode /\ outdated' = Reporters /\ overwritten' = FALSE
          /\ autonomous' = (autonomous \/ c.mode = "auto-minimal")
  /\ Stops(p)
  /\ UNCHANGED <<serverVars, outbox, inflight, receipt, issues_of, sent, invocations>>

\* prepare: the report carries the installation id of the policy it saw.
Prepare(p) ==
  LET c == reporter[p].command IN
  /\ InStep(p, "loaded") /\ c.name = "prepare"
  /\ outbox' = Put(outbox, c.report, reporter[p].copy.installation)
  /\ Stops(p)
  /\ UNCHANGED <<serverVars, policy, inflight, receipt, issues_of, sendHistory, invocations>>

\* Mutant: policies from before the private transport rule are honoured.
LegacyHonoured(copy) == FALSE
LegacyAutomatic(copy) == copy.mode = "auto-minimal" /\ copy.transport = "github"

\* The checks of submit before anything leaves the device.
MayLeave(copy, c) ==
  /\ outbox[c.report] = copy.installation
  /\ ~LegacyAutomatic(copy)
  /\ copy.mode = "auto-minimal" \/ c.approved
  /\ c.public => copy.transport = "github" /\ c.approved /\ copy.mode # "auto-minimal"

CheckConsent(p) ==
  LET c == reporter[p].command IN
  /\ InStep(p, "loaded") /\ c.name = "submit"
  /\ IF MayLeave(reporter[p].copy, c) THEN Moves(p, "send") ELSE Stops(p)
  /\ UNCHANGED <<serverVars, policy, outbox, inflight, receipt, issues_of, sendHistory, invocations>>

Handed(p) ==
  sent' = sent \cup {[report |-> reporter[p].command.report, transport |-> reporter[p].copy.transport,
                      approved |-> reporter[p].command.approved]}

\* GitHubTransport.send: without a visibility, or public and not allowed,
\* nothing is sent; else an issue may be made and its answer lost.
SendGitHub(p, public, made, answer) ==
  LET c == reporter[p].command IN
  /\ InStep(p, "send") /\ reporter[p].copy.transport = "github"
  /\ answer => made
  /\ IF public /\ ~c.public THEN Moves(p, "failed") /\ UNCHANGED <<issues_of, sent>>
     ELSE /\ issues_of' = IF made THEN [issues_of EXCEPT ![c.report] = @ + 1] ELSE issues_of
          /\ Handed(p)
          /\ IF answer THEN reporter' = [reporter EXCEPT ![p].step = "sent", ![p].remote = c.report]
             ELSE Moves(p, "failed")
  /\ UNCHANGED <<serverVars, policy, outbox, inflight, receipt,
                 chosen, autonomous, outdated, overwritten, invocations>>

\* ApiTransport.send, until the request is on its way.
PostReport(p) ==
  /\ InStep(p, "send") /\ reporter[p].copy.transport = "api"
  /\ inflight' = inflight \cup {[from |-> p, report |-> reporter[p].command.report]}
  /\ Handed(p) /\ Moves(p, "waiting")
  /\ UNCHANGED <<serverVars, policy, outbox, receipt, issues_of,
                 chosen, autonomous, outdated, overwritten, invocations>>

\* The server handles a request, or refuses it (its rate limit, a token it
\* does not know); the answer reaches the client if it still waits.
HandlePost(request, refused, delivered) ==
  LET p == request.from
      reply == SubmitReply(TokenOf[p], request.report)
      waits == InStep(p, "waiting") /\ reporter[p].command.report = request.report
  IN
  /\ request \in inflight /\ inflight' = inflight \ {request}
  /\ IF refused THEN UNCHANGED serverVars ELSE StoreReport(TokenOf[p], request.report)
  /\ IF waits /\ delivered /\ ~refused /\ reply # Refused
     THEN reporter' = [reporter EXCEPT ![p].step = "sent", ![p].remote = reply.report]
     ELSE IF waits THEN Moves(p, "failed") ELSE UNCHANGED reporter
  /\ UNCHANGED <<policy, outbox, receipt, issues_of, sendHistory, invocations>>

LoseRequest(request) ==
  /\ request \in inflight /\ inflight' = inflight \ {request}
  /\ UNCHANGED <<serverVars, policy, reporter, outbox, receipt, issues_of, sendHistory, invocations>>

GiveUp(p) ==
  /\ InStep(p, "waiting") /\ Moves(p, "failed")
  /\ UNCHANGED <<serverVars, policy, outbox, inflight, receipt, issues_of, sendHistory, invocations>>

\* What submit writes after a failed delivery.
\* Mutant: a failed delivery writes a policy built anew.
SavedAfterFailureReset(p) == DefaultPolicy(p)
SavedAfterFailure(p) == reporter[p].copy

SaveFailure(p) ==
  /\ InStep(p, "failed") /\ Save(p, SavedAfterFailure(p)) /\ Stops(p)
  /\ UNCHANGED <<serverVars, outbox, inflight, receipt, issues_of,
                 sent, chosen, autonomous, outdated, invocations>>

\* After a delivery: the policy first, then the receipt.
SaveSuccess(p) ==
  /\ InStep(p, "sent") /\ Save(p, reporter[p].copy) /\ Moves(p, "receipt")
  /\ UNCHANGED <<serverVars, outbox, inflight, receipt, issues_of,
                 sent, chosen, autonomous, outdated, invocations>>

SaveReceipt(p) ==
  /\ InStep(p, "receipt")
  /\ receipt' = [receipt EXCEPT ![reporter[p].command.report] =
                   [transport |-> reporter[p].copy.transport, remote |-> reporter[p].remote]]
  /\ Stops(p)
  /\ UNCHANGED <<serverVars, policy, outbox, inflight, issues_of, sendHistory, invocations>>

\* remote_delete, for API policies; its answer changes nothing here.
RemoteDelete(p, report) ==
  /\ InStep(p, "idle") /\ policy # NoPolicy /\ policy.transport = "api"
  /\ DeleteReport(report, TokenOf[p])
  /\ UNCHANGED <<clientVars, sendHistory, invocations>>

ReporterDies(p) ==
  /\ ~InStep(p, "idle") /\ Stops(p)
  /\ UNCHANGED <<serverVars, policy, outbox, inflight, receipt, issues_of, sendHistory, invocations>>

\* The owner's side of the service.
Owner ==
  /\ \/ \E r \in Reports :
          \/ DeleteReport(r, Admin) \/ Age(r)
          \/ \E status \in Triage, version \in BOOLEAN :
               UpdateReport(r, status, version)
     \/ Restart
  /\ UNCHANGED <<clientVars, sendHistory, invocations>>

\* A device without a policy, or with reports prepared under one from before
\* the transport rule.
LegacyPolicy == [mode |-> "auto-minimal", transport |-> "github", installation |-> "legacy"]

ReportInit ==
  /\ ServerInit
  /\ \/ policy = NoPolicy /\ outbox = <<>>
     \/ policy = LegacyPolicy /\ outbox = [r \in Reports |-> LegacyPolicy.installation]
  /\ reporter = [p \in Reporters |-> IdleReporter]
  /\ inflight = {}
  /\ receipt = [r \in Reports |-> NoReceiptYet] /\ issues_of = [r \in Reports |-> 0]
  /\ sent = {} /\ autonomous = FALSE /\ invocations = 0
  /\ outdated = {} /\ overwritten = FALSE
  /\ chosen = IF policy = NoPolicy THEN "unconfigured" ELSE policy.mode

ReportNext ==
  \/ \E p \in Reporters :
       \/ \E c \in Configures \cup Prepares \cup Submits : Load(p, c)
       \/ CreatePolicy(p) \/ Configure(p) \/ Prepare(p) \/ CheckConsent(p)
       \/ \E public, made, answer \in BOOLEAN : SendGitHub(p, public, made, answer)
       \/ PostReport(p) \/ GiveUp(p) \/ SaveFailure(p) \/ SaveSuccess(p) \/ SaveReceipt(p)
       \/ ReporterDies(p)
       \/ \E r \in Reports : RemoteDelete(p, r)
  \/ \E request \in inflight :
       \/ LoseRequest(request)
       \/ \E refused, delivered \in BOOLEAN : HandlePost(request, refused, delivered)
  \/ Owner

ReportSpec == ReportInit /\ [][ReportNext]_reportVars

-----------------------------------------------------------------------------
ReportTypeOK ==
  /\ ServerTypeOK
  /\ policy \in Policies \cup {NoPolicy}
  /\ \A p \in Reporters :
       reporter[p].step \in {"idle", "create", "loaded", "send", "waiting", "failed", "sent", "receipt"}
       /\ (reporter[p].copy = NoPolicy <=> InStep(p, "idle"))
  /\ DOMAIN outbox \subseteq Reports
  /\ \A q \in inflight : q.from \in Reporters /\ q.report \in Reports

\* An API receipt names a report the server holds, unless it was deleted or
\* purged since: neither deduplication, nor a lost or late answer, nor a key
\* clash between tokens leaves a receipt for something that was never stored.
ReceiptsNameReports ==
  \A r \in Reports :
    receipt[r] # NoReceiptYet /\ receipt[r].transport = "api" =>
      receipt[r].remote \in DOMAIN rows \cup removed

\* A report nobody approved leaves the device only through the private API,
\* and only after some configure chose auto-minimal.
UnapprovedOnlyIfChosen ==
  \A x \in sent : x.approved \/ (x.transport = "api" /\ autonomous)

\* The mode on file is the one the last configure chose, unless a command
\* that loaded its policy before that configure (a submit in flight, a first
\* command about to write the default) has written an older mode over it
\* since.  Commands that loaded later, that die, that only prepare or that
\* write back the same mode lose no choice.
ChoiceStandsUnlessOverwritten ==
  overwritten \/ policy = NoPolicy \/ policy.mode = chosen
=============================================================================
