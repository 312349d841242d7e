---------------------------- MODULE Contribution ----------------------------
(***************************************************************************)
(* Owner contributions (_internal/skill_quality/contribution.py): a local   *)
(* proposal becomes a draft a person approves, and one submission per draft *)
(* creates one GitHub issue.  Submitters are processes that may run side by *)
(* side and stop between any two steps; GitHub may create the issue and     *)
(* lose the answer.                                                        *)
(***************************************************************************)
EXTENDS Naturals

CONSTANTS
  Contributions,   \* drafts, one per contribution id
  Submitters,      \* processes running contribution-submit
  NoDraft          \* what an idle submitter works on

VARIABLES
  drafts,        \* [Contributions -> {"none", "ready", "expired"}]
  submission,    \* [Contributions -> the contents of its .submission.json]
  submitter,     \* [Submitters -> [step, draft]]
  issues,        \* [Contributions -> issues GitHub holds for it]
  outbound,      \* contributions in the store's outbound registry
  told           \* contributions some caller was told are SUBMITTED

contributionVars == <<drafts, submission, submitter, issues, outbound, told>>

ASSUME ContributionAssumption == NoDraft \notin Contributions

SubmissionStates == {"absent", "empty", "ATTEMPTING", "UNKNOWN", "SUBMITTED"}
SubmitterSteps == {"idle", "lookup", "claim", "write", "create", "created", "unsure", "record"}
Resting == [step |-> "idle", draft |-> NoDraft]

SubmitterAt(s, step) == submitter[s].step = step
SubmitterGoes(s, step) == submitter' = [submitter EXCEPT ![s].step = step]
SubmitterEnds(s) == submitter' = [submitter EXCEPT ![s] = Resting]
SubmissionSaved(s, state) == submission' = [submission EXCEPT ![submitter[s].draft] = state]

-----------------------------------------------------------------------------
\* prepare_contribution: an active proposal gives a fresh contribution id.
Prepare(c) ==
  /\ drafts[c] = "none"
  /\ drafts' = [drafts EXCEPT ![c] = "ready"]
  /\ UNCHANGED <<submission, submitter, issues, outbound, told>>

\* An approval is good for a day.
Expire(c) ==
  /\ drafts[c] = "ready"
  /\ drafts' = [drafts EXCEPT ![c] = "expired"]
  /\ UNCHANGED <<submission, submitter, issues, outbound, told>>

\* submit_contribution with the exact approval: a submission on file decides.
Submit(s, c) ==
  /\ SubmitterAt(s, "idle") /\ drafts[c] = "ready"
  /\ CASE submission[c] = "absent" ->
            submitter' = [submitter EXCEPT ![s] = [step |-> "lookup", draft |-> c]] /\ UNCHANGED told
       [] submission[c] = "SUBMITTED" ->
            submitter' = [submitter EXCEPT ![s] = [step |-> "record", draft |-> c]]
            /\ told' = told \cup {c}
       [] OTHER -> UNCHANGED <<submitter, told>>
  /\ UNCHANGED <<drafts, submission, issues, outbound>>

\* The visibility lookup; without an answer, or when the repository is public
\* and that was not confirmed, the call ends.
Lookup(s, permitted) ==
  /\ SubmitterAt(s, "lookup")
  /\ IF permitted THEN SubmitterGoes(s, "claim") ELSE SubmitterEnds(s)
  /\ UNCHANGED <<drafts, submission, issues, outbound, told>>

\* Mutant: the claim file is opened without O_EXCL.
ClaimableAlways(c) == TRUE
Claimable(c) == submission[c] = "absent"

\* _claim_submission: the file is created by one submitter only.
ClaimSubmission(s) ==
  /\ SubmitterAt(s, "claim")
  /\ LET c == submitter[s].draft IN
     /\ Claimable(c) => SubmissionSaved(s, "empty") /\ SubmitterGoes(s, "write") /\ UNCHANGED told
     /\ ~Claimable(c) =>
          /\ IF submission[c] = "SUBMITTED" THEN SubmitterGoes(s, "record") /\ told' = told \cup {c}
             ELSE SubmitterEnds(s) /\ UNCHANGED told
          /\ UNCHANGED submission
  /\ UNCHANGED <<drafts, issues, outbound>>

\* ... and then written; a failed write removes it, or leaves it if even that fails.
WriteClaim(s) ==
  /\ SubmitterAt(s, "write")
  /\ SubmissionSaved(s, "ATTEMPTING") /\ SubmitterGoes(s, "create")
  /\ UNCHANGED <<drafts, issues, outbound, told>>

WriteClaimFails(s, removed) ==
  /\ SubmitterAt(s, "write")
  /\ IF removed THEN SubmissionSaved(s, "absent") ELSE UNCHANGED submission
  /\ SubmitterEnds(s)
  /\ UNCHANGED <<drafts, issues, outbound, told>>

\* gh issue create: the issue may exist whether or not an answer comes back.
\* The title and body are built from the draft, which may have expired: the
\* call then ends before anything is sent, and the claim stays on file.
CreateIssue(s, made, answer) ==
  /\ SubmitterAt(s, "create") /\ drafts[submitter[s].draft] = "ready"
  /\ answer => made
  /\ issues' = IF made THEN [issues EXCEPT ![submitter[s].draft] = @ + 1] ELSE issues
  /\ SubmitterGoes(s, IF answer THEN "created" ELSE "unsure")
  /\ UNCHANGED <<drafts, submission, outbound, told>>

CreateExpired(s) ==
  /\ SubmitterAt(s, "create") /\ drafts[submitter[s].draft] = "expired"
  /\ SubmitterEnds(s)
  /\ UNCHANGED <<drafts, submission, issues, outbound, told>>

\* Mutant: an outcome nobody confirmed is taken for no issue.
UnsureRetry(s) == SubmissionSaved(s, "absent")
Unsure(s) == SubmissionSaved(s, "UNKNOWN")

\* _best_effort_unknown: the note may fail to be written, and the claim stays.
NoteUnknown(s, written) ==
  /\ SubmitterAt(s, "unsure")
  /\ IF written THEN Unsure(s) ELSE UNCHANGED submission
  /\ SubmitterEnds(s)
  /\ UNCHANGED <<drafts, issues, outbound, told>>

\* _finish_submission, and what follows when it fails.
FinishSubmission(s) ==
  /\ SubmitterAt(s, "created")
  /\ SubmissionSaved(s, "SUBMITTED") /\ SubmitterGoes(s, "record")
  /\ told' = told \cup {submitter[s].draft}
  /\ UNCHANGED <<drafts, issues, outbound>>

FinishFails(s) ==
  /\ SubmitterAt(s, "created") /\ SubmitterGoes(s, "unsure")
  /\ UNCHANGED <<drafts, submission, issues, outbound, told>>

\* The command line enters a confirmed issue in the store's registry.
RecordOutbound(s) ==
  /\ SubmitterAt(s, "record")
  /\ outbound' = outbound \cup {submitter[s].draft}
  /\ SubmitterEnds(s)
  /\ UNCHANGED <<drafts, submission, issues, told>>

\* A submitter stops; a claim it had just opened stays empty.
SubmitterDies(s) ==
  /\ ~SubmitterAt(s, "idle") /\ SubmitterEnds(s)
  /\ UNCHANGED <<drafts, submission, issues, outbound, told>>

ContributionInit ==
  /\ drafts = [c \in Contributions |-> "none"]
  /\ submission = [c \in Contributions |-> "absent"]
  /\ submitter = [s \in Submitters |-> Resting]
  /\ issues = [c \in Contributions |-> 0]
  /\ outbound = {} /\ told = {}

SubmitterStep(s) ==
  \/ \E c \in Contributions : Submit(s, c)
  \/ \E ok \in BOOLEAN : Lookup(s, ok) \/ WriteClaimFails(s, ok) \/ NoteUnknown(s, ok)
  \/ \E made, answer \in BOOLEAN : CreateIssue(s, made, answer)
  \/ ClaimSubmission(s) \/ WriteClaim(s) \/ CreateExpired(s)
  \/ FinishSubmission(s) \/ FinishFails(s) \/ RecordOutbound(s) \/ SubmitterDies(s)

ContributionNext ==
  \/ \E c \in Contributions : Prepare(c) \/ Expire(c)
  \/ \E s \in Submitters : SubmitterStep(s)

ContributionSpec == ContributionInit /\ [][ContributionNext]_contributionVars

-----------------------------------------------------------------------------
ContributionTypeOK ==
  /\ drafts \in [Contributions -> {"none", "ready", "expired"}]
  /\ submission \in [Contributions -> SubmissionStates]
  /\ submitter \in [Submitters -> [step : SubmitterSteps, draft : Contributions \cup {NoDraft}]]
  /\ \A s \in Submitters : submitter[s].draft = NoDraft <=> submitter[s].step = "idle"
  /\ issues \in [Contributions -> Nat]
  /\ outbound \subseteq Contributions /\ told \subseteq Contributions

\* A contribution creates at most one issue, however many submitters run,
\* stop, lose their answers or fail to write what they learned; the file, the
\* caller's answer and the registry each say SUBMITTED only of an issue that
\* exists; and an issue they do not know of is guarded by a submission file
\* that stops every later attempt.
IssueOnce == \A c \in Contributions : issues[c] <= 1
IssuesAccounted ==
  /\ IssueOnce
  /\ \A c \in Contributions :
       /\ (submission[c] = "SUBMITTED" \/ c \in told \/ c \in outbound) => issues[c] = 1
       /\ issues[c] > 0 => submission[c] \in {"ATTEMPTING", "UNKNOWN", "SUBMITTED"}
=============================================================================
