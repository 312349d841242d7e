---------------------------- MODULE ReportServer ----------------------------
(***************************************************************************)
(* The owner's report API (reporting_service/server.py): a table of reports *)
(* behind bearer tokens, deduplicated per principal and content fingerprint,*)
(* purged by age, updated and deleted.  Handlers run on threads of their    *)
(* own; each table access is one locked transaction.                        *)
(***************************************************************************)
EXTENDS Registry

CONSTANTS
  Reports,       \* report ids
  Principals,    \* client tokens
  Admin,         \* the owner's token
  Fingerprint,   \* [Reports -> content fingerprints]
  NoReport

VARIABLES
  rows,      \* the table: report id -> [principal, status, old]
  removed    \* report ids that were deleted or purged

serverVars == <<rows, removed>>

ReportStatuses == {"received", "triaged", "fixed", "closed", "rejected"}

Refused == [report |-> NoReport, duplicate |-> FALSE]

\* Rows past the retention are purged before every submission.
Fresh == {r \in DOMAIN rows : ~rows[r].old}

\* Reports of this principal with the same content.
Twins(principal, report) ==
  {r \in Fresh : rows[r].principal = principal /\ Fingerprint[r] = Fingerprint[report]}

\* Mutant: a duplicate is acknowledged under the id it was submitted with.
DuplicateReplyOwn(report, twin) == [report |-> report, duplicate |-> TRUE]
DuplicateReply(report, twin) == [report |-> twin, duplicate |-> TRUE]

\* do_POST and submit.  A report id that is in the table under another
\* principal violates the primary key: the handler dies without an answer.
SubmitReply(principal, report) ==
  CASE Twins(principal, report) # {} ->
         DuplicateReply(report, CHOOSE twin \in Twins(principal, report) : TRUE)
    [] Twins(principal, report) = {} /\ report \in Fresh -> Refused
    [] OTHER -> [report |-> report, duplicate |-> FALSE]

StoreReport(principal, report) ==
  LET kept == Restrict(rows, Fresh)
      new == Twins(principal, report) = {} /\ report \notin Fresh
  IN  /\ rows' = IF new
                 THEN Put(kept, report, [principal |-> principal, status |-> "received", old |-> FALSE])
                 ELSE kept
      /\ removed' = removed \cup (DOMAIN rows \ Fresh)

\* do_PATCH and update, the owner's triage; a fix names the version.
UpdateReport(report, status, version) ==
  /\ report \in DOMAIN rows
  /\ status = "fixed" => version
  /\ rows' = [rows EXCEPT ![report].status = status]
  /\ UNCHANGED removed

\* do_DELETE and delete, for the report's own principal and the owner.
DeleteReport(report, principal) ==
  /\ report \in DOMAIN rows
  /\ principal = Admin \/ rows[report].principal = principal
  /\ rows' = Drop(rows, {report})
  /\ removed' = removed \cup {report}

\* Time passes the retention of a report.
Age(report) ==
  /\ report \in DOMAIN rows /\ ~rows[report].old
  /\ rows' = [rows EXCEPT ![report].old = TRUE]
  /\ UNCHANGED removed

\* The service restarts, and purges as it opens the table.
Restart ==
  /\ rows' = Restrict(rows, Fresh)
  /\ removed' = removed \cup (DOMAIN rows \ Fresh)

ServerInit == rows = <<>> /\ removed = {}

ServerTypeOK ==
  /\ DOMAIN rows \subseteq Reports /\ removed \subseteq Reports
  /\ \A r \in DOMAIN rows :
       rows[r].principal \in Principals /\ rows[r].status \in ReportStatuses
  /\ \A r, s \in DOMAIN rows :
       rows[r].principal = rows[s].principal /\ Fingerprint[r] = Fingerprint[s] => r = s
=============================================================================
