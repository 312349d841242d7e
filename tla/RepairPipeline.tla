--------------------------- MODULE RepairPipeline ---------------------------
(***************************************************************************)
(* From a labelled issue to a draft pull request, in the two pipelines of   *)
(* this repository: the reusable managed-skill repair (managed_fleet.py     *)
(* writes its policy, managed_skill_core.py is each job's trusted part) and *)
(* the maintainer of the skill itself (intake.py, patch_guard.py).  A run   *)
(* is a chain of jobs; any job may die between two effects, and the owner   *)
(* may run it and the jobs behind it again.  The runner, GitHub and the     *)
(* repairing agent are external.                                            *)
(***************************************************************************)
EXTENDS Naturals

CONSTANTS
  Runs,           \* workflow runs, one per label event on the one issue
  KindOf,         \* [Runs -> {"managed", "maintainer"}]
  Pins,           \* full commit SHAs of the reusable workflow
  Patches,        \* what the agent may leave in its checkout
  PathsOf,        \* [Patches -> SUBSET Paths], the paths it touches
  NoManifest, NoPatch,
  MaxReruns,      \* bound: jobs run again
  MaxOwnerSteps   \* bound: what the owner does to the issue and the default branch

ASSUME RepairAssumption ==
  Pins # {} /\ MaxReruns \in Nat /\ MaxOwnerSteps \in Nat

VARIABLES
  repository,     \* the default branch: [base, enabled, pin, caller]
  issue,          \* the issue: [updated, open, labelled, bounded]
  running,        \* [Runs -> the run's record, see RunRecord]
  branches,       \* branch name -> [base, patch] on GitHub
  pulls,          \* branches with a draft pull request
  announced,      \* [by, tree]: what an issue comment said is validated
  validated,      \* history: <<run, tree>> that passed its validation job
  reruns, ownerSteps

onGitHub == <<branches, pulls, announced>>
repairVars == <<repository, issue, running, onGitHub, validated, reruns, ownerSteps>>

\* Kinds of paths a candidate may touch.
Paths == {"docs", "package", "manifest", "version", "denied", "outside"}
VersionFiles == {"manifest", "version"}

Jobs == {"prepare", "candidate", "validate", "publish"}
JobSteps == {"prepare", "candidate", "agent", "validate", "publish", "guard",
             "push", "pull", "comment", "done", "failed", "off"}
Names == Runs \X (0..MaxReruns)
Tree(manifest, patch) == [base |-> manifest.base, patch |-> patch]
NewRun(snapshot) ==
  [step |-> "off", failed |-> "prepare", attempt |-> 0, nonce |-> 0, event |-> snapshot,
   commit |-> repository, manifest |-> NoManifest, patch |-> NoPatch, stale |-> FALSE]

\* The jobs of a run share files only through the artifacts kept here.
Repository == [base : Nat, enabled : BOOLEAN, pin : Pins, caller : Pins]
Issue == [updated : Nat, open : BOOLEAN, labelled : BOOLEAN, bounded : BOOLEAN]
Manifest == [base : Nat, issue : Nat, enabled : BOOLEAN, pin : Pins]
RunRecord ==
  [step : JobSteps, failed : Jobs, attempt : 0..MaxReruns, nonce : 0..MaxReruns,
   event : Issue, commit : Repository, manifest : Manifest \cup {NoManifest},
   patch : Patches \cup {NoPatch}, stale : BOOLEAN]

RepairTypeOK ==
  /\ repository \in Repository
  /\ issue \in Issue
  /\ running \in [Runs -> RunRecord]
  /\ \A r \in Runs : running[r].nonce <= running[r].attempt /\ running[r].attempt <= reruns
  /\ pulls \subseteq DOMAIN branches
  /\ reruns \in 0..MaxReruns /\ ownerSteps \in 0..MaxOwnerSteps

RepairInit ==
  /\ LET pin == CHOOSE p \in Pins : TRUE IN
     repository = [base |-> 0, enabled |-> TRUE, pin |-> pin, caller |-> pin]
  /\ \E bounded \in BOOLEAN :
       issue = [updated |-> 0, open |-> TRUE, labelled |-> FALSE, bounded |-> bounded]
  /\ running = [r \in Runs |-> NewRun(issue)]
  /\ branches = <<>> /\ pulls = {} /\ announced = {} /\ validated = {}
  /\ reruns = 0 /\ ownerSteps = 0

RunAt(r, step) == running[r].step = step
Managed(r) == KindOf[r] = "managed"
Goes(r, step) == running' = [running EXCEPT ![r].step = step]
\* The job ends with an error; the owner may run it again.
Fails(r, job) == running' = [running EXCEPT ![r].step = "failed", ![r].failed = job]
Busy(r) == running[r].step \notin {"off", "prepare", "failed", "done"}
\* The concurrency group of a workflow: one run per issue at a time; one that
\* has not begun its prepare job waits, or is replaced by a later one.
GroupFree(r) == \A q \in Runs \ {r} : Managed(q) = Managed(r) => ~Busy(q)

-----------------------------------------------------------------------------
(* The owner.                                                              *)

\* What was authorized is no longer what stands, for every run that is not in
\* its publishing job: that job has verified the state it started from.
Publishing(r) == running[r].step \in {"guard", "push", "pull", "comment"}
Outdated == [r \in Runs |-> IF Publishing(r) THEN running[r] ELSE [running[r] EXCEPT !.stale = TRUE]]

OwnerStep == ownerSteps < MaxOwnerSteps /\ ownerSteps' = ownerSteps + 1

\* The owner labels the issue: one run starts with this event and this commit.
Label(r) ==
  /\ RunAt(r, "off") /\ issue.open /\ ~issue.labelled
  /\ issue' = [issue EXCEPT !.labelled = TRUE, !.updated = @ + 1]
  /\ running' = [Outdated EXCEPT ![r] = [NewRun(issue') EXCEPT !.step = "prepare"]]
  /\ OwnerStep /\ UNCHANGED <<repository, onGitHub, validated, reruns>>

ChangeIssue ==
  /\ \/ issue' = [issue EXCEPT !.updated = @ + 1]
     \/ issue' = [issue EXCEPT !.updated = @ + 1, !.labelled = FALSE]
     \/ issue.open /\ issue' = [issue EXCEPT !.updated = @ + 1, !.open = FALSE]
  /\ running' = Outdated
  /\ OwnerStep /\ UNCHANGED <<repository, onGitHub, validated, reruns>>

\* A commit on the default branch: any change, a `managed_fleet.py disable
\* --apply`, or a policy and a caller pin moved apart by half a rollback.
Commit(change) ==
  /\ repository' = [change EXCEPT !.base = repository.base + 1]
  /\ running' = Outdated
  /\ OwnerStep /\ UNCHANGED <<issue, onGitHub, validated, reruns>>

CommitCode == Commit(repository)
DisableFleet == repository.enabled /\ Commit([repository EXCEPT !.enabled = FALSE])
Repin(pin) == pin # repository.pin /\ Commit([repository EXCEPT !.pin = pin])
RepinCaller(pin) == pin # repository.caller /\ Commit([repository EXCEPT !.caller = pin])

\* "Re-run" of a job: it and every job behind it run again, with the artifacts
\* of the jobs before it.  Only a new prepare job makes a new authorization.
Rerun(r, job) ==
  /\ running[r].step \in {"failed", "done"} /\ GroupFree(r)
  /\ reruns < MaxReruns /\ reruns' = reruns + 1
  /\ CASE job = "prepare"   -> TRUE
       [] job = "candidate" -> running[r].failed # "prepare"
       [] job = "validate"  -> running[r].failed \in {"validate", "publish"}
       [] job = "publish"   -> running[r].failed = "publish"
  /\ running' = [running EXCEPT ![r].step = job, ![r].attempt = @ + 1]
  /\ UNCHANGED <<repository, issue, onGitHub, validated, ownerSteps>>

-----------------------------------------------------------------------------
(* The prepare job.                                                        *)

\* validate_policy and the pin: the caller, which GitHub reads at the commit of
\* the event also for a job run again, names the commit the policy names.
PolicyBinds(r) == repository.pin = running[r].commit.caller

\* What the prepare job checks out: the default branch as it is now, or for the
\* maintainer the commit of the event.
Base(r) == IF Managed(r) THEN repository.base ELSE running[r].commit.base

\* build_authorization: the event itself is an open, labelled issue.
EventEligible(event) == event.open /\ event.labelled

\* prepare_task accepts only the two bodies this repository's reporters write,
\* with a title, a classification and a fingerprint that agree.
BodyBounded(event) == event.bounded

Intake(r) ==
  LET event == running[r].event IN
  /\ RunAt(r, "prepare") /\ GroupFree(r)
  /\ IF /\ EventEligible(event)
        /\ IF Managed(r) THEN PolicyBinds(r) ELSE BodyBounded(event)
     THEN running' = [running EXCEPT
            ![r].manifest = [base |-> Base(r), issue |-> event.updated,
                             enabled |-> repository.enabled, pin |-> repository.pin],
            ![r].nonce = running[r].attempt, ![r].patch = NoPatch,
            ![r].stale = event.updated # issue.updated \/ Base(r) # repository.base,
            ![r].failed = "prepare",
            ![r].step = IF Managed(r) /\ ~repository.enabled THEN "done" ELSE "candidate"]
     ELSE Fails(r, "prepare")
  /\ UNCHANGED <<repository, issue, onGitHub, validated, reruns, ownerSteps>>

\* Mutant: a commented, relabelled or edited issue is still the same issue.
LiveSameBase(manifest) == manifest.base = repository.base

\* verify_live: issue, base and policy are those of the manifest; it has not
\* expired (two hours: the job may find it expired at any time).
Live(manifest) ==
  /\ manifest.issue = issue.updated /\ issue.open
  /\ manifest.base = repository.base
  /\ manifest.enabled = repository.enabled /\ manifest.pin = repository.pin

Verify(r, job, next) ==
  /\ \/ (~Managed(r) \/ Live(running[r].manifest)) /\ Goes(r, next)
     \/ Managed(r) /\ Fails(r, job)
  /\ UNCHANGED <<repository, issue, onGitHub, validated, reruns, ownerSteps>>

-----------------------------------------------------------------------------
(* The candidate and validate jobs.                                        *)

\* guard_staged: allowed roots only, and a package change moves every version file.
GuardStaged(paths) ==
  /\ paths # {} /\ paths \cap {"denied", "outside"} = {}
  /\ paths \cap {"package", "manifest"} # {} => VersionFiles \subseteq paths

\* inspect_staged: the same, and version files move together or not at all.
InspectStaged(paths) ==
  /\ paths # {} /\ paths \cap {"denied", "outside"} = {}
  /\ paths \cap ({"package"} \cup VersionFiles) # {} => VersionFiles \subseteq paths

Guarded(r, patch) ==
  IF Managed(r) THEN GuardStaged(PathsOf[patch]) ELSE InspectStaged(PathsOf[patch])

VerifyCandidate(r) == RunAt(r, "candidate") /\ Verify(r, "candidate", "agent")

\* The agent leaves some patch; the root-owned collector guards it.
Collect(r) ==
  /\ RunAt(r, "agent")
  /\ \/ \E patch \in Patches :
          /\ Guarded(r, patch)
          /\ running' = [running EXCEPT ![r].step = "validate", ![r].patch = patch]
     \/ (\E patch \in Patches : ~Guarded(r, patch)) /\ Fails(r, "candidate")
  /\ UNCHANGED <<repository, issue, onGitHub, validated, reruns, ownerSteps>>

\* The name a publication goes by: the authorization, or this very attempt.
Name(r) == <<r, IF Managed(r) THEN running[r].nonce ELSE running[r].attempt>>

Validate(r) ==
  LET tree == Tree(running[r].manifest, running[r].patch) IN
  /\ RunAt(r, "validate")
  /\ \/ /\ Goes(r, "publish")
        /\ validated' = validated \cup {<<r, tree>>}
     \/ Fails(r, "validate") /\ UNCHANGED validated
  /\ UNCHANGED <<repository, issue, onGitHub, reruns, ownerSteps>>

-----------------------------------------------------------------------------
(* The publish-draft job: branch, pull request, comment.                   *)

VerifyPublish(r) == RunAt(r, "publish") /\ Verify(r, "publish", "guard")

GuardAgain(r) ==
  /\ RunAt(r, "guard") /\ Guarded(r, running[r].patch) /\ Goes(r, "push")
  /\ UNCHANGED <<repository, issue, onGitHub, validated, reruns, ownerSteps>>

\* Mutant: an existing branch of that name is taken for this publication's.
SameTreeAssumed(r, tree) == TRUE
SameTree(r, tree) == branches[Name(r)] = tree

Push(r) ==
  LET tree == Tree(running[r].manifest, running[r].patch) IN
  /\ RunAt(r, "push")
  /\ IF Name(r) \in DOMAIN branches
     THEN /\ IF SameTree(r, tree) THEN Goes(r, "pull") ELSE Fails(r, "publish")
          /\ UNCHANGED branches
     ELSE /\ branches' = [n \in DOMAIN branches \cup {Name(r)} |->
                            IF n = Name(r) THEN tree ELSE branches[n]]
          /\ Goes(r, "pull")
  /\ UNCHANGED <<repository, issue, pulls, announced, validated, reruns, ownerSteps>>

\* A pull request that is listed is reused; GitHub refuses a second one for a
\* branch, which is what a listing that lags behind leads to.
OpenPull(r) ==
  /\ RunAt(r, "pull")
  /\ \/ pulls' = pulls \cup {Name(r)} /\ Goes(r, "comment")
     \/ Name(r) \in pulls /\ Fails(r, "publish") /\ UNCHANGED pulls
  /\ UNCHANGED <<repository, issue, branches, announced, validated, reruns, ownerSteps>>

\* The comment moves the issue's updated_at, as any comment does.
Comment(r) ==
  /\ RunAt(r, "comment")
  /\ announced' = announced \cup
       {[by |-> Name(r), tree |-> Tree(running[r].manifest, running[r].patch)]}
  /\ issue' = [issue EXCEPT !.updated = @ + 1]
  /\ running' = [Outdated EXCEPT ![r].step = "done", ![r].failed = "publish", ![r].stale = TRUE]
  /\ UNCHANGED <<repository, branches, pulls, validated, reruns, ownerSteps>>

\* The runner is lost between two effects.
Lost(r) ==
  /\ running[r].step \in {"agent", "validate", "push", "pull", "comment"}
  /\ Fails(r, CASE RunAt(r, "agent") -> "candidate" [] RunAt(r, "validate") -> "validate" [] OTHER -> "publish")
  /\ UNCHANGED <<repository, issue, onGitHub, validated, reruns, ownerSteps>>

RunStep(r) ==
  \/ Label(r) \/ Intake(r) \/ VerifyCandidate(r) \/ Collect(r) \/ Validate(r)
  \/ VerifyPublish(r) \/ GuardAgain(r) \/ Push(r) \/ OpenPull(r) \/ Comment(r) \/ Lost(r)
  \/ \E job \in Jobs : Rerun(r, job)

RepairNext ==
  \/ \E r \in Runs : RunStep(r)
  \/ ChangeIssue \/ CommitCode \/ DisableFleet
  \/ \E pin \in Pins : Repin(pin) \/ RepinCaller(pin)

RepairSpec == RepairInit /\ [][RepairNext]_repairVars

-----------------------------------------------------------------------------
(* What a reader of a draft relies on.                                     *)

\* What a comment calls a validated draft candidate is on the branch of that
\* name, passed a validation job of the same run, and passes the guard, also
\* when an earlier attempt left another candidate's branch behind.
AnnouncedIsValidated ==
  \A entry \in announced :
    /\ <<entry.by[1], entry.tree>> \in validated
    /\ entry.by \in pulls /\ branches[entry.by] = entry.tree
    /\ Guarded(entry.by[1], entry.tree.patch)

\* A publishing job that starts after the issue, the default branch or the
\* policy changed since its authorization writes nothing, whichever job was
\* run again: the kill switch and a closed issue reach a waiting run.
NothingStaleIsPublished ==
  \A r \in Runs : Managed(r) /\ Publishing(r) => ~running[r].stale
=============================================================================
