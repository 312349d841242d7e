------------------------ MODULE RepairPipelineProofs ------------------------
(***************************************************************************)
(* Proofs about RepairPipeline: types, that what is announced was validated *)
(* and lies on its branch, and that a stale run publishes nothing.          *)
(*                                                                         *)
(* The argument: each run carries what its earlier jobs established, also   *)
(* when it failed and is run again, and GitHub only grows.  A manifest is   *)
(* never newer than the issue and the branch it was made from, and once a   *)
(* run is stale it is older than one of them, which its verification sees.  *)
(***************************************************************************)
EXTENDS RepairPipeline, TLAPS

-----------------------------------------------------------------------------
(* What the jobs of a run have established.                                *)

Ended(r) == running[r].step \in {"failed", "done"}

\* The run has a manifest ...
Authorized(r) ==
  \/ running[r].step \in {"candidate", "agent", "validate", "publish"} \/ Publishing(r)
  \/ Ended(r) /\ running[r].failed \in {"candidate", "validate", "publish"}
\* ... a patch that passed the guard ...
Collected(r) ==
  \/ running[r].step \in {"validate", "publish"} \/ Publishing(r)
  \/ Ended(r) /\ running[r].failed \in {"validate", "publish"}
\* ... and a validation of the two.
Passed(r) ==
  \/ running[r].step = "publish" \/ Publishing(r)
  \/ Ended(r) /\ running[r].failed = "publish"

TreeOf(r) == Tree(running[r].manifest, running[r].patch)
Overtaken(manifest) == manifest.base < repository.base \/ manifest.issue < issue.updated

EventIsPast(r) == /\ running[r].event.updated <= issue.updated
                  /\ running[r].commit.base <= repository.base
ManifestIsPast(r) ==
  Authorized(r) =>
    /\ running[r].manifest \in Manifest
    /\ running[r].manifest.base <= repository.base
    /\ running[r].manifest.issue <= issue.updated
    /\ running[r].stale => Overtaken(running[r].manifest)
PatchIsGuarded(r) ==
  Collected(r) => running[r].patch \in Patches /\ Guarded(r, running[r].patch)
TreeIsValidated(r) == Passed(r) => <<r, TreeOf(r)>> \in validated
BranchIsPushed(r) ==
  running[r].step \in {"pull", "comment"} =>
    Name(r) \in DOMAIN branches /\ branches[Name(r)] = TreeOf(r)
PullIsOpen(r) == running[r].step = "comment" => Name(r) \in pulls
FreshlyPublished(r) == Managed(r) /\ Publishing(r) => ~running[r].stale

RunSound(r) ==
  /\ EventIsPast(r) /\ ManifestIsPast(r) /\ PatchIsGuarded(r) /\ TreeIsValidated(r)
  /\ BranchIsPushed(r) /\ PullIsOpen(r) /\ FreshlyPublished(r)

RepairInv == RepairTypeOK /\ AnnouncedIsValidated /\ \A r \in Runs : RunSound(r)

USE DEF onGitHub

-----------------------------------------------------------------------------
(* The world only moves on.                                                *)

GitHubGrows ==
  /\ \A n \in DOMAIN branches : n \in DOMAIN branches' /\ branches'[n] = branches[n]
  /\ pulls \subseteq pulls' /\ validated \subseteq validated'

WorldMovesOn ==
  /\ repository.base <= repository'.base /\ issue.updated <= issue'.updated
  /\ GitHubGrows

LEMMA Keeping ==
  ASSUME RepairInv, RepairTypeOK', WorldMovesOn, NEW r \in Runs, running'[r] = running[r]
  PROVE  RunSound(r)'
  <1>1. RunSound(r) BY DEF RepairInv
  <1>2. /\ repository.base \in Nat /\ repository'.base \in Nat
        /\ issue.updated \in Nat /\ issue'.updated \in Nat
    BY DEF RepairInv, RepairTypeOK, Issue, Repository
  <1>3. EventIsPast(r)'
    <2>1. running[r].event.updated \in Nat /\ running[r].commit.base \in Nat
      BY DEF RepairInv, RepairTypeOK, RunRecord, Issue, Repository
    <2> QED BY <1>1, <1>2, <2>1 DEF RunSound, EventIsPast, WorldMovesOn
  <1>4. ManifestIsPast(r)'
    <2> SUFFICES ASSUME Authorized(r)' PROVE ManifestIsPast(r)'
      BY DEF ManifestIsPast
    <2>1. Authorized(r) BY DEF Authorized, Publishing, Ended
    <2>2. running[r].manifest \in Manifest BY <1>1, <2>1 DEF RunSound, ManifestIsPast
    <2>3. running[r].manifest.base \in Nat /\ running[r].manifest.issue \in Nat
      BY <2>2 DEF Manifest
    <2> QED BY <1>1, <1>2, <2>1, <2>2, <2>3 DEF RunSound, ManifestIsPast, WorldMovesOn, Overtaken
  <1>5. PatchIsGuarded(r)' /\ TreeIsValidated(r)' /\ PullIsOpen(r)' /\ FreshlyPublished(r)'
    BY <1>1 DEF RunSound, PatchIsGuarded, TreeIsValidated, PullIsOpen, FreshlyPublished,
       Collected, Passed, Ended, Publishing, Guarded, Managed, TreeOf, Tree, Name,
       WorldMovesOn, GitHubGrows
  <1>6. BranchIsPushed(r)'
    BY <1>1 DEF RunSound, BranchIsPushed, TreeOf, Tree, Name, Managed, WorldMovesOn, GitHubGrows
  <1> QED BY <1>3, <1>4, <1>5, <1>6 DEF RunSound

\* A run that was not publishing is marked stale when the issue or the default
\* branch moves, and is then behind it.
LEMMA Overtaking ==
  ASSUME RepairInv, RepairTypeOK', WorldMovesOn, NEW r \in Runs,
         running'[r] = Outdated[r],
         repository.base < repository'.base \/ issue.updated < issue'.updated
  PROVE  RunSound(r)'
  <1>1. CASE Publishing(r)
    BY <1>1, Keeping DEF Outdated
  <1>2. CASE ~Publishing(r)
    <2>1. RunSound(r) BY DEF RepairInv
    <2>2. running[r] \in RunRecord BY DEF RepairInv, RepairTypeOK
    <2>3. running'[r] = [running[r] EXCEPT !.stale = TRUE] BY <1>2 DEF Outdated
    <2>4. /\ running'[r].step = running[r].step /\ running'[r].failed = running[r].failed
          /\ running'[r].attempt = running[r].attempt /\ running'[r].nonce = running[r].nonce
          /\ running'[r].event = running[r].event /\ running'[r].manifest = running[r].manifest
          /\ running'[r].commit = running[r].commit /\ running'[r].patch = running[r].patch
      BY <2>2, <2>3 DEF RunRecord
    <2>5. /\ repository.base \in Nat /\ repository'.base \in Nat
          /\ issue.updated \in Nat /\ issue'.updated \in Nat
          /\ running[r].event.updated \in Nat /\ running[r].commit.base \in Nat
      BY DEF RepairInv, RepairTypeOK, Issue, RunRecord, Repository
    <2>6. EventIsPast(r)'
      BY <2>1, <2>4, <2>5 DEF RunSound, EventIsPast, WorldMovesOn
    <2>7. ManifestIsPast(r)'
      <3> SUFFICES ASSUME Authorized(r)' PROVE ManifestIsPast(r)'
        BY DEF ManifestIsPast
      <3>1. Authorized(r) BY <2>4 DEF Authorized, Publishing, Ended
      <3>2. running[r].manifest \in Manifest BY <2>1, <3>1 DEF RunSound, ManifestIsPast
      <3>3. running[r].manifest.base \in Nat /\ running[r].manifest.issue \in Nat
        BY <3>2 DEF Manifest
      <3> QED
        BY <2>1, <2>4, <2>5, <3>1, <3>2, <3>3
           DEF RunSound, ManifestIsPast, WorldMovesOn, Overtaken
    <2>8. ~Publishing(r)' /\ running'[r].step \notin {"pull", "comment"}
      BY <1>2, <2>4 DEF Publishing
    <2>9. PatchIsGuarded(r)' /\ TreeIsValidated(r)'
      BY <2>1, <2>4 DEF RunSound, PatchIsGuarded, TreeIsValidated, Collected, Passed,
         Ended, Publishing, Guarded, Managed, TreeOf, Tree, WorldMovesOn, GitHubGrows
    <2> QED
      BY <2>6, <2>7, <2>8, <2>9 DEF RunSound, BranchIsPushed, PullIsOpen, FreshlyPublished
  <1> QED BY <1>1, <1>2

\* What was announced stays validated, pushed and guarded.
LEMMA AnnouncementsStand ==
  ASSUME RepairInv, WorldMovesOn, announced' = announced
  PROVE  AnnouncedIsValidated'
  BY DEF RepairInv, AnnouncedIsValidated, WorldMovesOn, GitHubGrows, RepairTypeOK, Guarded, Managed

-----------------------------------------------------------------------------
(* A step of one run.                                                      *)

Elsewhere == <<repository, issue, onGitHub, validated, ownerSteps>>

LEMMA OneRunMoves ==
  ASSUME RepairInv, RepairTypeOK', WorldMovesOn, announced' = announced, NEW r \in Runs,
         \A d \in Runs \ {r} : running'[d] = running[d], RunSound(r)'
  PROVE  RepairInv'
  BY Keeping, AnnouncementsStand DEF RepairInv

LEMMA StandingStill ==
  ASSUME RepairInv, UNCHANGED Elsewhere
  PROVE  WorldMovesOn
  BY DEF RepairInv, RepairTypeOK, Issue, Repository, WorldMovesOn, GitHubGrows, Elsewhere

\* Going to a next step.
LEMMA Going ==
  ASSUME RepairInv, NEW r \in Runs, NEW s \in JobSteps, Goes(r, s)
  PROVE  /\ running' \in [Runs -> RunRecord]
         /\ \A d \in Runs \ {r} : running'[d] = running[d]
         /\ running'[r].step = s /\ running'[r].failed = running[r].failed
         /\ running'[r].attempt = running[r].attempt /\ running'[r].nonce = running[r].nonce
         /\ running'[r].event = running[r].event /\ running'[r].manifest = running[r].manifest
         /\ running'[r].commit = running[r].commit
         /\ running'[r].patch = running[r].patch /\ running'[r].stale = running[r].stale
  BY DEF RepairInv, RepairTypeOK, RunRecord, Goes

LEMMA Failing ==
  ASSUME RepairInv, NEW r \in Runs, NEW job \in Jobs, Fails(r, job)
  PROVE  /\ running' \in [Runs -> RunRecord]
         /\ \A d \in Runs \ {r} : running'[d] = running[d]
         /\ running'[r].step = "failed" /\ running'[r].failed = job
         /\ running'[r].attempt = running[r].attempt /\ running'[r].nonce = running[r].nonce
         /\ running'[r].event = running[r].event /\ running'[r].manifest = running[r].manifest
         /\ running'[r].commit = running[r].commit
         /\ running'[r].patch = running[r].patch /\ running'[r].stale = running[r].stale
  <1>1. "failed" \in JobSteps BY DEF JobSteps
  <1> QED BY <1>1 DEF RepairInv, RepairTypeOK, RunRecord, Fails

\* A run that goes on, or ends, with what its jobs have established so far.
LEMMA CarryingOn ==
  ASSUME RepairInv, NEW r \in Runs, running' \in [Runs -> RunRecord],
         \A d \in Runs \ {r} : running'[d] = running[d],
         running'[r].attempt = running[r].attempt, running'[r].nonce = running[r].nonce,
         running'[r].event = running[r].event, running'[r].manifest = running[r].manifest,
         running'[r].commit = running[r].commit,
         running'[r].patch = running[r].patch, running'[r].stale = running[r].stale,
         WorldMovesOn, announced' = announced, repository' = repository, issue' = issue,
         pulls' \subseteq DOMAIN branches', UNCHANGED <<reruns, ownerSteps>>,
         Authorized(r)' => Authorized(r), Collected(r)' => Collected(r),
         Passed(r)' => Passed(r) \/ <<r, TreeOf(r)>> \in validated',
         BranchIsPushed(r)', PullIsOpen(r)', FreshlyPublished(r)'
  PROVE  RepairInv'
  <1>1. RunSound(r) BY DEF RepairInv
  <1>2. RepairTypeOK'
    <2>1. \A d \in Runs : running'[d].nonce <= running'[d].attempt /\ running'[d].attempt <= reruns'
      BY DEF RepairInv, RepairTypeOK
    <2> QED BY <2>1 DEF RepairInv, RepairTypeOK
  <1>3. EventIsPast(r)' /\ ManifestIsPast(r)'
    BY <1>1 DEF RunSound, EventIsPast, ManifestIsPast, Overtaken
  <1>4. PatchIsGuarded(r)'
    BY <1>1 DEF RunSound, PatchIsGuarded, Guarded, Managed
  <1>5. TreeIsValidated(r)'
    BY <1>1 DEF RunSound, TreeIsValidated, TreeOf, Tree, WorldMovesOn, GitHubGrows
  <1>6. RunSound(r)' BY <1>3, <1>4, <1>5 DEF RunSound
  <1> QED BY <1>2, <1>6, OneRunMoves

\* A job fails, and what it leaves is what its retry needs.
LEMMA FailingKeeps ==
  ASSUME RepairInv, NEW r \in Runs, NEW job \in Jobs,
         Fails(r, job), UNCHANGED Elsewhere, UNCHANGED reruns,
         job # "prepare" => Authorized(r), job \in {"validate", "publish"} => Collected(r),
         job = "publish" => Passed(r)
  PROVE  RepairInv'
  <1>1. job \in Jobs OBVIOUS
  <1>2. WorldMovesOn /\ pulls' \subseteq DOMAIN branches' /\ announced' = announced
    BY StandingStill DEF Elsewhere, RepairInv, RepairTypeOK
  <1>3. running'[r].step = "failed" /\ running'[r].failed = job BY <1>1, Failing
  <1>4. /\ Authorized(r)' => Authorized(r)
        /\ Collected(r)' => Collected(r)
        /\ Passed(r)' => Passed(r)
    BY <1>3 DEF Authorized, Collected, Passed, Publishing, Ended
  <1>5. BranchIsPushed(r)' /\ PullIsOpen(r)' /\ FreshlyPublished(r)'
    BY <1>3 DEF BranchIsPushed, PullIsOpen, FreshlyPublished, Publishing
  <1> QED BY <1>1, <1>2, <1>4, <1>5, Failing, CarryingOn DEF Elsewhere

-----------------------------------------------------------------------------
(* The jobs.                                                               *)

LEMMA Intaking ==
  ASSUME RepairInv, NEW r \in Runs, Intake(r)
  PROVE  RepairInv'
  <1>1. RunSound(r) /\ running[r] \in RunRecord BY DEF RepairInv, RepairTypeOK
  <1>2. UNCHANGED Elsewhere /\ UNCHANGED reruns /\ RunAt(r, "prepare")
    BY DEF Intake, Elsewhere
  <1>3. CASE Fails(r, "prepare")
    BY <1>2, <1>3, FailingKeeps DEF Jobs
  <1>4. CASE ~Fails(r, "prepare")
    <2> DEFINE event == running[r].event
               manifest == [base |-> Base(r), issue |-> event.updated,
                            enabled |-> repository.enabled, pin |-> repository.pin]
               step == IF Managed(r) /\ ~repository.enabled THEN "done" ELSE "candidate"
               stale == event.updated # issue.updated \/ Base(r) # repository.base
    <2>1. running' = [running EXCEPT ![r] =
             [running[r] EXCEPT !.manifest = manifest, !.nonce = running[r].attempt,
                !.patch = NoPatch, !.stale = stale, !.failed = "prepare", !.step = step]]
      BY <1>4 DEF Intake
    <2>2. /\ event \in Issue /\ event.updated \in Nat /\ issue.updated \in Nat
          /\ repository.base \in Nat /\ manifest \in Manifest
          /\ event.updated <= issue.updated /\ running[r].commit.base <= repository.base
          /\ Base(r) \in Nat /\ Base(r) <= repository.base
      BY <1>1 DEF Base, Repository, RunRecord, Issue, RepairInv, RepairTypeOK, Manifest, RunSound, EventIsPast
    <2>3. step \in JobSteps /\ "prepare" \in Jobs /\ stale \in BOOLEAN
      BY DEF JobSteps, Jobs
    <2> DEFINE new == [running[r] EXCEPT !.manifest = manifest, !.nonce = running[r].attempt,
                         !.patch = NoPatch, !.stale = stale, !.failed = "prepare", !.step = step]
    <2>4. /\ new \in RunRecord /\ new.manifest = manifest /\ new.nonce = running[r].attempt
          /\ new.stale = stale /\ new.failed = "prepare" /\ new.step = step
          /\ new.event = event /\ new.commit = running[r].commit /\ new.attempt = running[r].attempt
      BY <1>1, <2>2, <2>3 DEF RunRecord
    <2>5. /\ running' \in [Runs -> RunRecord] /\ running'[r] = new
          /\ \A d \in Runs \ {r} : running'[d] = running[d]
      BY <2>1, <2>4 DEF RepairInv, RepairTypeOK
    <2> HIDE DEF new, manifest, stale
    <2>6. new.attempt <= reruns /\ new.nonce <= new.attempt
      BY <1>1, <2>4 DEF RepairInv, RepairTypeOK, RunRecord
    <2>7. RepairTypeOK'
      <3>1. \A d \in Runs : running'[d].nonce <= running'[d].attempt /\ running'[d].attempt <= reruns'
        BY <1>2, <2>5, <2>6 DEF RepairInv, RepairTypeOK
      <3> QED BY <1>2, <2>5, <3>1 DEF RepairInv, RepairTypeOK, Elsewhere
    <2>8. step \notin {"validate", "publish", "guard", "push", "pull", "comment", "failed"}
      OBVIOUS
    <2>9. ~Collected(r)' /\ ~Publishing(r)' /\ ~Passed(r)'
      BY <2>4, <2>5, <2>8 DEF Collected, Publishing, Passed, Ended
    <2>10. EventIsPast(r)'
      BY <1>2, <2>2, <2>4, <2>5 DEF EventIsPast, Elsewhere
    <2>11. ManifestIsPast(r)'
      <3>1. /\ manifest.base = Base(r) /\ manifest.issue = event.updated
            /\ stale => event.updated # issue.updated \/ Base(r) # repository.base
        BY DEF manifest, stale
      <3> QED BY <1>2, <2>2, <2>4, <2>5, <3>1 DEF ManifestIsPast, Overtaken, Elsewhere
    <2>12. RunSound(r)'
      BY <2>4, <2>5, <2>8, <2>9, <2>10, <2>11 DEF RunSound, PatchIsGuarded, TreeIsValidated,
         BranchIsPushed, PullIsOpen, FreshlyPublished
    <2> QED BY <1>2, <2>5, <2>7, <2>12, StandingStill, OneRunMoves DEF Elsewhere
  <1> QED BY <1>3, <1>4

\* A verification that succeeds sees that a managed run is not stale.
LEMMA Verifying ==
  ASSUME RepairInv, NEW r \in Runs,
         \/ RunAt(r, "candidate") /\ Verify(r, "candidate", "agent")
         \/ RunAt(r, "publish") /\ Verify(r, "publish", "guard")
  PROVE  RepairInv'
  <1>1. RunSound(r) BY DEF RepairInv
  <1>2. UNCHANGED Elsewhere /\ UNCHANGED reruns
    BY DEF Verify, Elsewhere
  <1>3. Authorized(r) /\ (RunAt(r, "publish") => Passed(r) /\ Collected(r))
    BY DEF Authorized, Passed, Collected, RunAt
  <1>4. CASE Fails(r, "candidate") /\ RunAt(r, "candidate")
    BY <1>2, <1>3, <1>4, FailingKeeps DEF Jobs
  <1>5. CASE Fails(r, "publish") /\ RunAt(r, "publish")
    BY <1>2, <1>3, <1>5, FailingKeeps DEF Jobs
  <1>6. ASSUME NEW s \in {"agent", "guard"}, Goes(r, s), ~Managed(r) \/ Live(running[r].manifest),
               s = "guard" => RunAt(r, "publish")
        PROVE  RepairInv'
    <2>1. s \in JobSteps BY DEF JobSteps
    <2>2. running'[r].step = s BY <1>6, <2>1, Going
    <2>3. /\ Authorized(r)' => Authorized(r)
          /\ Collected(r)' => Collected(r)
          /\ Passed(r)' => Passed(r)
      BY <1>3, <1>6, <2>2 DEF Authorized, Collected, Passed, Publishing, Ended
    <2>4. BranchIsPushed(r)' /\ PullIsOpen(r)'
      BY <2>2 DEF BranchIsPushed, PullIsOpen
    <2>5. FreshlyPublished(r)'
      <3> SUFFICES ASSUME Managed(r) PROVE ~running[r].stale
        BY <1>6, <2>1, Going DEF FreshlyPublished, Managed
      <3>1. running[r].manifest \in Manifest BY <1>1, <1>3 DEF RunSound, ManifestIsPast
      <3>2. ~Overtaken(running[r].manifest)
        BY <1>6, <3>1 DEF Live, Overtaken, Manifest, RepairInv, RepairTypeOK, Issue
      <3> QED BY <1>1, <1>3, <3>2 DEF RunSound, ManifestIsPast
    <2>6. WorldMovesOn /\ pulls' \subseteq DOMAIN branches' /\ announced' = announced
      BY <1>2, StandingStill DEF Elsewhere, RepairInv, RepairTypeOK
    <2>7. UNCHANGED <<repository, issue, reruns, ownerSteps>>
      BY <1>2 DEF Elsewhere
    <2>8. /\ running' \in [Runs -> RunRecord]
          /\ \A d \in Runs \ {r} : running'[d] = running[d]
          /\ running'[r].attempt = running[r].attempt /\ running'[r].nonce = running[r].nonce
          /\ running'[r].event = running[r].event /\ running'[r].manifest = running[r].manifest
          /\ running'[r].patch = running[r].patch /\ running'[r].stale = running[r].stale
          /\ running'[r].commit = running[r].commit
      BY <1>6, <2>1, Going
    <2> QED BY <2>3, <2>4, <2>5, <2>6, <2>7, <2>8, CarryingOn
  <1> QED BY <1>4, <1>5, <1>6 DEF Verify, RunAt

LEMMA Collecting ==
  ASSUME RepairInv, NEW r \in Runs, Collect(r)
  PROVE  RepairInv'
  <1>1. RunSound(r) /\ running[r] \in RunRecord BY DEF RepairInv, RepairTypeOK
  <1>2. UNCHANGED Elsewhere /\ UNCHANGED reruns /\ RunAt(r, "agent")
    BY DEF Collect, Elsewhere
  <1>3. Authorized(r) BY <1>2 DEF Authorized, RunAt
  <1>4. CASE Fails(r, "candidate")
    BY <1>2, <1>3, <1>4, FailingKeeps DEF Jobs
  <1>5. ASSUME NEW patch \in Patches, Guarded(r, patch),
               running' = [running EXCEPT ![r].step = "validate", ![r].patch = patch]
        PROVE  RepairInv'
    <2>1. "validate" \in JobSteps BY DEF JobSteps
    <2>2. /\ running' \in [Runs -> RunRecord]
          /\ \A d \in Runs \ {r} : running'[d] = running[d]
          /\ running'[r].step = "validate" /\ running'[r].patch = patch
          /\ running'[r].attempt = running[r].attempt /\ running'[r].nonce = running[r].nonce
          /\ running'[r].event = running[r].event /\ running'[r].manifest = running[r].manifest
          /\ running'[r].stale = running[r].stale /\ running'[r].commit = running[r].commit
      BY <1>1, <1>5, <2>1 DEF RepairInv, RepairTypeOK, RunRecord
    <2>3. RepairTypeOK'
      <3>1. \A d \in Runs : running'[d].nonce <= running'[d].attempt /\ running'[d].attempt <= reruns'
        BY <1>2, <2>2 DEF RepairInv, RepairTypeOK
      <3> QED BY <1>2, <2>2, <3>1 DEF RepairInv, RepairTypeOK, Elsewhere
    <2>4. ~Publishing(r)' /\ ~Passed(r)'
      BY <2>2 DEF Publishing, Passed, Ended
    <2>5. EventIsPast(r)' /\ ManifestIsPast(r)'
      BY <1>1, <1>2, <1>3, <2>2 DEF RunSound, EventIsPast, ManifestIsPast, Overtaken, Elsewhere
    <2>6. PatchIsGuarded(r)'
      BY <1>5, <2>2 DEF PatchIsGuarded, Guarded, Managed
    <2>7. RunSound(r)'
      BY <2>2, <2>4, <2>5, <2>6 DEF RunSound, TreeIsValidated, BranchIsPushed, PullIsOpen, FreshlyPublished
    <2> QED BY <1>2, <2>2, <2>3, <2>7, StandingStill, OneRunMoves DEF Elsewhere
  <1> QED BY <1>4, <1>5 DEF Collect

LEMMA Validating ==
  ASSUME RepairInv, NEW r \in Runs, Validate(r)
  PROVE  RepairInv'
  <1>1. RunSound(r) BY DEF RepairInv
  <1>2. RunAt(r, "validate") /\ Authorized(r) /\ Collected(r)
    BY DEF Validate, RunAt, Authorized, Collected
  <1>3. CASE Fails(r, "validate") /\ UNCHANGED validated
    BY <1>2, <1>3, FailingKeeps DEF Jobs, Validate, Elsewhere
  <1>4. ASSUME Goes(r, "publish"), validated' = validated \cup {<<r, TreeOf(r)>>}
        PROVE  RepairInv'
    <2>1. "publish" \in JobSteps BY DEF JobSteps
    <2>2. running'[r].step = "publish" BY <1>4, <2>1, Going
    <2>3. UNCHANGED <<repository, issue, branches, pulls, announced, reruns, ownerSteps>>
      BY DEF Validate
    <2>4. WorldMovesOn /\ pulls' \subseteq DOMAIN branches'
      BY <1>4, <2>3 DEF RepairInv, RepairTypeOK, Issue, Repository, WorldMovesOn, GitHubGrows
    <2>5. BranchIsPushed(r)' /\ PullIsOpen(r)' /\ FreshlyPublished(r)'
      BY <2>2 DEF BranchIsPushed, PullIsOpen, FreshlyPublished, Publishing
    <2> QED BY <1>2, <1>4, <2>1, <2>3, <2>4, <2>5, Going, CarryingOn
  <1> QED BY <1>3, <1>4 DEF Validate, TreeOf

\* A publishing run that goes on to another publishing step.
LEMMA PublishingOn ==
  ASSUME RepairInv, NEW r \in Runs, Publishing(r), NEW s \in {"push", "pull", "comment"},
         Goes(r, s), UNCHANGED <<repository, issue, announced, validated, reruns, ownerSteps>>,
         GitHubGrows, pulls' \subseteq DOMAIN branches',
         s \in {"pull", "comment"} => Name(r) \in DOMAIN branches' /\ branches'[Name(r)] = TreeOf(r),
         s = "comment" => Name(r) \in pulls'
  PROVE  RepairInv'
  <1>1. RunSound(r) BY DEF RepairInv
  <1>2. s \in JobSteps BY DEF JobSteps
  <1>3. running'[r].step = s BY <1>2, Going
  <1>4. Authorized(r) /\ Collected(r) /\ Passed(r)
    BY DEF Authorized, Collected, Passed
  <1>5. WorldMovesOn
    BY DEF WorldMovesOn, RepairInv, RepairTypeOK, Issue, Repository
  <1>6. Name(r)' = Name(r) /\ TreeOf(r)' = TreeOf(r)
    BY <1>2, Going DEF Name, TreeOf, Tree, Managed
  <1>7. BranchIsPushed(r)' /\ PullIsOpen(r)'
    BY <1>3, <1>6 DEF BranchIsPushed, PullIsOpen
  <1>8. FreshlyPublished(r)'
    BY <1>1, <1>2, Going DEF RunSound, FreshlyPublished, Managed
  <1> QED BY <1>2, <1>4, <1>5, <1>7, <1>8, Going, CarryingOn

LEMMA Pushing ==
  ASSUME RepairInv, NEW r \in Runs, GuardAgain(r) \/ Push(r) \/ OpenPull(r)
  PROVE  RepairInv'
  <1>1. RunSound(r) BY DEF RepairInv
  <1>2. Publishing(r)
    BY DEF GuardAgain, Push, OpenPull, RunAt, Publishing
  <1>3. Authorized(r) /\ Collected(r) /\ Passed(r)
    BY <1>2 DEF Authorized, Collected, Passed
  <1>4. pulls \subseteq DOMAIN branches BY DEF RepairInv, RepairTypeOK
  <1>5. CASE GuardAgain(r)
    BY <1>2, <1>4, <1>5, PublishingOn DEF GuardAgain, GitHubGrows
  <1>6. CASE Push(r)
    <2>1. UNCHANGED <<repository, issue, pulls, announced, validated, reruns, ownerSteps>>
      BY <1>6 DEF Push
    <2>2. CASE Fails(r, "publish") /\ UNCHANGED branches
      BY <1>3, <2>1, <2>2, FailingKeeps DEF Jobs, Elsewhere
    <2>3. CASE Goes(r, "pull") /\ Name(r) \in DOMAIN branches /\ branches[Name(r)] = TreeOf(r)
               /\ UNCHANGED branches
      BY <1>2, <1>4, <2>1, <2>3, PublishingOn DEF GitHubGrows
    <2>4. CASE Goes(r, "pull") /\ Name(r) \notin DOMAIN branches
               /\ branches' = [n \in DOMAIN branches \cup {Name(r)} |->
                               IF n = Name(r) THEN TreeOf(r) ELSE branches[n]]
      <3>1. /\ Name(r) \in DOMAIN branches' /\ branches'[Name(r)] = TreeOf(r)
            /\ \A n \in DOMAIN branches : n \in DOMAIN branches' /\ branches'[n] = branches[n]
        BY <2>4
      <3> QED BY <1>2, <1>4, <2>1, <2>4, <3>1, PublishingOn DEF GitHubGrows
    <2> QED BY <1>6, <2>2, <2>3, <2>4 DEF Push, SameTree, TreeOf
  <1>7. CASE OpenPull(r)
    <2>1. UNCHANGED <<repository, issue, branches, announced, validated, reruns, ownerSteps>>
      BY <1>7 DEF OpenPull
    <2>2. Name(r) \in DOMAIN branches /\ branches[Name(r)] = TreeOf(r)
      BY <1>1, <1>7 DEF RunSound, BranchIsPushed, OpenPull, RunAt
    <2>3. CASE Fails(r, "publish") /\ UNCHANGED pulls
      BY <1>3, <2>1, <2>3, FailingKeeps DEF Jobs, Elsewhere
    <2>4. CASE Goes(r, "comment") /\ pulls' = pulls \cup {Name(r)}
      BY <1>2, <1>4, <2>1, <2>2, <2>4, PublishingOn DEF GitHubGrows
    <2> QED BY <1>7, <2>3, <2>4 DEF OpenPull
  <1> QED BY <1>5, <1>6, <1>7

LEMMA Commenting ==
  ASSUME RepairInv, NEW r \in Runs, Comment(r)
  PROVE  RepairInv'
  <1>1. RunSound(r) /\ running[r] \in RunRecord BY DEF RepairInv, RepairTypeOK
  <1>2. RunAt(r, "comment") /\ Publishing(r) /\ Authorized(r) /\ Collected(r) /\ Passed(r)
    BY DEF Comment, RunAt, Publishing, Authorized, Collected, Passed
  <1>3. UNCHANGED <<repository, branches, pulls, validated, reruns, ownerSteps>>
    BY DEF Comment
  <1>4. issue' \in Issue /\ issue'.updated = issue.updated + 1 /\ issue.updated \in Nat
    BY DEF Comment, RepairInv, RepairTypeOK, Issue
  <1> DEFINE new == [running[r] EXCEPT !.step = "done", !.failed = "publish", !.stale = TRUE]
  <1>5. "done" \in JobSteps /\ "publish" \in Jobs BY DEF JobSteps, Jobs
  <1>6. /\ new \in RunRecord /\ new.step = "done" /\ new.failed = "publish" /\ new.stale = TRUE
        /\ new.attempt = running[r].attempt /\ new.nonce = running[r].nonce
        /\ new.event = running[r].event /\ new.manifest = running[r].manifest
        /\ new.patch = running[r].patch /\ new.commit = running[r].commit
    BY <1>1, <1>5 DEF RunRecord
  <1>7. Outdated \in [Runs -> RunRecord] /\ Outdated[r] = running[r]
        /\ \A d \in Runs : Outdated[d].nonce = running[d].nonce /\ Outdated[d].attempt = running[d].attempt
    BY <1>2 DEF Outdated, RepairInv, RepairTypeOK, RunRecord
  <1>8. /\ running' \in [Runs -> RunRecord] /\ running'[r] = new
        /\ \A d \in Runs \ {r} : running'[d] = Outdated[d]
    BY <1>6, <1>7 DEF Comment
  <1> HIDE DEF new
  <1>9. RepairTypeOK'
    <2>1. \A d \in Runs : running'[d].nonce <= running'[d].attempt /\ running'[d].attempt <= reruns'
      BY <1>3, <1>6, <1>7, <1>8 DEF RepairInv, RepairTypeOK
    <2> QED BY <1>3, <1>4, <1>8, <2>1 DEF RepairInv, RepairTypeOK
  <1>10. WorldMovesOn
    BY <1>3, <1>4 DEF RepairInv, RepairTypeOK, Repository, WorldMovesOn, GitHubGrows
  <1>11. \A d \in Runs \ {r} : RunSound(d)'
    BY <1>4, <1>8, <1>9, <1>10, Overtaking
  <1>12. RunSound(r)'
    <2>1. EventIsPast(r)'
      <3>1. running[r].event.updated \in Nat BY <1>1 DEF RunRecord, Issue
      <3> QED BY <1>1, <1>3, <1>4, <1>6, <1>8, <3>1 DEF RunSound, EventIsPast
    <2>2. ManifestIsPast(r)'
      <3>1. /\ running[r].manifest \in Manifest /\ running[r].manifest.issue \in Nat
            /\ running[r].manifest.base <= repository.base
            /\ running[r].manifest.issue <= issue.updated
        BY <1>1, <1>2 DEF RunSound, ManifestIsPast, Manifest
      <3> QED BY <1>3, <1>4, <1>6, <1>8, <3>1 DEF ManifestIsPast, Overtaken
    <2>3. PatchIsGuarded(r)' /\ TreeIsValidated(r)'
      BY <1>1, <1>2, <1>3, <1>6, <1>8 DEF RunSound, PatchIsGuarded, TreeIsValidated,
         Guarded, Managed, TreeOf, Tree
    <2>4. BranchIsPushed(r)' /\ PullIsOpen(r)' /\ FreshlyPublished(r)'
      BY <1>6, <1>8 DEF BranchIsPushed, PullIsOpen, FreshlyPublished, Publishing
    <2> QED BY <2>1, <2>2, <2>3, <2>4 DEF RunSound
  <1>13. AnnouncedIsValidated'
    <2>1. announced' = announced \cup {[by |-> Name(r), tree |-> TreeOf(r)]}
      BY DEF Comment, TreeOf
    <2>2. Name(r)[1] = r BY DEF Name
    <2>3. /\ <<r, TreeOf(r)>> \in validated /\ Name(r) \in pulls
          /\ branches[Name(r)] = TreeOf(r) /\ Guarded(r, running[r].patch)
      BY <1>1, <1>2 DEF RunSound, TreeIsValidated, PullIsOpen, BranchIsPushed, PatchIsGuarded, RunAt
    <2>4. TreeOf(r).patch = running[r].patch BY DEF TreeOf, Tree
    <2> SUFFICES ASSUME NEW entry \in announced'
                 PROVE  /\ <<entry.by[1], entry.tree>> \in validated
                        /\ entry.by \in pulls /\ branches[entry.by] = entry.tree
                        /\ Guarded(entry.by[1], entry.tree.patch)
      BY <1>3 DEF AnnouncedIsValidated, Guarded, Managed
    <2>5. CASE entry \in announced
      BY <2>5 DEF AnnouncedIsValidated, RepairInv
    <2>6. CASE entry = [by |-> Name(r), tree |-> TreeOf(r)]
      BY <2>2, <2>3, <2>4, <2>6
    <2> QED BY <2>1, <2>5, <2>6
  <1> QED BY <1>9, <1>11, <1>12, <1>13 DEF RepairInv

LEMMA Losing ==
  ASSUME RepairInv, NEW r \in Runs, Lost(r)
  PROVE  RepairInv'
  <1>1. UNCHANGED Elsewhere /\ UNCHANGED reruns
    BY DEF Lost, Elsewhere
  <1>2. CASE RunAt(r, "agent")
    BY <1>1, <1>2, FailingKeeps DEF Jobs, Lost, RunAt, Authorized
  <1>3. CASE RunAt(r, "validate")
    BY <1>1, <1>3, FailingKeeps DEF Jobs, Lost, RunAt, Authorized, Collected
  <1>4. CASE running[r].step \in {"push", "pull", "comment"}
    BY <1>1, <1>4, FailingKeeps DEF Jobs, Lost, RunAt, Authorized, Collected, Passed, Publishing
  <1> QED BY <1>2, <1>3, <1>4 DEF Lost, RunAt

LEMMA Rerunning ==
  ASSUME RepairInv, NEW r \in Runs, NEW job \in Jobs,
         Rerun(r, job)
  PROVE  RepairInv'
  <1>1. RunSound(r) /\ running[r] \in RunRecord BY DEF RepairInv, RepairTypeOK
  <1>2. UNCHANGED Elsewhere /\ reruns' = reruns + 1 /\ reruns < MaxReruns /\ Ended(r)
    BY DEF Rerun, Elsewhere, Ended
  <1>14. running[r].failed \in {"prepare", "candidate", "validate", "publish"}
    BY <1>1 DEF RunRecord, Jobs
  <1>3. job \in JobSteps /\ reruns \in Nat /\ MaxReruns \in Nat
    BY RepairAssumption DEF JobSteps, Jobs, RepairInv, RepairTypeOK
  <1>4. running[r].attempt \in Nat /\ running[r].nonce \in Nat /\ running[r].attempt <= reruns
        /\ running[r].nonce <= running[r].attempt
    BY <1>1 DEF RunRecord, RepairInv, RepairTypeOK
  <1> DEFINE new == [running[r] EXCEPT !.step = job, !.attempt = running[r].attempt + 1]
  <1>5. running[r].attempt + 1 \in 0..MaxReruns BY <1>2, <1>3, <1>4
  <1>6. /\ new \in RunRecord /\ new.step = job /\ new.attempt = running[r].attempt + 1
        /\ new.nonce = running[r].nonce /\ new.event = running[r].event
        /\ new.manifest = running[r].manifest /\ new.patch = running[r].patch
        /\ new.stale = running[r].stale /\ new.commit = running[r].commit
    BY <1>1, <1>3, <1>5 DEF RunRecord
  <1>7. /\ running' \in [Runs -> RunRecord] /\ running'[r] = new
        /\ \A d \in Runs \ {r} : running'[d] = running[d]
    BY <1>6 DEF Rerun, RepairInv, RepairTypeOK
  <1> HIDE DEF new
  <1>8. RepairTypeOK'
    <2>1. \A d \in Runs : running'[d].nonce <= running'[d].attempt /\ running'[d].attempt <= reruns'
      <3> TAKE d \in Runs
      <3>1. CASE d = r BY <1>2, <1>3, <1>4, <1>6, <1>7, <3>1
      <3>2. CASE d # r
        <4>1. running[d].attempt \in Nat /\ running[d].attempt <= reruns
          BY DEF RepairInv, RepairTypeOK, RunRecord
        <4> QED BY <1>2, <1>3, <1>7, <3>2, <4>1 DEF RepairInv, RepairTypeOK
      <3> QED BY <3>1, <3>2
    <2>2. reruns' \in 0..MaxReruns BY <1>2, <1>3
    <2> QED BY <1>2, <1>7, <2>1, <2>2 DEF RepairInv, RepairTypeOK, Elsewhere
  <1>9. /\ Authorized(r)' => Authorized(r)
        /\ Collected(r)' => Collected(r)
        /\ Passed(r)' => Passed(r)
    <2>1. /\ job = "candidate" => running[r].failed # "prepare"
          /\ job = "validate" => running[r].failed \in {"validate", "publish"}
          /\ job = "publish" => running[r].failed = "publish"
      BY DEF Rerun
    <2> QED BY <1>2, <1>6, <1>7, <1>14, <2>1 DEF Authorized, Collected, Passed, Ended, Publishing, Jobs
  <1>10. EventIsPast(r)' /\ ManifestIsPast(r)'
    BY <1>1, <1>2, <1>6, <1>7, <1>9 DEF RunSound, EventIsPast, ManifestIsPast, Overtaken, Elsewhere
  <1>11. PatchIsGuarded(r)' /\ TreeIsValidated(r)'
    BY <1>1, <1>2, <1>6, <1>7, <1>9 DEF RunSound, PatchIsGuarded, TreeIsValidated, Guarded,
       Managed, TreeOf, Tree, Elsewhere
  <1>12. BranchIsPushed(r)' /\ PullIsOpen(r)' /\ FreshlyPublished(r)'
    BY <1>6, <1>7 DEF BranchIsPushed, PullIsOpen, FreshlyPublished, Publishing, Jobs
  <1>13. RunSound(r)' BY <1>10, <1>11, <1>12 DEF RunSound
  <1> QED BY <1>2, <1>7, <1>8, <1>13, StandingStill, OneRunMoves DEF Elsewhere

-----------------------------------------------------------------------------
(* The owner.                                                              *)

\* What runs keep when the issue or the default branch moves.
LEMMA OutdatedTyped ==
  ASSUME RepairInv
  PROVE  /\ Outdated \in [Runs -> RunRecord]
         /\ \A d \in Runs : Outdated[d].nonce = running[d].nonce
                            /\ Outdated[d].attempt = running[d].attempt
  BY DEF Outdated, RepairInv, RepairTypeOK, RunRecord

LEMMA OwnerMoves ==
  ASSUME RepairInv, running' = Outdated, OwnerStep,
         issue' \in Issue, repository' \in Repository,
         \/ repository'.base = repository.base + 1 /\ issue' = issue
         \/ issue'.updated = issue.updated + 1 /\ repository' = repository,
         UNCHANGED <<onGitHub, validated, reruns>>
  PROVE  RepairInv'
  <1>1. repository.base \in Nat /\ issue.updated \in Nat
    BY DEF RepairInv, RepairTypeOK, Issue, Repository
  <1>2. RepairTypeOK'
    <2>1. \A d \in Runs : running'[d].nonce <= running'[d].attempt /\ running'[d].attempt <= reruns'
      BY OutdatedTyped DEF RepairInv, RepairTypeOK
    <2>2. ownerSteps' \in 0..MaxOwnerSteps
      BY RepairAssumption DEF OwnerStep, RepairInv, RepairTypeOK
    <2> QED BY <2>1, <2>2, OutdatedTyped DEF RepairInv, RepairTypeOK
  <1>3. WorldMovesOn /\ announced' = announced
    BY <1>1 DEF WorldMovesOn, GitHubGrows
  <1>4. repository.base < repository'.base \/ issue.updated < issue'.updated
    BY <1>1
  <1> QED BY <1>2, <1>3, <1>4, Overtaking, AnnouncementsStand DEF RepairInv

LEMMA OwnerSteps ==
  ASSUME RepairInv,
         \/ ChangeIssue \/ CommitCode \/ DisableFleet
         \/ \E pin \in Pins : Repin(pin) \/ RepinCaller(pin)
  PROVE  RepairInv'
  <1>1. /\ repository \in Repository
        /\ issue \in Issue
    BY DEF RepairInv, RepairTypeOK
  <1>2. CASE ChangeIssue
    <2>1. issue' \in Issue /\ issue'.updated = issue.updated + 1
      <3>1. \/ issue' = [issue EXCEPT !.updated = @ + 1]
            \/ issue' = [issue EXCEPT !.updated = @ + 1, !.labelled = FALSE]
            \/ issue' = [issue EXCEPT !.updated = @ + 1, !.open = FALSE]
        BY <1>2 DEF ChangeIssue
      <3>2. \E open, labelled \in BOOLEAN :
              issue' = [updated |-> issue.updated + 1, open |-> open,
                        labelled |-> labelled, bounded |-> issue.bounded]
        BY <1>1, <3>1 DEF Issue
      <3> QED BY <1>1, <3>2 DEF Issue
    <2> QED BY <1>1, <1>2, <2>1, OwnerMoves DEF ChangeIssue
  <1>3. ASSUME NEW change \in Repository,
               Commit(change)
        PROVE  RepairInv'
    <2>1. /\ repository' \in Repository
          /\ repository'.base = repository.base + 1
      BY <1>1, <1>3 DEF Commit, Repository
    <2> QED BY <1>1, <1>3, <2>1, OwnerMoves DEF Commit
  <1>4. CASE CommitCode BY <1>1, <1>3, <1>4 DEF CommitCode
  <1>5. CASE DisableFleet BY <1>1, <1>3, <1>5 DEF DisableFleet, Repository
  <1>6. ASSUME NEW pin \in Pins, Repin(pin) \/ RepinCaller(pin) PROVE RepairInv'
    BY <1>1, <1>3, <1>6 DEF Repin, RepinCaller, Repository
  <1> QED BY <1>2, <1>4, <1>5, <1>6

\* A labelled issue starts a run of its own.
LEMMA Labelling ==
  ASSUME RepairInv, NEW r \in Runs, Label(r)
  PROVE  RepairInv'
  <1>1. UNCHANGED <<repository, onGitHub, validated, reruns>> /\ OwnerStep
    BY DEF Label
  <1>2. issue' \in Issue /\ issue'.updated = issue.updated + 1 /\ issue.updated \in Nat
    <2>1. issue \in Issue BY DEF RepairInv, RepairTypeOK
    <2>2. issue' = [issue EXCEPT !.labelled = TRUE, !.updated = @ + 1] BY DEF Label
    <2>3. issue.updated \in Nat BY <2>1 DEF Issue
    <2>4. issue' = [updated |-> issue.updated + 1, open |-> issue.open,
                    labelled |-> TRUE, bounded |-> issue.bounded]
      BY <2>1, <2>2 DEF Issue
    <2> QED BY <2>1, <2>3, <2>4 DEF Issue
  <1> DEFINE new == [NewRun(issue') EXCEPT !.step = "prepare"]
  <1>3. "prepare" \in JobSteps /\ "off" \in JobSteps /\ "prepare" \in Jobs /\ 0 \in 0..MaxReruns
    BY RepairAssumption DEF JobSteps, Jobs
  <1>4. /\ new \in RunRecord /\ new.step = "prepare" /\ new.attempt = 0 /\ new.nonce = 0
        /\ new.event = issue' /\ new.commit = repository
    BY <1>2, <1>3 DEF NewRun, RunRecord, RepairInv, RepairTypeOK
  <1>5. /\ running' \in [Runs -> RunRecord] /\ running'[r] = new
        /\ \A d \in Runs \ {r} : running'[d] = Outdated[d]
    BY <1>4, OutdatedTyped DEF Label
  <1> HIDE DEF new
  <1>6. RepairTypeOK'
    <2>1. \A d \in Runs : running'[d].nonce <= running'[d].attempt /\ running'[d].attempt <= reruns'
      <3>1. reruns \in Nat BY RepairAssumption DEF RepairInv, RepairTypeOK
      <3> QED BY <1>1, <1>4, <1>5, <3>1, OutdatedTyped DEF RepairInv, RepairTypeOK
    <2>2. ownerSteps' \in 0..MaxOwnerSteps
      BY <1>1, RepairAssumption DEF OwnerStep, RepairInv, RepairTypeOK
    <2> QED BY <1>1, <1>2, <1>5, <2>1, <2>2 DEF RepairInv, RepairTypeOK
  <1>7. WorldMovesOn /\ announced' = announced
    BY <1>1, <1>2 DEF WorldMovesOn, GitHubGrows, RepairInv, RepairTypeOK, Repository
  <1>8. \A d \in Runs \ {r} : RunSound(d)'
    BY <1>2, <1>5, <1>6, <1>7, Overtaking
  <1>9. RunSound(r)'
    <2>1. ~Authorized(r)' /\ ~Collected(r)' /\ ~Passed(r)' /\ ~Publishing(r)'
      BY <1>4, <1>5 DEF Authorized, Collected, Passed, Publishing, Ended
    <2>2. EventIsPast(r)'
      BY <1>1, <1>2, <1>4, <1>5 DEF EventIsPast, Repository, RepairInv, RepairTypeOK
    <2>3. running'[r].step = "prepare" BY <1>4, <1>5
    <2> QED
      BY <2>1, <2>2, <2>3 DEF RunSound, ManifestIsPast, PatchIsGuarded, TreeIsValidated,
         BranchIsPushed, PullIsOpen, FreshlyPublished
  <1> QED BY <1>6, <1>7, <1>8, <1>9, AnnouncementsStand DEF RepairInv

-----------------------------------------------------------------------------
LEMMA RepairInvInit == RepairInit => RepairInv
  <1> SUFFICES ASSUME RepairInit PROVE RepairInv OBVIOUS
  <1>1. "off" \in JobSteps /\ "prepare" \in Jobs /\ 0 \in 0..MaxReruns /\ 0 \in 0..MaxOwnerSteps
    BY RepairAssumption DEF JobSteps, Jobs
  <1>2. issue \in Issue BY DEF RepairInit, Issue
  <1>3. running = [r \in Runs |-> NewRun(issue)] BY DEF RepairInit
  <1>3a. repository \in Repository BY RepairAssumption DEF RepairInit, Repository
  <1>4. /\ NewRun(issue) \in RunRecord /\ NewRun(issue).step = "off"
        /\ NewRun(issue).commit = repository
        /\ NewRun(issue).attempt = 0 /\ NewRun(issue).nonce = 0 /\ NewRun(issue).event = issue
    BY <1>1, <1>2, <1>3a DEF NewRun, RunRecord
  <1>5. RepairTypeOK
    <2>2. /\ pulls = {} /\ reruns = 0 /\ ownerSteps = 0 BY DEF RepairInit
    <2> QED BY <1>1, <1>2, <1>3, <1>3a, <1>4, <2>2 DEF RepairTypeOK
  <1>6. AnnouncedIsValidated BY DEF RepairInit, AnnouncedIsValidated
  <1>7. ASSUME NEW r \in Runs PROVE RunSound(r)
    <2>1. running[r].step = "off" /\ running[r].event = issue /\ running[r].commit = repository
      BY <1>3, <1>4
    <2>2. ~Authorized(r) /\ ~Collected(r) /\ ~Passed(r) /\ ~Publishing(r)
      BY <2>1 DEF Authorized, Collected, Passed, Publishing, Ended
    <2>3. EventIsPast(r) BY <1>2, <1>3a, <2>1 DEF EventIsPast, Issue, Repository
    <2> QED
      BY <2>1, <2>2, <2>3 DEF RunSound, ManifestIsPast, PatchIsGuarded, TreeIsValidated,
         BranchIsPushed, PullIsOpen, FreshlyPublished
  <1> QED BY <1>5, <1>6, <1>7 DEF RepairInv

LEMMA RepairInvStep == RepairInv /\ [RepairNext]_repairVars => RepairInv'
  <1> SUFFICES ASSUME RepairInv, [RepairNext]_repairVars PROVE RepairInv' OBVIOUS
  <1>1. CASE UNCHANGED repairVars
    BY <1>1, Keeping, StandingStill, AnnouncementsStand
       DEF repairVars, RepairInv, RepairTypeOK, Elsewhere
  <1>2. ASSUME NEW r \in Runs, RunStep(r) PROVE RepairInv'
    <2>1. CASE Label(r) BY <2>1, Labelling
    <2>2. CASE Intake(r) BY <2>2, Intaking
    <2>3. CASE VerifyCandidate(r) \/ VerifyPublish(r)
      BY <2>3, Verifying DEF VerifyCandidate, VerifyPublish
    <2>4. CASE Collect(r) BY <2>4, Collecting
    <2>5. CASE Validate(r) BY <2>5, Validating
    <2>6. CASE GuardAgain(r) \/ Push(r) \/ OpenPull(r) BY <2>6, Pushing
    <2>7. CASE Comment(r) BY <2>7, Commenting
    <2>8. CASE Lost(r) BY <2>8, Losing
    <2>9. CASE \E job \in Jobs : Rerun(r, job) BY <2>9, Rerunning
    <2> QED BY <1>2, <2>1, <2>2, <2>3, <2>4, <2>5, <2>6, <2>7, <2>8, <2>9 DEF RunStep
  <1>3. CASE \/ ChangeIssue \/ CommitCode \/ DisableFleet
             \/ \E pin \in Pins : Repin(pin) \/ RepinCaller(pin)
    BY <1>3, OwnerSteps
  <1> QED BY <1>1, <1>2, <1>3 DEF RepairNext

\* The repository, the issue and the runs keep their types; a manifest and an
\* event are never newer than what they were made from.
THEOREM RepairInvHolds == RepairSpec => []RepairInv
  BY RepairInvInit, RepairInvStep, PTL DEF RepairSpec

\* Types alone (issues, default branch, runs with their artifacts).
THEOREM RepairTypeCorrect == RepairSpec => []RepairTypeOK
  <1>1. RepairInv => RepairTypeOK BY DEF RepairInv
  <1> QED BY <1>1, RepairInvHolds, PTL

\* Whatever jobs are run again and wherever runners are lost, a draft that an
\* issue comment calls validated was validated by its run and is on its branch.
THEOREM AnnouncementsAreValidated == RepairSpec => []AnnouncedIsValidated
  <1>1. RepairInv => AnnouncedIsValidated BY DEF RepairInv
  <1> QED BY <1>1, RepairInvHolds, PTL

\* A managed run that the issue, the branch or the policy overtook before its
\* publishing job started never reaches a step that writes.
THEOREM StaleRunsPublishNothing == RepairSpec => []NothingStaleIsPublished
  <1>1. RepairInv => NothingStaleIsPublished
    BY DEF RepairInv, RunSound, FreshlyPublished, NothingStaleIsPublished
  <1> QED BY <1>1, RepairInvHolds, PTL
=============================================================================
