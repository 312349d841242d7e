-------------------------- MODULE SerialController --------------------------
(***************************************************************************)
(* The serial mode of long_running_controller.py, for goals without        *)
(* delegated claims: one request in flight at a time, the run loop that     *)
(* executes commands and may crash between any two of its steps, repairs    *)
(* under a shared attempt, and authorised revisions of the plan.            *)
(*                                                                         *)
(* goal is the state the journal holds; every operation loads it, decides   *)
(* and saves it under the controller lock, so it survives every crash.      *)
(***************************************************************************)
EXTENDS Naturals, FiniteSets, Sequences

CONSTANTS
  Actions,          \* every action of the manifest and of the proposed plans
  Initial,          \* the actions of the manifest
  DependsOn,        \* [Actions -> SUBSET Actions], depends_on as written
  Kind,             \* [Actions -> {"work", "validate", "repair"}]
  Mandatory,        \* actions whose "required" flag is true
  Reviewed,         \* actions whose "requires_review" flag is true
  Commands,         \* actions with a command, and "review" if the reviewer has one
  Attempts,         \* repair attempts
  AttemptOf,        \* [Actions -> Attempts], read for repairs only
  Findings,         \* identifiers of findings
  Contents,         \* what the evidence can contain
  Missing,          \* the member of Contents that stands for a missing file
  Plans,            \* identifiers of proposed plan revisions
  Adds,             \* [Plans -> SUBSET Actions], add_actions
  Rewires,          \* [Plans -> partial functions from actions to parents]
  NoAction,         \* no action, in a review request and as no preference
  NotJudged,        \* no accepted review stands
  Order,            \* [Actions -> Nat], the position in the manifest
  MaxDispatches, MaxRepairCycles,
  MaxDisturbances   \* bound on crashes, edits, pauses and new objectives together


VARIABLES
  goal,       \* the journal's state
  runner,     \* where the run loop stands: its step and the result it holds
  evidence,   \* the declared evidence as it is on disk
  disturbed,  \* crashes, edits, pauses and new objectives so far
  begun,      \* the work of the request in flight was begun
  ran,        \* how often each action was begun since it was opened to execution
  seen,       \* the parents an action had when it was begun
  judged      \* the evidence the last accepted review judged, until work begins

world == <<evidence, disturbed>>
history == <<begun, ran, seen, judged>>
serialVars == <<goal, runner, evidence, disturbed, begun, ran, seen, judged>>

\* What validate_config establishes.
ASSUME ManifestAssumption ==
  /\ Initial \subseteq Actions
  /\ DependsOn \in [Actions -> SUBSET Actions]
  /\ \A a \in Initial : DependsOn[a] \subseteq Initial
  /\ \A S \in SUBSET Initial : S # {} => \E a \in S : DependsOn[a] \cap S = {}
  /\ \A S \in SUBSET Actions : S # {} => \E a \in S : \A b \in S : Order[a] <= Order[b]
  /\ Adds \in [Plans -> SUBSET Actions]
  /\ Kind \in [Actions -> {"work", "validate", "repair"}]
  /\ AttemptOf \in [Actions -> Attempts]
  /\ \A a \in Actions : Kind[a] = "repair" => a \in Reviewed
  /\ NoAction \notin Actions /\ NotJudged \notin Contents
  /\ MaxDispatches \in Nat /\ MaxRepairCycles \in Nat \ {0}

NoRequest == [token |-> 0]
Idle == [step |-> "idle", result |-> "none"]

-----------------------------------------------------------------------------
(* The plan.                                                               *)

Known == DOMAIN goal.actions

\* An action some ancestor of which, itself included, is held.
Upstream(plan, a) ==
  {b \in DOMAIN plan : \A T \in SUBSET DOMAIN plan :
     a \in T /\ (\A d \in T : plan[d] \subseteq T) => b \in T}

Acyclic(plan) ==
  \A S \in SUBSET DOMAIN plan : S # {} => \E a \in S : plan[a] \cap S = {}

\* The changed actions and everything that waits for them.
Downstream(plan, changed) ==
  {a \in DOMAIN plan : Upstream(plan, a) \cap changed # {}}

NewAttempt == [cycles |-> 0, stopped |-> FALSE, candidates |-> <<>>, finding_sets |-> <<>>]

-----------------------------------------------------------------------------
(* Observation: what next and finish do when the evidence has moved.       *)

\* Every clearance is spent and a review is due on the evidence as it is now.
Reopened(g) ==
  [g EXCEPT !.snapshot = evidence, !.review_due = TRUE, !.review_failures = 0,
            !.clearances = {}]

\* Mutant: a finished goal stays complete when its evidence moves.
InvalidatedComplete(g) == Reopened(g)
Invalidated(g) == [Reopened(g) EXCEPT !.complete = FALSE]

Observed == IF evidence # goal.snapshot THEN Invalidated(goal) ELSE goal

-----------------------------------------------------------------------------
(* next                                                                    *)

Exhausted(g, a) ==
  LET k == AttemptOf[a] IN g.attempts[k].stopped \/ g.attempts[k].cycles >= MaxRepairCycles

Eligible(g) ==
  {a \in Known :
     /\ g.actions[a] = "pending"
     /\ Upstream(g.plan, a) \cap g.holds = {}
     /\ \A b \in g.plan[a] : g.actions[b] = "done"
     /\ a \in Reviewed => <<a, g.snapshot>> \in g.clearances
     /\ Kind[a] = "repair" => ~Exhausted(g, a)}

\* The preferred action first, then the order of the manifest.
First(g) ==
  CHOOSE a \in Eligible(g) :
    \/ a = g.preferred
    \/ /\ g.preferred \notin Eligible(g)
       /\ \A b \in Eligible(g) : Order[a] <= Order[b]

ReviewsNext(g) == g.review_due /\ g.review_failures < 2

Request(g, a) ==
  [token |-> g.dispatches + 1, action |-> a, snapshot |-> g.snapshot,
   findings |-> g.findings]

\* next, asked by the run loop (loop) or by a cooperating host.
Dispatch(loop) ==
  /\ runner.step = "idle"
  /\ goal.control = "active" /\ goal.pending = NoRequest
  /\ LET g == Observed IN
     /\ ~g.complete /\ g.dispatches < MaxDispatches
     /\ ReviewsNext(g) \/ Eligible(g) # {}
     /\ LET a == IF ReviewsNext(g) THEN NoAction ELSE First(g)
            cmd == IF a = NoAction THEN "review" ELSE a
        IN  /\ goal' = [g EXCEPT !.pending = Request(g, a), !.dispatches = @ + 1]
            /\ runner' = IF loop /\ cmd \in Commands THEN [Idle EXCEPT !.step = "dispatched"]
                         ELSE Idle
  /\ begun' = FALSE
  /\ UNCHANGED <<world, ran, seen, judged>>

\* next finds nothing to dispatch and saves what it observed.  A COMPLETE
\* reply is never saved; the other two are, when the evidence moved.
Waiting ==
  /\ runner.step = "idle"
  /\ goal.control = "active" /\ goal.pending = NoRequest
  /\ LET g == Observed IN
     /\ g # goal
     /\ g.dispatches >= MaxDispatches \/ ~(ReviewsNext(g) \/ Eligible(g) # {})
     /\ goal' = g
  /\ UNCHANGED <<runner, world, history>>

-----------------------------------------------------------------------------
(* finish                                                                  *)

\* A review of evidence that moved is not applied; its request is retired.
StaleReview == Invalidated(goal)

\* A failed review, or one whose reply was refused.
FailedReview ==
  [goal EXCEPT !.review_failures = @ + 1,
               !.review_due = goal.review_failures + 1 < 2,
               !.clearances = {}]

\* What a review may decide.  HOLD_DEPENDENT_ACTION changes nothing that
\* CONTINUE does not.
Reviews ==
  [decision : {"CONTINUE", "REPAIR", "VALIDATE"}, cleared : SUBSET Known,
   held : SUBSET Known, released : SUBSET Known,
   found : SUBSET Findings, resolved : SUBSET Findings,
   next_action : Known \cup {NoAction}, complete : BOOLEAN]

HoldsAfter(v) == (goal.holds \cup v.held) \ v.released
FindingsAfter(v) == (goal.findings \cup v.found) \ v.resolved

\* The checks of _review before it changes the goal for good.
Acceptable(v) ==
  /\ v.released \subseteq (goal.holds \cup v.held) \cap v.cleared
  /\ v.cleared \cap HoldsAfter(v) = {}
  /\ v.resolved \subseteq goal.findings \cup v.found
  /\ v.next_action = NoAction \/ v.next_action \in v.cleared
  /\ v.decision = "REPAIR" => v.next_action # NoAction /\ Kind[v.next_action] = "repair"
  /\ v.decision = "VALIDATE" => v.next_action # NoAction /\ Kind[v.next_action] = "validate"
  /\ LET repairs == {a \in v.cleared : Kind[a] = "repair"}
     IN  repairs # {} => v.decision = "REPAIR" /\ repairs = {v.next_action}
  /\ v.complete =>
       /\ v.next_action = NoAction /\ v.cleared = {}
       /\ FindingsAfter(v) = {} /\ HoldsAfter(v) = {}
       /\ \A a \in Known \cap Mandatory : goal.actions[a] = "done"
       /\ evidence # Missing

\* Mutant: a repair that answers the same findings again goes on.
AttemptsKept(v) == goal.attempts

\* A repair asked for under findings that were already repaired once stops
\* its attempt.
AttemptsAfter(v) ==
  LET k == AttemptOf[v.next_action]
      tried == {goal.attempts[k].finding_sets[i] : i \in DOMAIN goal.attempts[k].finding_sets}
  IN  IF v.decision = "REPAIR" /\ FindingsAfter(v) \in tried
      THEN [goal.attempts EXCEPT ![k].stopped = TRUE]
      ELSE goal.attempts

Reviewing(v) ==
  [goal EXCEPT !.holds = HoldsAfter(v), !.findings = FindingsAfter(v),
               !.attempts = AttemptsAfter(v),
               !.clearances = {<<a, evidence>> : a \in v.cleared},
               !.preferred = v.next_action, !.review_due = FALSE,
               !.review_failures = 0, !.complete = v.complete]

\* An executed repair is charged to its attempt, which stops when the
\* evidence is back at a candidate it had before.
Charged(result) ==
  LET r == goal.pending  k == AttemptOf[r.action]  at == goal.attempts[k]
      before == IF at.candidates = <<>> THEN <<r.snapshot>> ELSE at.candidates
      again == \E i \in DOMAIN before : before[i] = evidence
  IN  IF Kind[r.action] = "repair" /\ result # "not_started"
      THEN [goal.attempts EXCEPT ![k] =
             [cycles |-> at.cycles + 1, stopped |-> at.stopped \/ again,
              candidates |-> Append(before, evidence),
              finding_sets |-> Append(at.finding_sets, r.findings)]]
      ELSE goal.attempts

Results == {"done", "failed", "uncertain", "not_started"}

\* Mutant: an unknown outcome leaves the action open.
OutcomeRetried(result) == IF result \in {"not_started", "uncertain"} THEN "pending" ELSE result
Outcome(result) == IF result = "not_started" THEN "pending" ELSE result

\* Mutant: a result calls for no review.
UnreviewedAfter(g) == [g EXCEPT !.snapshot = evidence]
ReviewAfter(g) == Reopened(g)

Working(result) ==
  LET a == goal.pending.action IN
  [ReviewAfter(goal) EXCEPT
     !.actions[a] = Outcome(result), !.attempts = Charged(result),
     !.executed = IF result = "not_started" THEN @ ELSE @ \cup {a}]

Retired(g) == [g EXCEPT !.pending = NoRequest]

IsReview == goal.pending # NoRequest /\ goal.pending.action = NoAction
IsWork == goal.pending # NoRequest /\ goal.pending.action # NoAction
Moved == evidence # goal.pending.snapshot

\* The result of a review reaches finish: from the run loop once the reviewer
\* ended, from a cooperating host when no run loop holds the request.
FinishReview ==
  /\ IsReview /\ runner.step \in {"idle", "ended"}
  /\ IF Moved
     THEN goal' = Retired(StaleReview) /\ UNCHANGED judged
     ELSE \E v \in Reviews :
            /\ Acceptable(v)
            /\ goal' = Retired(Reviewing(v)) /\ judged' = evidence
  /\ runner' = Idle
  /\ UNCHANGED <<world, begun, ran, seen>>

\* The reviewer fails, or its reply is refused and the run loop finishes the
\* token with a failed review instead; so it does when check was not READY.
FailReview ==
  /\ IsReview /\ runner.step \in {"idle", "ended", "refused"}
  /\ goal' = Retired(IF Moved THEN StaleReview ELSE FailedReview)
  /\ runner' = Idle
  /\ UNCHANGED <<world, history>>

\* The result of an action reaches finish.  A host reports what happened:
\* not_started exactly when the command was not started, and after a crash
\* uncertain as well as the outcome it found.
FinishWork ==
  /\ IsWork
  /\ \E result \in Results :
       /\ \/ runner.step = "ended" /\ result = runner.result
          \/ runner.step = "refused" /\ result = "not_started"
          \/ runner.step = "idle" /\ (result = "not_started") = ~begun
       /\ goal' = Retired(Working(result))
  /\ runner' = Idle
  /\ UNCHANGED <<world, history>>

-----------------------------------------------------------------------------
(* run, and a host that works a request itself                             *)

\* check, just before the command.
RunCheck ==
  /\ runner.step = "dispatched"
  /\ runner' = [Idle EXCEPT !.step = IF goal.control = "active" /\ ~Moved
                                     THEN "ready" ELSE "refused"]
  /\ UNCHANGED <<goal, world, history>>

Begin ==
  /\ begun' = TRUE
  /\ IF IsWork
     THEN LET a == goal.pending.action IN
          /\ ran' = [ran EXCEPT ![a] = @ + 1]
          /\ seen' = [seen EXCEPT ![a] = goal.plan[a]]
          /\ judged' = NotJudged
     ELSE UNCHANGED <<ran, seen, judged>>

RunCommand ==
  /\ runner.step = "ready" /\ Begin
  /\ runner' = [Idle EXCEPT !.step = "running"]
  /\ UNCHANGED <<goal, world>>

\* The command exits, times out or cannot be started at all; the evidence is
\* what it left.
RunEnded ==
  /\ runner.step = "running"
  /\ \E result \in IF IsWork THEN {"done", "failed", "uncertain"} ELSE {"none"} :
       runner' = [step |-> "ended", result |-> result]
  /\ IF IsWork THEN evidence' \in Contents ELSE UNCHANGED evidence
  /\ UNCHANGED <<goal, disturbed, history>>

\* A host was handed the request (NEEDS_AGENT, or next of its own), found it
\* READY and works it.
AgentWorks ==
  /\ IsWork /\ runner = Idle /\ ~begun
  /\ goal.pending.action \notin Commands
  /\ goal.control = "active" /\ ~Moved
  /\ Begin /\ evidence' \in Contents
  /\ UNCHANGED <<goal, runner, disturbed>>

Disturb == disturbed < MaxDisturbances /\ disturbed' = disturbed + 1

\* The run loop's process dies.  The journal keeps the request.
Crash ==
  /\ runner # Idle /\ Disturb
  /\ runner' = Idle
  /\ UNCHANGED <<goal, evidence, history>>

\* Somebody else changes the evidence; no lock prevents it.
Edit ==
  /\ Disturb
  /\ evidence' \in Contents \ {evidence}
  /\ UNCHANGED <<goal, runner, history>>

-----------------------------------------------------------------------------
(* The owner                                                               *)

OwnerControl ==
  /\ goal.control # "stopped" /\ (goal.control = "active" => Disturb)
  /\ (goal.control # "active" => UNCHANGED disturbed)
  /\ \E c \in {"active", "paused", "stopped"} \ {goal.control} :
       goal' = [goal EXCEPT !.control = c]
  /\ UNCHANGED <<runner, evidence, history>>

\* The owner reports what became of an action nobody could tell about.
OwnerReconcile ==
  /\ goal.pending = NoRequest
  /\ \E a \in Known, outcome \in {"done", "pending"} :
       /\ goal.actions[a] \in {"uncertain", "failed"}
       /\ goal' = [goal EXCEPT !.actions[a] = outcome, !.review_due = TRUE,
                     !.review_failures = 0, !.clearances = {}, !.complete = FALSE]
       /\ ran' = [ran EXCEPT ![a] = 0]
  /\ UNCHANGED <<runner, world, begun, seen, judged>>

\* A new objective.
OwnerRevise ==
  /\ goal.pending = NoRequest /\ Disturb
  /\ goal' = [goal EXCEPT !.version = @ + 1, !.complete = FALSE,
                !.clearances = {}, !.review_due = TRUE, !.review_failures = 0]
  /\ UNCHANGED <<runner, evidence, history>>

-----------------------------------------------------------------------------
(* Plan revision                                                           *)

\* The manifest after a plan: its edges replaced, its actions added.
Candidate(p) ==
  [a \in Known \cup Adds[p] |->
    IF a \in DOMAIN Rewires[p] THEN Rewires[p][a]
    ELSE IF a \in Adds[p] THEN DependsOn[a]
    ELSE goal.plan[a]]

\* The journal's index of executed actions outlives a reconciliation.
RewirableByStatus(a) == a \in Known /\ goal.actions[a] = "pending"
Rewirable(a) == a \in Known /\ goal.actions[a] = "pending" /\ a \notin goal.executed

\* What _plan_candidate requires of a patch whose base is the current plan.
Admissible(p) ==
  /\ goal.pending = NoRequest /\ goal.control # "stopped"
  /\ p \notin goal.applied
  /\ Adds[p] \cap Known = {} /\ Adds[p] \cup DOMAIN Rewires[p] # {}
  /\ \A a \in DOMAIN Rewires[p] :
       /\ Rewirable(a)
       /\ Rewires[p][a] # goal.plan[a]
  /\ \A a \in DOMAIN Candidate(p) : Candidate(p)[a] \subseteq DOMAIN Candidate(p) \ {a}
  /\ Acyclic(Candidate(p))

KnownAttempts == {AttemptOf[a] : a \in {b \in Known : Kind[b] = "repair"}}

\* Authority for one patch on one base.  A repair under an attempt the goal
\* does not know needs expanded scope.
AuthorizePlan(p) ==
  /\ Admissible(p)
  /\ \E scope \in {"existing", "expanded"} :
       /\ \/ scope = "expanded"
          \/ \A a \in Adds[p] : Kind[a] = "repair" => AttemptOf[a] \in KnownAttempts
       /\ \A grant \in goal.grants : grant.plan = p => grant.base # goal.version
       /\ goal' = [goal EXCEPT !.grants = @ \cup {[plan |-> p, base |-> goal.version, scope |-> scope]}]
  /\ UNCHANGED <<runner, world, history>>

StatusesUnder(plan) == [a \in DOMAIN plan |-> IF a \in Known THEN goal.actions[a] ELSE "pending"]

RevisePlan(p) ==
  /\ Admissible(p)
  /\ \E grant \in goal.grants : grant.plan = p /\ grant.base = goal.version
  /\ LET plan == Candidate(p)
         affected == Downstream(plan, Adds[p] \cup DOMAIN Rewires[p])
         moved == evidence # goal.snapshot
     IN goal' = [goal EXCEPT
          !.plan = plan, !.version = @ + 1, !.applied = @ \cup {p},
          !.actions = StatusesUnder(plan),
          !.clearances = IF moved THEN {} ELSE {c \in @ : c[1] \notin affected},
          !.snapshot = evidence, !.complete = FALSE, !.review_due = TRUE,
          !.preferred = IF @ \in affected THEN NoAction ELSE @]
  /\ UNCHANGED <<runner, world, history>>

-----------------------------------------------------------------------------
SerialInit ==
  /\ evidence \in Contents
  /\ goal = [control |-> "active", complete |-> FALSE,
             actions |-> [a \in Initial |-> "pending"],
             plan |-> [a \in Initial |-> DependsOn[a]],
             clearances |-> {}, holds |-> {}, findings |-> {},
             attempts |-> [k \in Attempts |-> NewAttempt],
             pending |-> NoRequest, dispatches |-> 0, snapshot |-> evidence,
             review_due |-> TRUE, review_failures |-> 0, preferred |-> NoAction,
             executed |-> {}, version |-> 0, applied |-> {}, grants |-> {}]
  /\ runner = Idle /\ disturbed = 0
  /\ begun = FALSE /\ ran = [a \in Actions |-> 0]
  /\ seen = [a \in Actions |-> {}] /\ judged = NotJudged

SerialNext ==
  \/ \E loop \in BOOLEAN : Dispatch(loop)
  \/ Waiting
  \/ FinishReview \/ FailReview \/ FinishWork
  \/ RunCheck \/ RunCommand \/ RunEnded \/ AgentWorks
  \/ Crash \/ Edit
  \/ OwnerControl \/ OwnerReconcile \/ OwnerRevise
  \/ \E p \in Plans : AuthorizePlan(p) \/ RevisePlan(p)

SerialSpec == SerialInit /\ [][SerialNext]_serialVars

-----------------------------------------------------------------------------
(* Properties                                                              *)

Requests == {NoRequest} \cup
  [token : 1..MaxDispatches, action : Actions \cup {NoAction}, snapshot : Contents,
   findings : SUBSET Findings]

\* Every part of the journal's state has its type, and the plan stays an
\* acyclic graph over the known actions.
SerialTypeOK ==
  /\ goal.control \in {"active", "paused", "stopped"} /\ goal.complete \in BOOLEAN
  /\ Known \subseteq Actions /\ DOMAIN goal.plan = Known
  /\ goal.actions \in [Known -> {"pending", "done", "failed", "uncertain"}]
  /\ \A a \in Known : goal.plan[a] \subseteq Known
  /\ Acyclic(goal.plan)
  /\ goal.clearances \subseteq Known \X Contents
  /\ goal.holds \subseteq Known /\ goal.findings \subseteq Findings
  /\ goal.pending \in Requests /\ goal.dispatches \in 0..MaxDispatches
  /\ goal.snapshot \in Contents /\ evidence \in Contents
  /\ goal.review_due \in BOOLEAN /\ goal.review_failures \in Nat
  /\ goal.preferred \in Known \cup {NoAction}
  /\ runner.step \in {"idle", "dispatched", "ready", "refused", "running", "ended"}

\* No side effect is repeated: whatever crashes, however late a result is
\* reported, an action is begun again only after its owner reconciled it.
NeverReplayed == \A a \in Actions : ran[a] <= 1

\* Work that needs a review is in flight and not yet begun only when the last
\* accepted review judged exactly the evidence it was dispatched on, and
\* nothing was executed since.
WorkFollowsReview ==
  IsWork /\ ~begun /\ goal.pending.action \in Reviewed => judged = goal.pending.snapshot

\* A goal is complete only while every mandatory action of the current plan
\* is done, nothing is held or open or in flight, and the evidence the review
\* accepted is the one on record.
SerialCompletion ==
  goal.complete =>
    /\ goal.pending = NoRequest /\ goal.holds = {} /\ goal.findings = {}
    /\ \A a \in Known \cap Mandatory : goal.actions[a] = "done"
    /\ judged = goal.snapshot /\ judged # Missing

\* A repair attempt neither goes round in circles nor starts over: two of its
\* repairs never answered the same findings, no repair followed one that
\* brought back an earlier candidate, and the cap counts every one of them.
RepairsConverge ==
  \A k \in Attempts :
    LET at == goal.attempts[k]  n == Len(at.candidates) IN
    /\ at.cycles <= MaxRepairCycles
    /\ \A i, j \in DOMAIN at.finding_sets : at.finding_sets[i] = at.finding_sets[j] => i = j
    /\ \A i, j \in 1..(n - 1) : at.candidates[i] = at.candidates[j] => i = j

\* An action keeps the parents it was executed under: no plan revision
\* rewires the past, not even of an action reconciled to pending.
ExecutedIsNotRewired == \A a \in goal.executed : seen[a] = goal.plan[a]
=============================================================================
