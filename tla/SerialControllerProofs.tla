------------------------ MODULE SerialControllerProofs ------------------------
(***************************************************************************)
(* The serial controller: the type of the journal's state, that no side    *)
(* effect is repeated, that work follows a review of the evidence it works *)
(* on, what a completed goal is, that repair attempts converge and that no *)
(* revision rewires what was executed.                                     *)
(*                                                                         *)
(* What makes these inductive is what the request in flight carries over   *)
(* from its dispatch to its result, whoever works it and whoever dies:     *)
(* FlightKnown, and one invariant for each property that says what the     *)
(* request, begun or not, owes to the state it was dispatched in.          *)
(***************************************************************************)
EXTENDS SerialController, TLAPS

Fields ==
  {"control", "complete", "actions", "plan", "clearances", "holds", "findings", "attempts",
   "pending", "dispatches", "snapshot", "review_due", "review_failures", "preferred",
   "executed", "version", "applied", "grants"}

Tries == [cycles : Nat, stopped : BOOLEAN, candidates : Seq(Contents),
          finding_sets : Seq(SUBSET Findings)]

\* What the run loop knows of its request, and that a goal with a request in
\* flight is not complete and has not looked at the evidence since.
FlightKnown ==
  /\ runner \in [step : {"idle", "dispatched", "ready", "refused", "running", "ended"},
                 result : {"none", "done", "failed", "uncertain"}]
  /\ begun \in BOOLEAN
  /\ runner.step # "idle" => goal.pending # NoRequest
  /\ runner.step \in {"dispatched", "ready", "refused"} => ~begun
  /\ runner.step \in {"running", "ended"} => begun
  /\ runner.step = "ended" /\ IsWork => runner.result # "none"
  /\ goal.pending # NoRequest => ~goal.complete /\ goal.pending.snapshot = goal.snapshot
  /\ IsWork => goal.pending.action \in Known /\ goal.actions[goal.pending.action] = "pending"

\* An action was begun only if it is in flight or has an outcome.
RanKnown ==
  /\ ran \in [Actions -> Nat]
  /\ NeverReplayed
  /\ \A a \in Actions : ran[a] # 0 =>
       \/ a \in Known /\ goal.actions[a] # "pending"
       \/ IsWork /\ begun /\ goal.pending.action = a

\* The clearances that stand are of the evidence judged last; those left while
\* work runs are dropped when its result comes.
JudgedKnown ==
  /\ WorkFollowsReview
  /\ ~(IsWork /\ begun) => \A c \in goal.clearances : c[2] = judged

\* The plan stands still under work that was begun.
ExecutedKnown ==
  /\ goal.executed \subseteq Known /\ seen \in [Actions -> SUBSET Actions]
  /\ ExecutedIsNotRewired
  /\ IsWork /\ begun => seen[goal.pending.action] = goal.plan[goal.pending.action]

BaseInv == DOMAIN goal = Fields /\ SerialTypeOK /\ FlightKnown

USE ManifestAssumption

-----------------------------------------------------------------------------
(* How an operation changes the journal's state.                           *)

\* h is g but for the fields in names.
Changes(g, h, names) == DOMAIN h = Fields /\ \A f \in Fields \ names : h[f] = g[f]

Spent == {"snapshot", "review_due", "review_failures", "clearances"}

LEMMA ReopenedFields ==
  ASSUME NEW g, DOMAIN g = Fields
  PROVE  /\ Changes(g, Reopened(g), Spent)
         /\ Reopened(g).snapshot = evidence /\ Reopened(g).clearances = {}
         /\ Reopened(g).review_due = TRUE /\ Reopened(g).review_failures = 0
  BY DEF Reopened, Changes, Spent, Fields

LEMMA InvalidatedFields ==
  ASSUME NEW g, DOMAIN g = Fields
  PROVE  /\ Changes(g, Invalidated(g), Spent \cup {"complete"})
         /\ Invalidated(g).snapshot = evidence /\ Invalidated(g).clearances = {}
         /\ Invalidated(g).review_due = TRUE /\ Invalidated(g).review_failures = 0
         /\ Invalidated(g).complete = FALSE
  <1>1. Reopened(g).clearances = {} /\ Changes(g, Reopened(g), Spent)
    BY ReopenedFields
  <1>2. QED
    BY <1>1, ReopenedFields DEF Invalidated, Changes, Spent, Fields

\* What an observation changes, if anything.
LEMMA ObservedFields ==
  ASSUME BaseInv
  PROVE  /\ Changes(goal, Observed, Spent \cup {"complete"})
         /\ Observed.snapshot = evidence
         /\ Observed = goal \/ (Observed.clearances = {} /\ Observed.complete = FALSE)
         /\ Observed.review_due \in BOOLEAN /\ Observed.review_failures \in Nat
         /\ Observed.complete \in BOOLEAN
  <1>1. DOMAIN goal = Fields
    BY DEF BaseInv
  <1>2. CASE evidence # goal.snapshot
    <2>1. Observed = Invalidated(goal)
      BY <1>2 DEF Observed
    <2>2. /\ Changes(goal, Observed, Spent \cup {"complete"})
          /\ Observed.snapshot = evidence /\ Observed.clearances = {}
          /\ Observed.review_failures = 0
      BY <1>1, <2>1, InvalidatedFields
    <2>3. Observed.review_due = TRUE /\ Observed.complete = FALSE
      BY <1>1, <2>1, InvalidatedFields
    <2>4. Observed.review_due \in BOOLEAN /\ Observed.complete \in BOOLEAN
      BY <2>3
    <2>5. QED
      BY <2>2, <2>3, <2>4
  <1>3. CASE evidence = goal.snapshot
    <2>1. Observed = goal
      BY <1>3 DEF Observed
    <2>2. goal.review_due \in BOOLEAN /\ goal.review_failures \in Nat /\ goal.complete \in BOOLEAN
      BY DEF BaseInv, SerialTypeOK
    <2>3. QED
      BY <1>1, <1>3, <2>1, <2>2 DEF Changes
  <1>4. QED
    BY <1>2, <1>3

LEMMA RetiredFields ==
  ASSUME NEW g, DOMAIN g = Fields
  PROVE  Changes(g, Retired(g), {"pending"}) /\ Retired(g).pending = NoRequest
  BY DEF Retired, Changes, Fields

LEMMA ReviewingFields ==
  ASSUME NEW v, DOMAIN goal = Fields
  PROVE  /\ Changes(goal, Reviewing(v),
              {"holds", "findings", "attempts", "clearances", "preferred", "review_due",
               "review_failures", "complete"})
         /\ Reviewing(v).holds = HoldsAfter(v) /\ Reviewing(v).findings = FindingsAfter(v)
         /\ Reviewing(v).attempts = AttemptsAfter(v)
         /\ Reviewing(v).clearances = {<<a, evidence>> : a \in v.cleared}
         /\ Reviewing(v).preferred = v.next_action
         /\ Reviewing(v).review_due = FALSE /\ Reviewing(v).review_failures = 0
         /\ Reviewing(v).complete = v.complete
  BY DEF Reviewing, Changes, Fields

LEMMA FailedFields ==
  ASSUME DOMAIN goal = Fields
  PROVE  /\ Changes(goal, FailedReview, {"review_due", "review_failures", "clearances"})
         /\ FailedReview.review_failures = goal.review_failures + 1
         /\ FailedReview.review_due = (goal.review_failures + 1 < 2)
         /\ FailedReview.clearances = {}
  BY DEF FailedReview, Changes, Fields

LEMMA WorkingFields ==
  ASSUME NEW result, DOMAIN goal = Fields
  PROVE  /\ Changes(goal, Working(result), Spent \cup {"actions", "attempts", "executed"})
         /\ Working(result).snapshot = evidence /\ Working(result).clearances = {}
         /\ Working(result).review_due = TRUE /\ Working(result).review_failures = 0
         /\ Working(result).actions =
              [goal.actions EXCEPT ![goal.pending.action] = Outcome(result)]
         /\ Working(result).attempts = Charged(result)
         /\ Working(result).executed =
              IF result = "not_started" THEN goal.executed
              ELSE goal.executed \cup {goal.pending.action}
  <1>1. Changes(goal, Reopened(goal), Spent)
    BY ReopenedFields
  <1>2. /\ Reopened(goal).actions = goal.actions /\ Reopened(goal).executed = goal.executed
    BY <1>1 DEF Changes, Spent, Fields
  <1>3. QED
    BY <1>1, <1>2, ReopenedFields DEF Working, ReviewAfter, Changes, Spent, Fields

-----------------------------------------------------------------------------
(* What the operations do.                                                 *)

Statuses == {"pending", "done", "failed", "uncertain"}

\* The first eligible action is one.
LEMMA FirstIsEligible ==
  ASSUME NEW g, Eligible(g) \subseteq Actions, Eligible(g) # {}
  PROVE  First(g) \in Eligible(g)
  <1> DEFINE Fits(a) == \/ a = g.preferred
                       \/ /\ g.preferred \notin Eligible(g)
                          /\ \A b \in Eligible(g) : Order[a] <= Order[b]
  <1>1. \E a \in Eligible(g) : Fits(a)
    <2>1. CASE g.preferred \in Eligible(g)
      BY <2>1
    <2>2. CASE g.preferred \notin Eligible(g)
      <3>1. PICK a \in Eligible(g) : \A b \in Eligible(g) : Order[a] <= Order[b]
        OBVIOUS
      <3>2. QED
        BY <2>2, <3>1
    <2>3. QED
      BY <2>1, <2>2
  <1>2. First(g) = CHOOSE a \in Eligible(g) : Fits(a)
    BY DEF First
  <1> HIDE DEF Fits
  <1>3. QED
    BY <1>1, <1>2

LEMMA DispatchStep ==
  ASSUME BaseInv, NEW loop \in BOOLEAN, Dispatch(loop)
  PROVE  \E a \in Known \cup {NoAction} :
    /\ Changes(goal, goal', Spent \cup {"complete", "pending", "dispatches"})
    /\ goal'.pending = [token |-> goal.dispatches + 1, action |-> a, snapshot |-> evidence,
                        findings |-> goal.findings]
    /\ goal'.dispatches = goal.dispatches + 1 /\ goal.dispatches < MaxDispatches
    /\ goal'.snapshot = evidence /\ goal'.complete = FALSE
    /\ goal'.review_due \in BOOLEAN /\ goal'.review_failures \in Nat
    /\ goal'.clearances = goal.clearances \/ goal'.clearances = {}
    /\ a # NoAction =>
         /\ goal.actions[a] = "pending"
         /\ a \in Reviewed => <<a, evidence>> \in goal'.clearances
         /\ Kind[a] = "repair" => ~Exhausted(goal, a)
    /\ runner' = Idle \/ runner' = [Idle EXCEPT !.step = "dispatched"]
  <1> DEFINE g == Observed
             a == IF ReviewsNext(g) THEN NoAction ELSE First(g)
  <1>1. /\ ~g.complete /\ g.dispatches < MaxDispatches
        /\ ReviewsNext(g) \/ Eligible(g) # {}
        /\ goal' = [g EXCEPT !.pending = Request(g, a), !.dispatches = @ + 1]
        /\ runner' = Idle \/ runner' = [Idle EXCEPT !.step = "dispatched"]
    BY DEF Dispatch
  <1>2. /\ Changes(goal, g, Spent \cup {"complete"}) /\ g.snapshot = evidence
        /\ g.clearances = goal.clearances \/ g.clearances = {}
        /\ g.review_due \in BOOLEAN /\ g.review_failures \in Nat
    BY ObservedFields
  <1>3. g.complete = FALSE
    <2>1. g.complete \in BOOLEAN
      BY ObservedFields
    <2>2. QED
      BY <1>1, <2>1
  <1>4. a # NoAction => a \in Eligible(g)
    <2>1. Eligible(g) \subseteq Actions
      BY DEF Eligible, BaseInv, SerialTypeOK
    <2>2. QED
      BY <1>1, <2>1, FirstIsEligible
  <1>5. /\ g.actions = goal.actions /\ g.attempts = goal.attempts /\ g.findings = goal.findings
        /\ g.dispatches = goal.dispatches
    BY <1>2 DEF Changes, Spent, Fields
  <1>6. a # NoAction =>
         /\ a \in Known /\ goal.actions[a] = "pending"
         /\ a \in Reviewed => <<a, evidence>> \in g.clearances
         /\ Kind[a] = "repair" => ~Exhausted(goal, a)
    BY <1>2, <1>4, <1>5 DEF Eligible, Exhausted
  <1> HIDE DEF g, a
  <1>7. /\ Changes(g, goal', {"pending", "dispatches"})
        /\ goal'.pending = Request(g, a) /\ goal'.dispatches = goal.dispatches + 1
    BY <1>1, <1>2, <1>5 DEF Changes, Fields
  <1>8. Request(g, a) = [token |-> goal.dispatches + 1, action |-> a, snapshot |-> evidence,
                         findings |-> goal.findings]
    BY <1>2, <1>5 DEF Request
  <1>9. Changes(goal, goal', Spent \cup {"complete", "pending", "dispatches"})
    BY <1>2, <1>7 DEF Changes, Spent, Fields
  <1>10. /\ goal'.snapshot = g.snapshot /\ goal'.complete = g.complete
         /\ goal'.review_due = g.review_due /\ goal'.review_failures = g.review_failures
         /\ goal'.clearances = g.clearances
    BY <1>7 DEF Changes, Fields
  <1>11. /\ goal'.snapshot = evidence /\ goal'.complete = FALSE
         /\ goal'.review_due \in BOOLEAN /\ goal'.review_failures \in Nat
         /\ goal'.clearances = goal.clearances \/ goal'.clearances = {}
         /\ goal.dispatches < MaxDispatches
    BY <1>1, <1>2, <1>3, <1>5, <1>10
  <1>12. a \in Known \cup {NoAction}
    BY <1>6
  <1>13. QED
    BY <1>1, <1>6, <1>7, <1>8, <1>9, <1>10, <1>11, <1>12

\* A result is applied: what the journal holds then, but for the request.
LEMMA RetiredStep ==
  ASSUME NEW g, NEW names, Changes(goal, g, names), goal' = Retired(g)
  PROVE  /\ Changes(goal, goal', names \cup {"pending"})
         /\ goal'.pending = NoRequest
         /\ \A f \in Fields \ {"pending"} : goal'[f] = g[f]
  BY RetiredFields DEF Changes

\* A review's verdict, or that it failed or came too late.
ReviewedBy(v) ==
  /\ v \in Reviews /\ Acceptable(v)
  /\ goal' = Retired(Reviewing(v)) /\ judged' = evidence

DroppedReview ==
  /\ \/ Changes(goal, goal', Spent \cup {"complete", "pending"}) /\ goal'.complete = FALSE
        /\ goal'.snapshot = evidence
     \/ Changes(goal, goal', {"review_due", "review_failures", "clearances", "pending"})
  /\ goal'.pending = NoRequest /\ goal'.clearances = {}
  /\ goal'.review_due \in BOOLEAN /\ goal'.review_failures \in Nat

LEMMA StaleStep ==
  ASSUME BaseInv, goal' = Retired(StaleReview)
  PROVE  DroppedReview
  <1>1. DOMAIN goal = Fields
    BY DEF BaseInv
  <1>2. /\ Changes(goal, StaleReview, Spent \cup {"complete"})
        /\ StaleReview.snapshot = evidence /\ StaleReview.clearances = {}
        /\ StaleReview.review_due = TRUE /\ StaleReview.review_failures = 0
        /\ StaleReview.complete = FALSE
    BY <1>1, InvalidatedFields DEF StaleReview
  <1>3. /\ Changes(goal, goal', (Spent \cup {"complete"}) \cup {"pending"})
        /\ goal'.pending = NoRequest
        /\ \A f \in Fields \ {"pending"} : goal'[f] = StaleReview[f]
    BY <1>2, RetiredStep
  <1>4. /\ goal'.snapshot = evidence /\ goal'.clearances = {}
        /\ goal'.review_due = TRUE /\ goal'.review_failures = 0 /\ goal'.complete = FALSE
    BY <1>2, <1>3 DEF Fields
  <1>5. Changes(goal, goal', Spent \cup {"complete", "pending"})
    BY <1>3 DEF Changes, Spent
  <1>6. goal'.review_due \in BOOLEAN
    BY <1>4
  <1>7. QED
    BY <1>3, <1>4, <1>5, <1>6 DEF DroppedReview

LEMMA FailReviewStep ==
  ASSUME BaseInv, FailReview
  PROVE  DroppedReview
  <1>1. CASE goal' = Retired(StaleReview)
    BY <1>1, StaleStep
  <1>2. CASE goal' = Retired(FailedReview)
    <2>1. DOMAIN goal = Fields /\ goal.review_failures \in Nat
      BY DEF BaseInv, SerialTypeOK
    <2>2. /\ Changes(goal, FailedReview, {"review_due", "review_failures", "clearances"})
          /\ FailedReview.review_failures = goal.review_failures + 1
          /\ FailedReview.clearances = {}
      BY <2>1, FailedFields
    <2>3. FailedReview.review_due \in BOOLEAN
      <3>1. FailedReview.review_due = (goal.review_failures + 1 < 2)
        BY <2>1, FailedFields
      <3>2. (goal.review_failures + 1 < 2) \in BOOLEAN
        OBVIOUS
      <3>3. QED
        BY <3>1, <3>2, Zenon
    <2>4. /\ Changes(goal, goal', {"review_due", "review_failures", "clearances"} \cup {"pending"})
          /\ goal'.pending = NoRequest
          /\ \A f \in Fields \ {"pending"} : goal'[f] = FailedReview[f]
      BY <1>2, <2>2, RetiredStep
    <2>5. /\ goal'.review_failures = FailedReview.review_failures /\ goal'.clearances = {}
          /\ goal'.review_due = FailedReview.review_due
      BY <2>2, <2>4 DEF Fields
    <2>6. goal'.review_due \in BOOLEAN /\ goal'.review_failures \in Nat
      BY <2>1, <2>2, <2>3, <2>5
    <2>7. Changes(goal, goal', {"review_due", "review_failures", "clearances", "pending"})
      BY <2>4 DEF Changes
    <2>8. QED
      BY <2>4, <2>5, <2>6, <2>7 DEF DroppedReview
  <1>3. QED
    BY <1>1, <1>2 DEF FailReview

LEMMA ReviewedStep ==
  ASSUME BaseInv, NEW v, ReviewedBy(v)
  PROVE  /\ Changes(goal, goal',
              {"holds", "findings", "attempts", "clearances", "preferred", "review_due",
               "review_failures", "complete", "pending"})
         /\ goal'.holds = HoldsAfter(v) /\ goal'.findings = FindingsAfter(v)
         /\ goal'.attempts = AttemptsAfter(v)
         /\ goal'.clearances = {<<a, evidence>> : a \in v.cleared}
         /\ goal'.preferred = v.next_action
         /\ goal'.review_due = FALSE /\ goal'.review_failures = 0
         /\ goal'.complete = v.complete /\ goal'.pending = NoRequest
  <1>1. DOMAIN goal = Fields
    BY DEF BaseInv
  <1>2. DOMAIN Reviewing(v) = Fields
    BY <1>1, ReviewingFields DEF Changes
  <1>3. Changes(Reviewing(v), goal', {"pending"}) /\ goal'.pending = NoRequest
    BY <1>2, RetiredFields DEF ReviewedBy
  <1>4. \A f \in Fields \ {"pending"} : goal'[f] = Reviewing(v)[f]
    BY <1>3 DEF Changes
  <1>5. /\ goal'.holds = Reviewing(v).holds /\ goal'.findings = Reviewing(v).findings
        /\ goal'.attempts = Reviewing(v).attempts
        /\ goal'.clearances = Reviewing(v).clearances
        /\ goal'.preferred = Reviewing(v).preferred
        /\ goal'.review_due = Reviewing(v).review_due
        /\ goal'.review_failures = Reviewing(v).review_failures
        /\ goal'.complete = Reviewing(v).complete
    BY <1>4 DEF Fields
  <1>6. Changes(goal, goal',
          {"holds", "findings", "attempts", "clearances", "preferred", "review_due",
           "review_failures", "complete", "pending"})
    <2>1. Changes(goal, Reviewing(v),
            {"holds", "findings", "attempts", "clearances", "preferred", "review_due",
             "review_failures", "complete"})
      BY <1>1, ReviewingFields
    <2>2. QED
      BY <1>3, <1>4, <2>1 DEF Changes
  <1>7. QED
    BY <1>1, <1>3, <1>5, <1>6, ReviewingFields, Zenon

\* Who reports what of the work in flight.
Reported(result) ==
  \/ runner.step = "ended" /\ result = runner.result
  \/ runner.step = "refused" /\ result = "not_started"
  \/ runner.step = "idle" /\ (result = "not_started") = ~begun

LEMMA FinishWorkStep ==
  ASSUME BaseInv, FinishWork
  PROVE  \E result \in Results :
    /\ Changes(goal, goal', Spent \cup {"actions", "attempts", "executed", "pending"})
    /\ goal'.snapshot = evidence /\ goal'.clearances = {}
    /\ goal'.review_due = TRUE /\ goal'.review_failures = 0 /\ goal'.pending = NoRequest
    /\ goal'.actions = [goal.actions EXCEPT ![goal.pending.action] = Outcome(result)]
    /\ goal'.attempts = Charged(result)
    /\ goal'.executed = IF result = "not_started" THEN goal.executed
                        ELSE goal.executed \cup {goal.pending.action}
    /\ (result = "not_started") = ~begun
  <1>1. PICK result \in Results : Reported(result) /\ goal' = Retired(Working(result))
    BY DEF FinishWork, Reported
  <1>2. DOMAIN goal = Fields
    BY DEF BaseInv
  <1>3. DOMAIN Working(result) = Fields
    BY <1>2, WorkingFields DEF Changes
  <1>4. Changes(Working(result), goal', {"pending"}) /\ goal'.pending = NoRequest
    BY <1>1, <1>3, RetiredFields
  <1>5. Changes(goal, Working(result), Spent \cup {"actions", "attempts", "executed"})
    BY <1>2, WorkingFields
  <1>6. Changes(goal, goal', Spent \cup {"actions", "attempts", "executed", "pending"})
    BY <1>4, <1>5 DEF Changes, Spent, Fields
  <1>7. /\ goal'.snapshot = Working(result).snapshot
        /\ goal'.clearances = Working(result).clearances
        /\ goal'.review_due = Working(result).review_due
        /\ goal'.review_failures = Working(result).review_failures
        /\ goal'.actions = Working(result).actions /\ goal'.attempts = Working(result).attempts
        /\ goal'.executed = Working(result).executed
    BY <1>4 DEF Changes, Fields
  <1>8. (result = "not_started") = ~begun
    BY <1>1 DEF Reported, FinishWork, BaseInv, FlightKnown
  <1>9. /\ goal'.snapshot = evidence /\ goal'.clearances = {}
        /\ goal'.review_due = TRUE /\ goal'.review_failures = 0
        /\ goal'.actions = [goal.actions EXCEPT ![goal.pending.action] = Outcome(result)]
        /\ goal'.attempts = Charged(result)
        /\ goal'.executed = IF result = "not_started" THEN goal.executed
                            ELSE goal.executed \cup {goal.pending.action}
    BY <1>2, <1>7, WorkingFields, Zenon
  <1>10. QED
    BY <1>4, <1>6, <1>8, <1>9, Zenon

LEMMA ControlStep ==
  ASSUME BaseInv, OwnerControl
  PROVE  Changes(goal, goal', {"control"}) /\ goal'.control \in {"active", "paused", "stopped"}
  BY DEF OwnerControl, BaseInv, Changes, Fields

LEMMA ReconcileStep ==
  ASSUME BaseInv, OwnerReconcile
  PROVE  \E a \in Known, outcome \in {"done", "pending"} :
    /\ Changes(goal, goal', {"actions", "review_due", "review_failures", "clearances", "complete"})
    /\ goal'.actions = [goal.actions EXCEPT ![a] = outcome]
    /\ goal.actions[a] \in {"uncertain", "failed"}
    /\ goal'.review_due = TRUE /\ goal'.review_failures = 0
    /\ goal'.clearances = {} /\ goal'.complete = FALSE
    /\ ran' = [ran EXCEPT ![a] = 0]
  <1>1. PICK a \in Known, outcome \in {"done", "pending"} :
       /\ goal.actions[a] \in {"uncertain", "failed"}
       /\ goal' = [goal EXCEPT !.actions[a] = outcome, !.review_due = TRUE,
                     !.review_failures = 0, !.clearances = {}, !.complete = FALSE]
       /\ ran' = [ran EXCEPT ![a] = 0]
    BY DEF OwnerReconcile
  <1>2. DOMAIN goal = Fields
    BY DEF BaseInv
  <1>3. /\ Changes(goal, goal', {"actions", "review_due", "review_failures", "clearances",
                                "complete"})
        /\ goal'.actions = [goal.actions EXCEPT ![a] = outcome]
        /\ goal'.review_failures = 0 /\ goal'.clearances = {}
    BY <1>1, <1>2 DEF Changes, Fields
  <1>4. goal'.review_due = TRUE /\ goal'.complete = FALSE
    BY <1>1, <1>2 DEF Fields
  <1>5. QED
    BY <1>1, <1>3, <1>4, Zenon

LEMMA ReviseStep ==
  ASSUME BaseInv, OwnerRevise
  PROVE  /\ Changes(goal, goal',
              {"version", "complete", "clearances", "review_due", "review_failures"})
         /\ goal'.complete = FALSE /\ goal'.clearances = {}
         /\ goal'.review_due = TRUE /\ goal'.review_failures = 0
  <1>1. DOMAIN goal = Fields
    BY DEF BaseInv
  <1>2. goal' = [goal EXCEPT !.version = @ + 1, !.complete = FALSE,
                   !.clearances = {}, !.review_due = TRUE, !.review_failures = 0]
    BY DEF OwnerRevise
  <1>3. QED
    BY <1>1, <1>2 DEF Changes, Fields

LEMMA AuthorizeStep ==
  ASSUME BaseInv, NEW p \in Plans, AuthorizePlan(p)
  PROVE  Changes(goal, goal', {"grants"})
  BY DEF AuthorizePlan, BaseInv, Changes, Fields

LEMMA RevisePlanStep ==
  ASSUME BaseInv, NEW p \in Plans, RevisePlan(p)
  PROVE  /\ Changes(goal, goal',
              {"plan", "version", "applied", "actions", "clearances", "snapshot", "complete",
               "review_due", "preferred"})
         /\ goal'.plan = Candidate(p) /\ goal'.actions = StatusesUnder(Candidate(p))
         /\ goal'.clearances \subseteq goal.clearances
         /\ goal'.snapshot = evidence /\ goal'.complete = FALSE /\ goal'.review_due = TRUE
         /\ goal'.preferred \in {goal.preferred, NoAction}
  <1> DEFINE affected == Downstream(Candidate(p), Adds[p] \cup DOMAIN Rewires[p])
             kept == IF evidence # goal.snapshot THEN {}
                     ELSE {c \in goal.clearances : c[1] \notin affected}
             liked == IF goal.preferred \in affected THEN NoAction ELSE goal.preferred
  <1>1. DOMAIN goal = Fields
    BY DEF BaseInv
  <1>2. goal' = [goal EXCEPT
          !.plan = Candidate(p), !.version = @ + 1, !.applied = @ \cup {p},
          !.actions = StatusesUnder(Candidate(p)), !.clearances = kept,
          !.snapshot = evidence, !.complete = FALSE, !.review_due = TRUE,
          !.preferred = liked]
    BY DEF RevisePlan
  <1>3. kept \subseteq goal.clearances /\ liked \in {goal.preferred, NoAction}
    OBVIOUS
  <1> HIDE DEF kept, liked
  <1>4. /\ Changes(goal, goal',
              {"plan", "version", "applied", "actions", "clearances", "snapshot", "complete",
               "review_due", "preferred"})
        /\ goal'.plan = Candidate(p) /\ goal'.actions = StatusesUnder(Candidate(p))
        /\ goal'.clearances = kept /\ goal'.snapshot = evidence /\ goal'.preferred = liked
    BY <1>1, <1>2 DEF Changes, Fields
  <1>5. goal'.complete = FALSE /\ goal'.review_due = TRUE
    BY <1>1, <1>2 DEF Fields
  <1>6. QED
    BY <1>3, <1>4, <1>5, Zenon

-----------------------------------------------------------------------------
(* The type of the journal's state, and what is known of the flight.       *)

LEMMA IdleRunner ==
  /\ Idle.step = "idle"
  /\ Idle \in [step : {"idle", "dispatched", "ready", "refused", "running", "ended"},
               result : {"none", "done", "failed", "uncertain"}]
  BY DEF Idle

\* A step that leaves the plan and the set of known actions alone.
LEMMA TypeKept ==
  ASSUME SerialTypeOK, goal'.plan = goal.plan,
         goal'.control \in {"active", "paused", "stopped"}, goal'.complete \in BOOLEAN,
         goal'.actions \in [Known -> Statuses],
         goal'.clearances \subseteq Known \X Contents,
         goal'.holds \subseteq Known, goal'.findings \subseteq Findings,
         goal'.pending \in Requests, goal'.dispatches \in 0 .. MaxDispatches,
         goal'.snapshot \in Contents, evidence' \in Contents,
         goal'.review_due \in BOOLEAN, goal'.review_failures \in Nat,
         goal'.preferred \in Known \cup {NoAction},
         runner'.step \in {"idle", "dispatched", "ready", "refused", "running", "ended"}
  PROVE  SerialTypeOK' /\ Known' = Known
  <1>1. Known' = Known
    BY DEF Known
  <1>2. Acyclic(goal.plan)'
    BY DEF SerialTypeOK, Acyclic
  <1>3. goal'.complete \in BOOLEAN /\ goal'.review_due \in BOOLEAN
    OBVIOUS
  <1>4. /\ Known' \subseteq Actions /\ DOMAIN goal'.plan = Known'
        /\ goal'.actions \in [Known' -> {"pending", "done", "failed", "uncertain"}]
        /\ \A a \in Known' : goal'.plan[a] \subseteq Known'
        /\ goal'.clearances \subseteq Known' \X Contents
        /\ goal'.holds \subseteq Known' /\ goal'.preferred \in Known' \cup {NoAction}
    BY <1>1 DEF SerialTypeOK, Statuses
  <1>5. QED
    BY <1>1, <1>2, <1>3, <1>4, Zenon DEF SerialTypeOK

LEMMA DispatchBase ==
  ASSUME BaseInv, NEW loop \in BOOLEAN, Dispatch(loop)
  PROVE  BaseInv'
  <1>1. PICK a \in Known \cup {NoAction} :
    /\ Changes(goal, goal', Spent \cup {"complete", "pending", "dispatches"})
    /\ goal'.pending = [token |-> goal.dispatches + 1, action |-> a, snapshot |-> evidence,
                        findings |-> goal.findings]
    /\ goal'.dispatches = goal.dispatches + 1 /\ goal.dispatches < MaxDispatches
    /\ goal'.snapshot = evidence /\ goal'.complete = FALSE
    /\ goal'.review_due \in BOOLEAN /\ goal'.review_failures \in Nat
    /\ goal'.clearances = goal.clearances \/ goal'.clearances = {}
    /\ a # NoAction => goal.actions[a] = "pending"
    /\ runner' = Idle \/ runner' = [Idle EXCEPT !.step = "dispatched"]
    BY DispatchStep
  <1>2. UNCHANGED evidence /\ begun' = FALSE
    BY DEF Dispatch, world
  <1>3. /\ goal'.control = goal.control /\ goal'.actions = goal.actions
        /\ goal'.plan = goal.plan /\ goal'.holds = goal.holds /\ goal'.findings = goal.findings
        /\ goal'.preferred = goal.preferred
    BY <1>1 DEF Changes, Spent, Fields
  <1>4. goal'.pending \in Requests /\ goal'.dispatches \in 0 .. MaxDispatches
    <2>1. goal.dispatches \in 0 .. MaxDispatches /\ evidence \in Contents
          /\ goal.findings \subseteq Findings /\ Known \subseteq Actions
      BY DEF BaseInv, SerialTypeOK
    <2>2. goal.dispatches + 1 \in 1 .. MaxDispatches /\ a \in Actions \cup {NoAction}
      BY <1>1, <2>1
    <2>3. QED
      BY <1>1, <2>1, <2>2 DEF Requests
  <1>5. goal'.complete \in BOOLEAN
    BY <1>1, Zenon
  <1>6. runner'.step \in {"idle", "dispatched"} /\ runner' \in
          [step : {"idle", "dispatched", "ready", "refused", "running", "ended"},
           result : {"none", "done", "failed", "uncertain"}]
    BY <1>1 DEF Idle
  <1>7. SerialTypeOK'
    <2>1. SerialTypeOK
      BY DEF BaseInv
    <2>2. goal'.clearances \subseteq Known \X Contents
      BY <1>1, <2>1 DEF SerialTypeOK
    <2>3. /\ goal'.control \in {"active", "paused", "stopped"} /\ goal'.actions \in [Known -> Statuses]
          /\ goal'.holds \subseteq Known /\ goal'.findings \subseteq Findings
          /\ goal'.snapshot \in Contents /\ evidence' \in Contents
          /\ goal'.preferred \in Known \cup {NoAction}
      BY <1>1, <1>2, <1>3, <2>1 DEF SerialTypeOK, Statuses
    <2>4. goal'.review_due \in BOOLEAN /\ goal'.review_failures \in Nat
      BY <1>1, Zenon
    <2>5. QED
      BY <1>3, <1>4, <1>5, <1>6, <2>1, <2>2, <2>3, <2>4, TypeKept
  <1>8. FlightKnown'
    <2>1. goal'.pending # NoRequest /\ goal'.pending.action = a /\ goal'.pending.snapshot = evidence
      BY <1>1 DEF NoRequest, BaseInv, SerialTypeOK
    <2>2. (a \in Known' /\ goal'.actions[a] = "pending") \/ a = NoAction
      BY <1>1, <1>3 DEF Known
    <2>3. QED
      BY <1>1, <1>2, <1>6, <2>1, <2>2 DEF FlightKnown, IsWork
  <1>9. QED
    BY <1>1, <1>7, <1>8 DEF BaseInv, Changes

LEMMA WaitingBase ==
  ASSUME BaseInv, Waiting
  PROVE  BaseInv'
  <1>1. goal' = Observed /\ goal.pending = NoRequest
    BY DEF Waiting
  <1>2. /\ Changes(goal, goal', Spent \cup {"complete"}) /\ goal'.snapshot = evidence
        /\ goal'.clearances = goal.clearances \/ goal'.clearances = {}
        /\ goal'.review_due \in BOOLEAN /\ goal'.review_failures \in Nat
        /\ goal'.complete \in BOOLEAN
    BY <1>1, ObservedFields
  <1>3. UNCHANGED <<evidence, runner, begun>>
    BY DEF Waiting, world, history
  <1>4. /\ goal'.control = goal.control /\ goal'.actions = goal.actions
        /\ goal'.plan = goal.plan /\ goal'.holds = goal.holds /\ goal'.findings = goal.findings
        /\ goal'.preferred = goal.preferred /\ goal'.pending = goal.pending
        /\ goal'.dispatches = goal.dispatches
    BY <1>2 DEF Changes, Spent, Fields
  <1>5. SerialTypeOK'
    <2>1. /\ goal'.control \in {"active", "paused", "stopped"} /\ goal'.actions \in [Known -> Statuses]
          /\ goal'.holds \subseteq Known /\ goal'.findings \subseteq Findings
          /\ goal'.snapshot \in Contents /\ evidence' \in Contents
          /\ goal'.preferred \in Known \cup {NoAction}
          /\ goal'.clearances \subseteq Known \X Contents
          /\ goal'.pending \in Requests /\ goal'.dispatches \in 0 .. MaxDispatches
          /\ runner'.step \in {"idle", "dispatched", "ready", "refused", "running", "ended"}
      BY <1>2, <1>3, <1>4 DEF BaseInv, SerialTypeOK, Statuses
    <2>2. SerialTypeOK
      BY DEF BaseInv
    <2>3. /\ goal'.review_due \in BOOLEAN /\ goal'.review_failures \in Nat
          /\ goal'.complete \in BOOLEAN
      BY <1>2, Zenon
    <2>4. QED
      BY <1>4, <2>1, <2>2, <2>3, TypeKept
  <1>6. FlightKnown'
    BY <1>1, <1>3, <1>4 DEF BaseInv, FlightKnown, IsWork
  <1>7. QED
    BY <1>2, <1>5, <1>6 DEF BaseInv, Changes

LEMMA DroppedBase ==
  ASSUME BaseInv, DroppedReview, runner' = Idle, UNCHANGED <<evidence, begun>>
  PROVE  BaseInv'
  <1>1. /\ DOMAIN goal' = Fields /\ goal'.pending = NoRequest /\ goal'.clearances = {}
        /\ goal'.review_failures \in Nat
        /\ goal'.snapshot = goal.snapshot \/ goal'.snapshot = evidence
        /\ goal'.complete = FALSE \/ goal'.complete = goal.complete
        /\ goal'.control = goal.control /\ goal'.actions = goal.actions
        /\ goal'.plan = goal.plan /\ goal'.dispatches = goal.dispatches
        /\ goal'.holds = goal.holds /\ goal'.findings = goal.findings
        /\ goal'.preferred = goal.preferred
    BY DEF DroppedReview, Changes, Spent, Fields
  <1>2. SerialTypeOK
    BY DEF BaseInv
  <1>3. /\ goal'.control \in {"active", "paused", "stopped"}
        /\ goal'.actions \in [Known -> Statuses]
        /\ goal'.clearances \subseteq Known \X Contents
        /\ goal'.holds \subseteq Known /\ goal'.findings \subseteq Findings
        /\ goal'.snapshot \in Contents /\ evidence' \in Contents
        /\ goal'.preferred \in Known \cup {NoAction}
        /\ goal'.dispatches \in 0 .. MaxDispatches
    BY <1>1, <1>2 DEF SerialTypeOK, Statuses
  <1>4. goal'.pending \in Requests /\ runner'.step = "idle"
    BY <1>1, IdleRunner DEF Requests
  <1>5. goal'.complete \in BOOLEAN /\ goal'.review_due \in BOOLEAN
    BY <1>1, <1>2, Zenon DEF SerialTypeOK, DroppedReview
  <1>6. SerialTypeOK'
    BY <1>1, <1>2, <1>3, <1>4, <1>5, TypeKept
  <1>7. FlightKnown'
    BY <1>1, <1>4, IdleRunner DEF BaseInv, FlightKnown, IsWork
  <1>8. QED
    BY <1>1, <1>6, <1>7 DEF BaseInv

LEMMA FinishReviewBase ==
  ASSUME BaseInv, FinishReview
  PROVE  BaseInv'
  <1>1. runner' = Idle /\ UNCHANGED <<evidence, begun>>
    BY DEF FinishReview, world
  <1>2. DroppedReview \/ \E v \in Reviews : ReviewedBy(v)
    BY StaleStep DEF FinishReview, ReviewedBy
  <1>3. CASE DroppedReview
    BY <1>1, <1>3, DroppedBase
  <1>4. ASSUME NEW v \in Reviews, ReviewedBy(v)
        PROVE  BaseInv'
    <2>1. /\ Changes(goal, goal',
              {"holds", "findings", "attempts", "clearances", "preferred", "review_due",
               "review_failures", "complete", "pending"})
         /\ goal'.holds = HoldsAfter(v) /\ goal'.findings = FindingsAfter(v)
         /\ goal'.clearances = {<<a, evidence>> : a \in v.cleared}
         /\ goal'.preferred = v.next_action
         /\ goal'.review_due = FALSE /\ goal'.review_failures = 0
         /\ goal'.complete = v.complete /\ goal'.pending = NoRequest
      BY <1>4, ReviewedStep
    <2>2. /\ goal'.control = goal.control /\ goal'.actions = goal.actions
          /\ goal'.plan = goal.plan /\ goal'.dispatches = goal.dispatches
          /\ goal'.snapshot = goal.snapshot
      BY <2>1 DEF Changes, Fields
    <2>3. /\ v.cleared \subseteq Known /\ v.held \subseteq Known /\ v.found \subseteq Findings
          /\ v.next_action \in Known \cup {NoAction}
      BY DEF Reviews
    <2>4. v.complete \in BOOLEAN
      BY Zenon DEF Reviews
    <2>5. SerialTypeOK
      BY DEF BaseInv
    <2>6. goal'.holds \subseteq Known /\ goal'.findings \subseteq Findings
      BY <2>1, <2>3, <2>5 DEF HoldsAfter, FindingsAfter, SerialTypeOK
    <2>7. goal'.clearances \subseteq Known \X Contents
      BY <2>1, <2>3, <2>5 DEF SerialTypeOK
    <2>8. /\ goal'.control \in {"active", "paused", "stopped"} /\ goal'.actions \in [Known -> Statuses]
          /\ goal'.snapshot \in Contents /\ evidence' \in Contents
          /\ goal'.preferred \in Known \cup {NoAction}
          /\ goal'.dispatches \in 0 .. MaxDispatches
      BY <1>1, <2>1, <2>2, <2>3, <2>5 DEF SerialTypeOK, Statuses
    <2>9. goal'.pending \in Requests /\ runner'.step = "idle"
      BY <1>1, <2>1, IdleRunner DEF Requests
    <2>10. goal'.complete \in BOOLEAN /\ goal'.review_due \in BOOLEAN
      BY <2>1, <2>4, Zenon
    <2>11. goal'.review_failures \in Nat
      BY <2>1
    <2>12. SerialTypeOK'
      BY <2>2, <2>5, <2>6, <2>7, <2>8, <2>9, <2>10, <2>11, TypeKept
    <2>13. FlightKnown'
      BY <1>1, <2>1, <2>9, IdleRunner DEF BaseInv, FlightKnown, IsWork
    <2>14. QED
      BY <2>1, <2>12, <2>13 DEF BaseInv, Changes
  <1>5. QED
    BY <1>2, <1>3, <1>4

LEMMA FinishWorkBase ==
  ASSUME BaseInv, FinishWork
  PROVE  BaseInv'
  <1>1. runner' = Idle /\ UNCHANGED <<evidence, begun>>
    BY DEF FinishWork, world, history
  <1>2. PICK result \in Results :
    /\ Changes(goal, goal', Spent \cup {"actions", "attempts", "executed", "pending"})
    /\ goal'.snapshot = evidence /\ goal'.clearances = {}
    /\ goal'.review_due = TRUE /\ goal'.review_failures = 0 /\ goal'.pending = NoRequest
    /\ goal'.actions = [goal.actions EXCEPT ![goal.pending.action] = Outcome(result)]
    BY FinishWorkStep
  <1>3. /\ goal'.control = goal.control /\ goal'.complete = goal.complete
        /\ goal'.plan = goal.plan /\ goal'.dispatches = goal.dispatches
        /\ goal'.holds = goal.holds /\ goal'.findings = goal.findings
        /\ goal'.preferred = goal.preferred
    BY <1>2 DEF Changes, Spent, Fields
  <1>4. SerialTypeOK
    BY DEF BaseInv
  <1>5. Outcome(result) \in Statuses
    BY DEF Outcome, Results, Statuses
  <1>6. goal'.actions \in [Known -> Statuses]
    BY <1>2, <1>4, <1>5 DEF SerialTypeOK, Statuses
  <1>7. /\ goal'.control \in {"active", "paused", "stopped"}
        /\ goal'.clearances \subseteq Known \X Contents
        /\ goal'.holds \subseteq Known /\ goal'.findings \subseteq Findings
        /\ goal'.snapshot \in Contents /\ evidence' \in Contents
        /\ goal'.preferred \in Known \cup {NoAction} /\ goal'.review_failures \in Nat
        /\ goal'.dispatches \in 0 .. MaxDispatches
    BY <1>1, <1>2, <1>3, <1>4 DEF SerialTypeOK
  <1>8. goal'.pending \in Requests /\ runner'.step = "idle"
    BY <1>1, <1>2, IdleRunner DEF Requests
  <1>9. goal'.complete \in BOOLEAN /\ goal'.review_due \in BOOLEAN
    BY <1>2, <1>3, <1>4, Zenon DEF SerialTypeOK
  <1>10. SerialTypeOK'
    BY <1>3, <1>4, <1>6, <1>7, <1>8, <1>9, TypeKept
  <1>11. FlightKnown'
    BY <1>1, <1>2, <1>8, IdleRunner DEF BaseInv, FlightKnown, IsWork
  <1>12. QED
    BY <1>2, <1>10, <1>11 DEF BaseInv, Changes

\* Steps of the run loop, of a host and of the world leave the journal alone.
LEMMA QuietBase ==
  ASSUME BaseInv,
         RunCheck \/ RunCommand \/ RunEnded \/ AgentWorks \/ Crash \/ Edit
  PROVE  BaseInv'
  <1>1. goal' = goal /\ evidence' \in Contents
    BY DEF RunCheck, RunCommand, RunEnded, AgentWorks, Crash, Edit, world, BaseInv, SerialTypeOK
  <1>2. FlightKnown'
    <2>1. CASE RunCheck
      BY <1>1, <2>1 DEF RunCheck, history, Idle, BaseInv, FlightKnown, IsWork, Known
    <2>2. CASE RunCommand
      BY <1>1, <2>2 DEF RunCommand, Begin, Idle, BaseInv, FlightKnown, IsWork, Known
    <2>3. CASE RunEnded
      BY <1>1, <2>3 DEF RunEnded, history, BaseInv, FlightKnown, IsWork, Known
    <2>4. CASE AgentWorks
      BY <1>1, <2>4 DEF AgentWorks, Begin, Idle, BaseInv, FlightKnown, IsWork, Known
    <2>5. CASE Crash
      BY <1>1, <2>5 DEF Crash, history, Idle, BaseInv, FlightKnown, IsWork, Known
    <2>6. CASE Edit
      BY <1>1, <2>6 DEF Edit, history, BaseInv, FlightKnown, IsWork, Known
    <2>7. QED
      BY <2>1, <2>2, <2>3, <2>4, <2>5, <2>6
  <1>3. SerialTypeOK'
    <2>1. runner'.step \in {"idle", "dispatched", "ready", "refused", "running", "ended"}
      BY <1>2 DEF FlightKnown
    <2>2. QED
      BY <1>1, <2>1 DEF BaseInv, SerialTypeOK, Known, Acyclic
  <1>4. QED
    BY <1>1, <1>2, <1>3 DEF BaseInv

\* The owner's operations leave the request, its outcome and the plan alone.
LEMMA OwnerBase ==
  ASSUME BaseInv,
         OwnerControl \/ OwnerReconcile \/ OwnerRevise \/ \E p \in Plans : AuthorizePlan(p)
  PROVE  BaseInv'
  <1>1. UNCHANGED <<runner, evidence, begun>>
    BY DEF OwnerControl, OwnerReconcile, OwnerRevise, AuthorizePlan, world, history
  <1>2. SerialTypeOK
    BY DEF BaseInv
  <1>3. /\ DOMAIN goal' = Fields /\ goal'.pending = goal.pending
        /\ goal'.control \in {"active", "paused", "stopped"}
        /\ goal'.clearances = {} \/ goal'.clearances = goal.clearances
        /\ goal'.review_failures \in Nat
        /\ goal'.snapshot = goal.snapshot
        /\ goal'.plan = goal.plan /\ goal'.dispatches = goal.dispatches
        /\ goal'.holds = goal.holds /\ goal'.findings = goal.findings
        /\ goal'.preferred = goal.preferred
    <2>1. CASE OwnerControl
      BY <1>2, <2>1, ControlStep DEF Changes, Fields, SerialTypeOK
    <2>2. CASE OwnerReconcile
      <3>1. /\ Changes(goal, goal', {"actions", "review_due", "review_failures", "clearances",
                                    "complete"})
            /\ goal'.review_failures = 0 /\ goal'.clearances = {}
        BY <2>2, ReconcileStep
      <3>2. QED
        BY <1>2, <3>1 DEF Changes, Fields, SerialTypeOK
    <2>3. CASE OwnerRevise
      BY <1>2, <2>3, ReviseStep DEF Changes, Fields, SerialTypeOK
    <2>4. CASE \E p \in Plans : AuthorizePlan(p)
      BY <1>2, <2>4, AuthorizeStep DEF Changes, Fields, SerialTypeOK
    <2>5. QED
      BY <2>1, <2>2, <2>3, <2>4
  <1>4. /\ goal'.complete = goal.complete \/ goal'.complete = FALSE
        /\ goal'.review_due = goal.review_due \/ goal'.review_due = TRUE
    <2>1. CASE OwnerControl
      BY <2>1, ControlStep DEF Changes, Fields
    <2>2. CASE OwnerReconcile
      BY <2>2, ReconcileStep DEF Changes, Fields
    <2>3. CASE OwnerRevise
      BY <2>3, ReviseStep DEF Changes, Fields
    <2>4. CASE \E p \in Plans : AuthorizePlan(p)
      BY <2>4, AuthorizeStep DEF Changes, Fields
    <2>5. QED
      BY <2>1, <2>2, <2>3, <2>4
  <1>5. /\ goal'.actions \in [Known -> Statuses]
        /\ goal.pending # NoRequest => goal'.actions = goal.actions
    <2>1. CASE OwnerReconcile
      <3>1. PICK a \in Known, outcome \in {"done", "pending"} :
              goal'.actions = [goal.actions EXCEPT ![a] = outcome]
        BY <2>1, ReconcileStep
      <3>2. goal.pending = NoRequest
        BY <2>1 DEF OwnerReconcile
      <3>3. QED
        BY <1>2, <3>1, <3>2 DEF SerialTypeOK, Statuses
    <2>2. CASE OwnerControl
      BY <1>2, <2>2, ControlStep DEF Changes, Fields, SerialTypeOK, Statuses
    <2>3. CASE OwnerRevise
      BY <1>2, <2>3, ReviseStep DEF Changes, Fields, SerialTypeOK, Statuses
    <2>4. CASE \E p \in Plans : AuthorizePlan(p)
      BY <1>2, <2>4, AuthorizeStep DEF Changes, Fields, SerialTypeOK, Statuses
    <2>5. QED
      BY <2>1, <2>2, <2>3, <2>4
  <1>6. /\ goal'.clearances \subseteq Known \X Contents
        /\ goal'.holds \subseteq Known /\ goal'.findings \subseteq Findings
        /\ goal'.snapshot \in Contents /\ evidence' \in Contents
        /\ goal'.preferred \in Known \cup {NoAction} /\ goal'.dispatches \in 0 .. MaxDispatches
        /\ goal'.pending \in Requests
        /\ runner'.step \in {"idle", "dispatched", "ready", "refused", "running", "ended"}
    BY <1>1, <1>2, <1>3 DEF SerialTypeOK
  <1>7. goal'.complete \in BOOLEAN /\ goal'.review_due \in BOOLEAN
    BY <1>2, <1>4, Zenon DEF SerialTypeOK
  <1>8. SerialTypeOK' /\ Known' = Known
    BY <1>2, <1>3, <1>5, <1>6, <1>7, TypeKept
  <1>9. FlightKnown'
    BY <1>1, <1>3, <1>4, <1>5, <1>8 DEF BaseInv, FlightKnown, IsWork
  <1>10. QED
    BY <1>3, <1>8, <1>9 DEF BaseInv

\* What a revision makes of the plan.
LEMMA CandidateFacts ==
  ASSUME SerialTypeOK, NEW p \in Plans
  PROVE  /\ DOMAIN Candidate(p) = Known \cup Adds[p] /\ Adds[p] \subseteq Actions
         /\ StatusesUnder(Candidate(p)) \in [Known \cup Adds[p] -> Statuses]
         /\ \A a \in Known : StatusesUnder(Candidate(p))[a] = goal.actions[a]
         /\ \A a \in Adds[p] \ Known : StatusesUnder(Candidate(p))[a] = "pending"
  <1>1. DOMAIN Candidate(p) = Known \cup Adds[p] /\ Adds[p] \subseteq Actions
    BY DEF Candidate
  <1>2. goal.actions \in [Known -> Statuses]
    BY DEF SerialTypeOK, Statuses
  <1>3. StatusesUnder(Candidate(p)) =
          [a \in Known \cup Adds[p] |-> IF a \in Known THEN goal.actions[a] ELSE "pending"]
    BY <1>1 DEF StatusesUnder
  <1>4. QED
    BY <1>1, <1>2, <1>3 DEF Statuses

LEMMA RevisePlanBase ==
  ASSUME BaseInv, NEW p \in Plans, RevisePlan(p)
  PROVE  BaseInv'
  <1>1. UNCHANGED <<runner, evidence, begun>> /\ goal.pending = NoRequest
    BY DEF RevisePlan, Admissible, world, history
  <1>2. SerialTypeOK
    BY DEF BaseInv
  <1>3. /\ Changes(goal, goal',
              {"plan", "version", "applied", "actions", "clearances", "snapshot", "complete",
               "review_due", "preferred"})
        /\ goal'.plan = Candidate(p) /\ goal'.actions = StatusesUnder(Candidate(p))
        /\ goal'.clearances \subseteq goal.clearances
        /\ goal'.snapshot = evidence
        /\ goal'.preferred \in {goal.preferred, NoAction}
    BY RevisePlanStep
  <1>4. /\ goal'.control = goal.control /\ goal'.holds = goal.holds
        /\ goal'.findings = goal.findings /\ goal'.pending = goal.pending
        /\ goal'.dispatches = goal.dispatches
        /\ goal'.review_failures = goal.review_failures
    BY <1>3 DEF Changes, Fields
  <1>5. /\ DOMAIN goal'.plan = Known \cup Adds[p]
        /\ goal'.actions \in [Known \cup Adds[p] -> Statuses]
        /\ Adds[p] \subseteq Actions
    <2>1. /\ DOMAIN Candidate(p) = Known \cup Adds[p] /\ Adds[p] \subseteq Actions
          /\ StatusesUnder(Candidate(p)) \in [Known \cup Adds[p] -> Statuses]
      BY <1>2, CandidateFacts
    <2>2. goal'.plan = Candidate(p) /\ goal'.actions = StatusesUnder(Candidate(p))
      BY <1>3
    <2>3. QED
      BY <2>1, <2>2, Zenon
  <1>6. Known' = Known \cup Adds[p]
    BY <1>5 DEF Known
  <1>7. /\ \A a \in Known' : goal'.plan[a] \subseteq Known'
        /\ Acyclic(goal'.plan)
    BY <1>3, <1>5, <1>6 DEF RevisePlan, Admissible
  <1>8. goal'.complete \in BOOLEAN /\ goal'.review_due \in BOOLEAN
    BY RevisePlanStep
  <1>9. /\ goal'.control \in {"active", "paused", "stopped"}
        /\ Known' \subseteq Actions /\ DOMAIN goal'.plan = Known'
        /\ goal'.actions \in [Known' -> {"pending", "done", "failed", "uncertain"}]
        /\ goal'.clearances \subseteq Known' \X Contents
        /\ goal'.holds \subseteq Known' /\ goal'.findings \subseteq Findings
        /\ goal'.pending \in Requests /\ goal'.dispatches \in 0 .. MaxDispatches
        /\ goal'.snapshot \in Contents /\ evidence' \in Contents
        /\ goal'.review_failures \in Nat
        /\ goal'.preferred \in Known' \cup {NoAction}
        /\ runner'.step \in {"idle", "dispatched", "ready", "refused", "running", "ended"}
    BY <1>1, <1>2, <1>3, <1>4, <1>5, <1>6 DEF SerialTypeOK, Statuses
  <1>10. Acyclic(goal.plan)'
    BY <1>7 DEF Acyclic
  <1>11. SerialTypeOK'
    BY <1>7, <1>8, <1>9, <1>10, Zenon DEF SerialTypeOK
  <1>12. FlightKnown'
    BY <1>1, <1>4 DEF BaseInv, FlightKnown, IsWork
  <1>13. QED
    BY <1>3, <1>11, <1>12 DEF BaseInv, Changes

LEMMA BaseInit == SerialInit => BaseInv
  <1> SUFFICES ASSUME SerialInit PROVE BaseInv
    OBVIOUS
  <1>1. /\ DOMAIN goal = Fields /\ goal.control = "active"
        /\ goal.actions = [a \in Initial |-> "pending"]
        /\ goal.plan = [a \in Initial |-> DependsOn[a]]
        /\ goal.clearances = {} /\ goal.holds = {} /\ goal.findings = {}
        /\ goal.pending = NoRequest /\ goal.dispatches = 0 /\ goal.snapshot = evidence
        /\ goal.review_failures = 0 /\ goal.preferred = NoAction
    BY DEF SerialInit, Fields
  <1>2. goal.complete = FALSE /\ goal.review_due = TRUE
    BY DEF SerialInit
  <1>3. goal.complete \in BOOLEAN /\ goal.review_due \in BOOLEAN
    BY <1>2
  <1>4. /\ runner = Idle /\ evidence \in Contents
    BY DEF SerialInit
  <1>5. begun \in BOOLEAN
    BY DEF SerialInit
  <1>6. Known = Initial
    BY <1>1 DEF Known
  <1>7. Acyclic(goal.plan)
    BY <1>1 DEF Acyclic
  <1>8. /\ goal.control \in {"active", "paused", "stopped"}
        /\ Known \subseteq Actions /\ DOMAIN goal.plan = Known
        /\ goal.actions \in [Known -> {"pending", "done", "failed", "uncertain"}]
        /\ \A a \in Known : goal.plan[a] \subseteq Known
        /\ goal.clearances \subseteq Known \X Contents
        /\ goal.holds \subseteq Known /\ goal.findings \subseteq Findings
        /\ goal.pending \in Requests /\ goal.dispatches \in 0 .. MaxDispatches
        /\ goal.snapshot \in Contents /\ evidence \in Contents
        /\ goal.review_failures \in Nat
        /\ goal.preferred \in Known \cup {NoAction}
        /\ runner.step \in {"idle", "dispatched", "ready", "refused", "running", "ended"}
    BY <1>1, <1>4, <1>6, IdleRunner DEF Requests
  <1>9. SerialTypeOK
    BY <1>3, <1>7, <1>8, Zenon DEF SerialTypeOK
  <1>10. FlightKnown
    BY <1>1, <1>4, <1>5, IdleRunner DEF FlightKnown, IsWork
  <1>11. QED
    BY <1>1, <1>9, <1>10 DEF BaseInv

LEMMA BaseStep == BaseInv /\ [SerialNext]_serialVars => BaseInv'
  <1> SUFFICES ASSUME BaseInv, [SerialNext]_serialVars PROVE BaseInv'
    OBVIOUS
  <1>1. CASE UNCHANGED serialVars
    BY <1>1 DEF serialVars, BaseInv, SerialTypeOK, FlightKnown, Known, Acyclic, IsWork
  <1>2. QED
    BY <1>1, DispatchBase, WaitingBase, FinishReviewBase, FinishWorkBase, QuietBase, OwnerBase,
       RevisePlanBase, FailReviewStep, DroppedBase DEF SerialNext, FailReview, world, history

LEMMA BaseInvariant == SerialSpec => []BaseInv
  BY BaseInit, BaseStep, PTL DEF SerialSpec

\* Every part of the journal's state keeps its type in every crash, edit, late
\* result and revision, and the plan stays an acyclic graph of known actions.
THEOREM SerialTypeCorrect == SerialSpec => []SerialTypeOK
  <1>1. BaseInv => SerialTypeOK
    BY DEF BaseInv
  <1>2. QED
    BY <1>1, BaseInvariant, PTL

-----------------------------------------------------------------------------
(* Facts about steps that the properties share.                            *)

\* The journal is as it was but for fields that say nothing of work.
LEMMA OwnerLeaves ==
  ASSUME BaseInv,
         OwnerControl \/ OwnerRevise \/ \E p \in Plans : AuthorizePlan(p)
  PROVE  /\ \A f \in {"actions", "plan", "holds", "findings", "attempts", "pending",
                     "snapshot", "preferred", "executed"} : goal'[f] = goal[f]
         /\ goal'.clearances \subseteq goal.clearances
         /\ goal'.complete = goal.complete \/ goal'.complete = FALSE
         /\ UNCHANGED <<begun, ran, seen, judged>>
  <1>1. CASE OwnerControl
    BY <1>1, ControlStep DEF Changes, Fields, OwnerControl, history
  <1>2. CASE OwnerRevise
    BY <1>2, ReviseStep DEF Changes, Fields, OwnerRevise, history
  <1>3. CASE \E p \in Plans : AuthorizePlan(p)
    BY <1>3, AuthorizeStep DEF Changes, Fields, AuthorizePlan, history
  <1>4. QED
    BY <1>1, <1>2, <1>3

\* A step that hands out, refuses or ends a command, or disturbs it.
Beside == RunCheck \/ RunEnded \/ Crash \/ Edit \/ UNCHANGED serialVars

LEMMA BesideLeaves == Beside => goal' = goal /\ UNCHANGED <<begun, ran, seen, judged>>
  BY DEF Beside, RunCheck, RunEnded, Crash, Edit, serialVars, world, history

\* A review that is not applied: what it leaves.
LEMMA DroppedLeaves ==
  ASSUME BaseInv, FinishReview \/ FailReview, DroppedReview
  PROVE  /\ \A f \in {"actions", "plan", "holds", "findings", "attempts", "preferred",
                     "executed"} : goal'[f] = goal[f]
         /\ goal'.clearances = {} /\ goal'.complete = FALSE /\ goal'.pending = NoRequest
         /\ UNCHANGED <<begun, ran, seen>> /\ ~IsWork
  <1>1. /\ \A f \in {"actions", "plan", "holds", "findings", "attempts", "preferred",
                    "executed"} : goal'[f] = goal[f]
        /\ goal'.clearances = {} /\ goal'.pending = NoRequest
        /\ goal'.complete = FALSE \/ goal'.complete = goal.complete
    BY DEF DroppedReview, Changes, Spent, Fields
  <1>2. UNCHANGED <<begun, ran, seen>> /\ ~IsWork /\ goal.pending # NoRequest
    BY DEF FinishReview, FailReview, IsReview, IsWork, history
  <1>3. ~goal.complete /\ goal.complete \in BOOLEAN
    BY <1>2 DEF BaseInv, FlightKnown, SerialTypeOK
  <1>4. goal.complete = FALSE
    BY <1>3
  <1>5. QED
    BY <1>1, <1>2, <1>4, Zenon

\* A review's reply is dropped or applied.
LEMMA ReviewEnds ==
  ASSUME BaseInv, FinishReview \/ FailReview
  PROVE  \/ DroppedReview
         \/ FinishReview /\ ~Moved /\ \E v \in Reviews : ReviewedBy(v)
  BY StaleStep, FailReviewStep DEF FinishReview, ReviewedBy

\* The steps, as the properties see them.
LEMMA StepKinds ==
  ASSUME BaseInv, [SerialNext]_serialVars
  PROVE  \/ \E loop \in BOOLEAN : Dispatch(loop)
         \/ Waiting
         \/ (FinishReview \/ FailReview) /\ DroppedReview
         \/ FinishReview /\ ~Moved /\ \E v \in Reviews : ReviewedBy(v)
         \/ FinishWork
         \/ RunCommand \/ AgentWorks
         \/ Beside
         \/ OwnerControl \/ OwnerRevise \/ \E p \in Plans : AuthorizePlan(p)
         \/ OwnerReconcile
         \/ \E p \in Plans : RevisePlan(p)
  BY ReviewEnds DEF SerialNext, Beside

\* What Waiting leaves.
LEMMA WaitingLeaves ==
  ASSUME BaseInv, Waiting
  PROVE  /\ \A f \in {"actions", "plan", "holds", "findings", "attempts", "preferred", "pending",
                     "executed"} : goal'[f] = goal[f]
         /\ goal' = goal \/ (goal'.clearances = {} /\ goal'.complete = FALSE)
         /\ UNCHANGED <<begun, ran, seen, judged>> /\ goal.pending = NoRequest
  BY ObservedFields DEF Waiting, Changes, Spent, Fields, history

\* Work is begun where a request for it, not begun, is in flight.
LEMMA BeginStep ==
  ASSUME BaseInv, RunCommand \/ AgentWorks
  PROVE  /\ goal' = goal /\ ~begun /\ begun' = TRUE /\ goal.pending # NoRequest
         /\ ~IsWork => UNCHANGED <<ran, seen, judged>>
         /\ IsWork => /\ ran' = [ran EXCEPT ![goal.pending.action] = @ + 1]
                      /\ seen' = [seen EXCEPT ![goal.pending.action] =
                                    goal.plan[goal.pending.action]]
                      /\ judged' = NotJudged
                      /\ goal.pending.action \in Known /\ goal.pending.action \in Actions
                      /\ goal.actions[goal.pending.action] = "pending"
  <1>1. goal' = goal /\ ~begun /\ goal.pending # NoRequest /\ Begin
    BY DEF RunCommand, AgentWorks, BaseInv, FlightKnown, IsWork
  <1>2. QED
    BY <1>1 DEF Begin, BaseInv, FlightKnown, SerialTypeOK

-----------------------------------------------------------------------------
(* No side effect is repeated.                                             *)

LEMMA RanUndisturbed ==
  ASSUME RanKnown, UNCHANGED ran,
         \A a \in Known : a \in Known' /\ (goal.actions[a] # "pending" => goal'.actions[a] # "pending"),
         IsWork /\ begun => IsWork' /\ begun' /\ goal'.pending = goal.pending
  PROVE  RanKnown'
  BY DEF RanKnown, NeverReplayed

LEMMA RanFinishWork ==
  ASSUME BaseInv, RanKnown, FinishWork
  PROVE  RanKnown'
  <1>1. PICK result \in Results :
          /\ goal'.pending = NoRequest
          /\ goal'.actions = [goal.actions EXCEPT ![goal.pending.action] = Outcome(result)]
          /\ (result = "not_started") = ~begun
    BY FinishWorkStep
  <1>2. /\ goal.pending.action \in Known /\ goal.actions[goal.pending.action] = "pending"
        /\ DOMAIN goal.actions = Known /\ UNCHANGED ran
    BY DEF FinishWork, BaseInv, FlightKnown, Known, history
  <1>3. Known' = Known
    BY <1>1 DEF Known
  <1>4. begun => result # "not_started"
    BY <1>1
  <1>5. begun => goal'.actions[goal.pending.action] # "pending"
    BY <1>1, <1>2, <1>4 DEF Outcome, Results
  <1>6. ASSUME NEW a \in Actions, ran[a] # 0
        PROVE  a \in Known /\ goal'.actions[a] # "pending"
    <2>1. CASE a \in Known /\ goal.actions[a] # "pending"
      BY <1>1, <1>2, <2>1
    <2>2. CASE begun /\ goal.pending.action = a
      BY <1>2, <1>5, <2>2
    <2>3. QED
      BY <1>6, <2>1, <2>2 DEF RanKnown
  <1>7. QED
    BY <1>2, <1>3, <1>6 DEF RanKnown, NeverReplayed

LEMMA RanBegin ==
  ASSUME BaseInv, RanKnown, RunCommand \/ AgentWorks
  PROVE  RanKnown'
  <1>1. CASE ~IsWork
    <2>1. goal' = goal /\ UNCHANGED ran
      BY <1>1, BeginStep
    <2>2. QED
      BY <1>1, <2>1 DEF RanKnown, NeverReplayed, Known, IsWork
  <1>2. CASE IsWork
    <2>1. PICK a \in Actions : a = goal.pending.action
      BY <1>2, BeginStep
    <2>2. /\ goal' = goal /\ ~begun /\ begun' = TRUE /\ goal.actions[a] = "pending"
          /\ ran' = [ran EXCEPT ![a] = @ + 1]
      BY <1>2, <2>1, BeginStep
    <2>3. ran[a] = 0
      BY <2>2 DEF RanKnown
    <2>4. ran' = [ran EXCEPT ![a] = 1]
      BY <2>2, <2>3
    <2>5. IsWork' /\ begun' /\ goal'.pending.action = a
      BY <1>2, <2>1, <2>2 DEF IsWork
    <2>6. Known' = Known
      BY <2>2 DEF Known
    <2>7. QED
      BY <2>2, <2>4, <2>5, <2>6 DEF RanKnown, NeverReplayed
  <1>3. QED
    BY <1>1, <1>2

LEMMA RanReconcile ==
  ASSUME BaseInv, RanKnown, OwnerReconcile
  PROVE  RanKnown'
  <1>1. PICK a \in Known, outcome \in {"done", "pending"} :
          /\ Changes(goal, goal', {"actions", "review_due", "review_failures", "clearances",
                                  "complete"})
          /\ goal'.actions = [goal.actions EXCEPT ![a] = outcome]
          /\ ran' = [ran EXCEPT ![a] = 0]
    BY ReconcileStep
  <1>2. goal.pending = NoRequest /\ a \in Actions
    BY DEF OwnerReconcile, BaseInv, SerialTypeOK
  <1>3. Known' = Known
    BY <1>1 DEF Known
  <1>4. \A b \in Actions : ran'[b] = IF b = a THEN 0 ELSE ran[b]
    BY <1>1, <1>2 DEF RanKnown
  <1>5. \A b \in Known : b # a => goal'.actions[b] = goal.actions[b]
    BY <1>1 DEF Known
  <1>6. ran' \in [Actions -> Nat]
    BY <1>1 DEF RanKnown
  <1>7. QED
    BY <1>2, <1>3, <1>4, <1>5, <1>6 DEF RanKnown, NeverReplayed, IsWork

LEMMA RanStep == BaseInv /\ RanKnown /\ [SerialNext]_serialVars => RanKnown'
  <1> SUFFICES ASSUME BaseInv, RanKnown, [SerialNext]_serialVars PROVE RanKnown'
    OBVIOUS
  <1>1. ASSUME NEW loop \in BOOLEAN, Dispatch(loop) PROVE RanKnown'
    <2>1. Changes(goal, goal', Spent \cup {"complete", "pending", "dispatches"})
      BY <1>1, DispatchStep
    <2>2. goal'.actions = goal.actions /\ UNCHANGED ran /\ ~IsWork
      BY <1>1, <2>1 DEF Dispatch, Changes, Spent, Fields, IsWork
    <2>3. QED
      BY <2>2, RanUndisturbed DEF Known
  <1>2. CASE Waiting
    BY <1>2, WaitingLeaves, RanUndisturbed DEF Known, IsWork
  <1>3. CASE (FinishReview \/ FailReview) /\ DroppedReview
    BY <1>3, DroppedLeaves, RanUndisturbed DEF Known
  <1>4. ASSUME FinishReview, NEW v \in Reviews, ReviewedBy(v) PROVE RanKnown'
    <2>1. goal'.actions = goal.actions
      BY <1>4, ReviewedStep DEF Changes, Fields
    <2>2. UNCHANGED ran /\ ~IsWork
      BY <1>4 DEF FinishReview, IsReview, IsWork
    <2>3. QED
      BY <2>1, <2>2, RanUndisturbed DEF Known
  <1>5. CASE Beside
    BY <1>5, BesideLeaves, RanUndisturbed DEF Known, IsWork
  <1>6. CASE OwnerControl \/ OwnerRevise \/ \E p \in Plans : AuthorizePlan(p)
    <2>1. /\ goal'.actions = goal.actions /\ goal'.pending = goal.pending
          /\ UNCHANGED <<begun, ran>>
      BY <1>6, OwnerLeaves
    <2>2. QED
      BY <2>1, RanUndisturbed DEF Known, IsWork
  <1>7. ASSUME NEW p \in Plans, RevisePlan(p) PROVE RanKnown'
    <2>1. goal'.actions = StatusesUnder(Candidate(p)) /\ SerialTypeOK
      BY <1>7, RevisePlanStep DEF BaseInv
    <2>2. UNCHANGED ran /\ ~IsWork
      BY <1>7 DEF RevisePlan, Admissible, IsWork, history
    <2>3. /\ Known' = Known \cup Adds[p]
          /\ \A a \in Known : goal'.actions[a] = goal.actions[a]
      BY <2>1, CandidateFacts DEF Known
    <2>4. QED
      BY <2>2, <2>3, RanUndisturbed
  <1>8. QED
    BY <1>1, <1>2, <1>3, <1>4, <1>5, <1>6, <1>7, StepKinds, RanFinishWork, RanBegin, RanReconcile

\* Whatever crashes and however late a result is reported, an action is begun
\* again only after its owner reconciled it.
THEOREM NothingIsReplayed == SerialSpec => []NeverReplayed
  <1>1. SerialInit => RanKnown
    BY DEF SerialInit, RanKnown, NeverReplayed
  <1>2. RanKnown => NeverReplayed
    BY DEF RanKnown
  <1>3. QED
    BY <1>1, <1>2, RanStep, BaseInvariant, PTL DEF SerialSpec

-----------------------------------------------------------------------------
(* Work follows a review of the evidence it works on.                      *)

LEMMA JudgedUndisturbed ==
  ASSUME JudgedKnown, UNCHANGED <<judged, begun>>,
         goal'.clearances \subseteq goal.clearances,
         goal'.pending = goal.pending
  PROVE  JudgedKnown'
  BY DEF JudgedKnown, WorkFollowsReview, IsWork

LEMMA JudgedDispatch ==
  ASSUME BaseInv, JudgedKnown, NEW loop \in BOOLEAN, Dispatch(loop)
  PROVE  JudgedKnown'
  <1>1. PICK a \in Known \cup {NoAction} :
    /\ goal'.pending = [token |-> goal.dispatches + 1, action |-> a, snapshot |-> evidence,
                        findings |-> goal.findings]
    /\ goal'.clearances = goal.clearances \/ goal'.clearances = {}
    /\ a # NoAction => (a \in Reviewed => <<a, evidence>> \in goal'.clearances)
    BY DispatchStep
  <1>2. /\ ~IsWork /\ begun' = FALSE /\ UNCHANGED judged
    BY DEF Dispatch, IsWork
  <1>3. \A c \in goal'.clearances : c[2] = judged
    BY <1>1, <1>2 DEF JudgedKnown
  <1>4. /\ goal'.pending.action = a /\ goal'.pending.snapshot = evidence
    BY <1>1
  <1>5. IsWork' /\ a \in Reviewed => judged = evidence
    <2>1. SUFFICES ASSUME IsWork', a \in Reviewed
                   PROVE  judged = evidence
      OBVIOUS
    <2>2. <<a, evidence>> \in goal'.clearances
      BY <1>1, <1>4, <2>1 DEF IsWork
    <2>3. <<a, evidence>>[2] = judged
      BY <1>3, <2>2
    <2>4. QED
      BY <2>3
  <1>6. QED
    BY <1>2, <1>3, <1>4, <1>5 DEF JudgedKnown, WorkFollowsReview

LEMMA JudgedStep == BaseInv /\ JudgedKnown /\ [SerialNext]_serialVars => JudgedKnown'
  <1> SUFFICES ASSUME BaseInv, JudgedKnown, [SerialNext]_serialVars PROVE JudgedKnown'
    OBVIOUS
  <1>1. CASE Waiting
    <2>1. goal'.clearances \subseteq goal.clearances
      BY <1>1, WaitingLeaves
    <2>2. QED
      BY <1>1, <2>1, WaitingLeaves, JudgedUndisturbed
  <1>2. CASE (FinishReview \/ FailReview) /\ DroppedReview
    BY <1>2, DroppedLeaves DEF JudgedKnown, WorkFollowsReview, IsWork
  <1>3. ASSUME FinishReview, NEW v \in Reviews, ReviewedBy(v) PROVE JudgedKnown'
    <2>1. /\ goal'.clearances = {<<a, evidence>> : a \in v.cleared}
          /\ goal'.pending = NoRequest /\ judged' = evidence
      BY <1>3, ReviewedStep DEF ReviewedBy
    <2>2. QED
      BY <2>1 DEF JudgedKnown, WorkFollowsReview, IsWork
  <1>4. CASE FinishWork
    <2>1. goal'.clearances = {} /\ goal'.pending = NoRequest
      BY <1>4, FinishWorkStep
    <2>2. QED
      BY <2>1 DEF JudgedKnown, WorkFollowsReview, IsWork
  <1>5. CASE RunCommand \/ AgentWorks
    <2>1. CASE IsWork
      BY <1>5, <2>1, BeginStep DEF JudgedKnown, WorkFollowsReview, IsWork
    <2>2. CASE ~IsWork
      BY <1>5, <2>2, BeginStep DEF JudgedKnown, WorkFollowsReview, IsWork
    <2>3. QED
      BY <2>1, <2>2
  <1>6. CASE Beside
    BY <1>6, BesideLeaves, JudgedUndisturbed
  <1>7. CASE OwnerControl \/ OwnerRevise \/ \E p \in Plans : AuthorizePlan(p)
    <2>1. /\ goal'.clearances \subseteq goal.clearances /\ goal'.pending = goal.pending
          /\ UNCHANGED <<judged, begun>>
      BY <1>7, OwnerLeaves
    <2>2. QED
      BY <2>1, JudgedUndisturbed
  <1>8. CASE OwnerReconcile
    <2>1. goal'.clearances = {} /\ goal'.pending = goal.pending /\ UNCHANGED <<judged, begun>>
      BY <1>8, ReconcileStep DEF Changes, Fields, OwnerReconcile
    <2>2. QED
      BY <2>1, JudgedUndisturbed
  <1>9. ASSUME NEW p \in Plans, RevisePlan(p) PROVE JudgedKnown'
    <2>1. /\ goal'.clearances \subseteq goal.clearances /\ goal'.pending = goal.pending
          /\ UNCHANGED <<judged, begun>>
      BY <1>9, RevisePlanStep DEF Changes, Fields, RevisePlan, history
    <2>2. QED
      BY <2>1, JudgedUndisturbed
  <1>10. QED
    BY <1>1, <1>2, <1>3, <1>4, <1>5, <1>6, <1>7, <1>8, <1>9, StepKinds, JudgedDispatch

LEMMA JudgedInit == SerialInit => JudgedKnown
  BY DEF SerialInit, JudgedKnown, WorkFollowsReview, IsWork

\* Reviewed work waits in flight only on the evidence that was judged last,
\* with nothing executed since.
THEOREM WorkIsReviewed == SerialSpec => []WorkFollowsReview
  <1>1. JudgedKnown => WorkFollowsReview
    BY DEF JudgedKnown
  <1>2. QED
    BY <1>1, JudgedInit, JudgedStep, BaseInvariant, PTL DEF SerialSpec

-----------------------------------------------------------------------------
(* What a complete goal is.                                                *)

LEMMA CompletionUndisturbed ==
  ASSUME SerialCompletion, goal'.complete = goal.complete \/ goal'.complete = FALSE,
         \A f \in {"actions", "pending", "holds", "findings", "snapshot"} : goal'[f] = goal[f],
         UNCHANGED judged
  PROVE  SerialCompletion'
  BY DEF SerialCompletion, Known

LEMMA CompletionStep ==
  BaseInv /\ SerialCompletion /\ [SerialNext]_serialVars => SerialCompletion'
  <1> SUFFICES ASSUME BaseInv, SerialCompletion, [SerialNext]_serialVars PROVE SerialCompletion'
    OBVIOUS
  <1>1. ASSUME NEW loop \in BOOLEAN, Dispatch(loop) PROVE SerialCompletion'
    <2>1. goal'.complete = FALSE
      BY <1>1, DispatchStep
    <2>2. QED
      BY <2>1 DEF SerialCompletion
  <1>2. CASE Waiting
    <2>1. CASE goal'.complete = FALSE
      BY <2>1 DEF SerialCompletion
    <2>2. CASE goal' = goal
      BY <1>2, <2>2, WaitingLeaves, CompletionUndisturbed
    <2>3. QED
      BY <1>2, <2>1, <2>2, WaitingLeaves
  <1>3. CASE (FinishReview \/ FailReview) /\ DroppedReview
    <2>1. goal'.complete = FALSE
      BY <1>3, DroppedLeaves
    <2>2. QED
      BY <2>1 DEF SerialCompletion
  <1>4. ASSUME FinishReview, ~Moved, NEW v \in Reviews, ReviewedBy(v) PROVE SerialCompletion'
    <2>1. /\ goal'.holds = HoldsAfter(v) /\ goal'.findings = FindingsAfter(v)
          /\ goal'.complete = v.complete /\ goal'.pending = NoRequest /\ judged' = evidence
          /\ goal'.actions = goal.actions /\ goal'.snapshot = goal.snapshot
      BY <1>4, ReviewedStep DEF ReviewedBy, Changes, Fields
    <2>2. evidence = goal.snapshot
      BY <1>4 DEF FinishReview, IsReview, Moved, BaseInv, FlightKnown
    <2>3. v.complete =>
            /\ FindingsAfter(v) = {} /\ HoldsAfter(v) = {} /\ evidence # Missing
            /\ \A a \in Known \cap Mandatory : goal.actions[a] = "done"
      BY <1>4 DEF ReviewedBy, Acceptable
    <2>4. QED
      BY <2>1, <2>2, <2>3 DEF SerialCompletion, Known
  <1>5. CASE FinishWork
    <2>1. /\ goal'.complete = goal.complete
      BY <1>5, FinishWorkStep DEF Changes, Spent, Fields
    <2>2. ~goal.complete
      BY <1>5 DEF FinishWork, IsWork, BaseInv, FlightKnown
    <2>3. QED
      BY <2>1, <2>2 DEF SerialCompletion
  <1>6. CASE RunCommand \/ AgentWorks
    <2>1. goal' = goal /\ ~goal.complete
      BY <1>6, BeginStep DEF BaseInv, FlightKnown
    <2>2. QED
      BY <2>1 DEF SerialCompletion
  <1>7. CASE Beside
    BY <1>7, BesideLeaves, CompletionUndisturbed
  <1>8. CASE OwnerControl \/ OwnerRevise \/ \E p \in Plans : AuthorizePlan(p)
    <2>1. /\ \A f \in {"actions", "pending", "holds", "findings", "snapshot"} : goal'[f] = goal[f]
          /\ goal'.complete = goal.complete \/ goal'.complete = FALSE
          /\ UNCHANGED judged
      BY <1>8, OwnerLeaves
    <2>2. QED
      BY <2>1, CompletionUndisturbed
  <1>9. CASE OwnerReconcile
    <2>1. goal'.complete = FALSE
      BY <1>9, ReconcileStep
    <2>2. QED
      BY <2>1 DEF SerialCompletion
  <1>10. ASSUME NEW p \in Plans, RevisePlan(p) PROVE SerialCompletion'
    <2>1. goal'.complete = FALSE
      BY <1>10, RevisePlanStep
    <2>2. QED
      BY <2>1 DEF SerialCompletion
  <1>11. QED
    BY <1>1, <1>2, <1>3, <1>4, <1>5, <1>6, <1>7, <1>8, <1>9, <1>10, StepKinds

\* A goal counts as complete only while every mandatory action of its current
\* plan is done, nothing is open, and the evidence on record is the evidence
\* its last review accepted.
THEOREM SerialCompletionEarned == SerialSpec => []SerialCompletion
  <1>1. SerialInit => SerialCompletion
    BY DEF SerialInit, SerialCompletion
  <1>2. QED
    BY <1>1, CompletionStep, BaseInvariant, PTL DEF SerialSpec

-----------------------------------------------------------------------------
(* No revision rewires what was executed.                                  *)

LEMMA ExecutedUndisturbed ==
  ASSUME ExecutedKnown, UNCHANGED seen,
         goal'.executed = goal.executed, goal'.plan = goal.plan, goal'.actions = goal.actions,
         IsWork' /\ begun' => IsWork /\ begun /\ goal'.pending = goal.pending
  PROVE  ExecutedKnown'
  BY DEF ExecutedKnown, ExecutedIsNotRewired, Known

LEMMA ExecutedFinishWork ==
  ASSUME BaseInv, ExecutedKnown, FinishWork
  PROVE  ExecutedKnown'
  <1>1. PICK result \in Results :
          /\ Changes(goal, goal', Spent \cup {"actions", "attempts", "executed", "pending"})
          /\ goal'.pending = NoRequest
          /\ goal'.actions = [goal.actions EXCEPT ![goal.pending.action] = Outcome(result)]
          /\ goal'.executed = IF result = "not_started" THEN goal.executed
                              ELSE goal.executed \cup {goal.pending.action}
          /\ (result = "not_started") = ~begun
    BY FinishWorkStep
  <1>2. goal'.plan = goal.plan /\ Known' = Known /\ UNCHANGED seen
    BY <1>1 DEF Changes, Spent, Fields, Known, FinishWork, history
  <1>3. IsWork /\ goal.pending.action \in Known
    BY DEF FinishWork, BaseInv, FlightKnown
  <1>4. result # "not_started" => seen[goal.pending.action] = goal.plan[goal.pending.action]
    <2>1. result # "not_started" => begun
      BY <1>1 DEF BaseInv, FlightKnown
    <2>2. QED
      BY <1>3, <2>1 DEF ExecutedKnown
  <1>5. goal'.executed \subseteq Known /\ \A a \in goal'.executed : seen[a] = goal.plan[a]
    BY <1>1, <1>3, <1>4 DEF ExecutedKnown, ExecutedIsNotRewired
  <1>6. QED
    BY <1>1, <1>2, <1>5 DEF ExecutedKnown, ExecutedIsNotRewired, IsWork

LEMMA ExecutedBegin ==
  ASSUME BaseInv, ExecutedKnown, RunCommand \/ AgentWorks
  PROVE  ExecutedKnown'
  <1>1. CASE ~IsWork
    BY <1>1, BeginStep, ExecutedUndisturbed DEF IsWork
  <1>2. CASE IsWork
    <2>1. PICK a \in Actions : a = goal.pending.action /\ a \in Known
      BY <1>2, BeginStep
    <2>2. goal' = goal /\ seen' = [seen EXCEPT ![a] = goal.plan[a]]
      BY <1>2, <2>1, BeginStep
    <2>3. goal.plan[a] \in SUBSET Actions
      BY <2>1 DEF BaseInv, SerialTypeOK
    <2>4. /\ seen' \in [Actions -> SUBSET Actions] /\ seen'[a] = goal.plan[a]
          /\ \A b \in Actions : b # a => seen'[b] = seen[b]
      BY <2>2, <2>3 DEF ExecutedKnown
    <2>5. \A b \in goal.executed : b \in Actions /\ seen[b] = goal.plan[b]
      BY DEF ExecutedKnown, ExecutedIsNotRewired, BaseInv, SerialTypeOK
    <2>6. \A b \in goal.executed : seen'[b] = goal.plan[b]
      BY <2>4, <2>5
    <2>7. QED
      BY <2>1, <2>2, <2>4, <2>6 DEF ExecutedKnown, ExecutedIsNotRewired, Known
  <1>3. QED
    BY <1>1, <1>2

LEMMA ExecutedRevisePlan ==
  ASSUME BaseInv, ExecutedKnown, NEW p \in Plans, RevisePlan(p)
  PROVE  ExecutedKnown'
  <1>1. /\ goal'.plan = Candidate(p) /\ goal'.actions = StatusesUnder(Candidate(p))
        /\ goal'.executed = goal.executed /\ goal'.pending = goal.pending
    BY RevisePlanStep DEF Changes, Fields
  <1>2. UNCHANGED seen /\ goal.pending = NoRequest
    BY DEF RevisePlan, Admissible, history
  <1>3. Known \subseteq Known'
    <2>1. SerialTypeOK
      BY DEF BaseInv
    <2>2. StatusesUnder(Candidate(p)) \in [Known \cup Adds[p] -> Statuses]
      BY <2>1, CandidateFacts
    <2>3. QED
      BY <1>1, <2>2 DEF Known
  <1>4. ASSUME NEW a \in goal.executed
        PROVE  Candidate(p)[a] = goal.plan[a]
    <2>1. a \in Known /\ a \notin Adds[p] /\ a \notin DOMAIN Rewires[p]
      BY DEF ExecutedKnown, RevisePlan, Admissible, Rewirable
    <2>2. QED
      BY <2>1 DEF Candidate
  <1>5. QED
    BY <1>1, <1>2, <1>3, <1>4 DEF ExecutedKnown, ExecutedIsNotRewired, IsWork

LEMMA ExecutedStep == BaseInv /\ ExecutedKnown /\ [SerialNext]_serialVars => ExecutedKnown'
  <1> SUFFICES ASSUME BaseInv, ExecutedKnown, [SerialNext]_serialVars PROVE ExecutedKnown'
    OBVIOUS
  <1>1. ASSUME NEW loop \in BOOLEAN, Dispatch(loop) PROVE ExecutedKnown'
    <2>1. /\ goal'.executed = goal.executed /\ goal'.plan = goal.plan
          /\ goal'.actions = goal.actions
      BY <1>1, DispatchStep DEF Changes, Spent, Fields
    <2>2. UNCHANGED seen /\ begun' = FALSE
      BY <1>1 DEF Dispatch
    <2>3. QED
      BY <2>1, <2>2, ExecutedUndisturbed
  <1>2. CASE Waiting
    BY <1>2, WaitingLeaves, ExecutedUndisturbed DEF IsWork
  <1>3. CASE (FinishReview \/ FailReview) /\ DroppedReview
    BY <1>3, DroppedLeaves, ExecutedUndisturbed DEF IsWork
  <1>4. ASSUME FinishReview, NEW v \in Reviews, ReviewedBy(v) PROVE ExecutedKnown'
    <2>1. /\ goal'.executed = goal.executed /\ goal'.plan = goal.plan
          /\ goal'.actions = goal.actions /\ goal'.pending = NoRequest
      BY <1>4, ReviewedStep DEF Changes, Fields
    <2>2. UNCHANGED seen
      BY <1>4 DEF FinishReview
    <2>3. QED
      BY <2>1, <2>2, ExecutedUndisturbed DEF IsWork
  <1>5. CASE Beside
    BY <1>5, BesideLeaves, ExecutedUndisturbed DEF IsWork
  <1>6. CASE OwnerControl \/ OwnerRevise \/ \E p \in Plans : AuthorizePlan(p)
    <2>1. /\ goal'.executed = goal.executed /\ goal'.plan = goal.plan
          /\ goal'.actions = goal.actions /\ goal'.pending = goal.pending
          /\ UNCHANGED <<seen, begun>>
      BY <1>6, OwnerLeaves
    <2>2. QED
      BY <2>1, ExecutedUndisturbed DEF IsWork
  <1>7. CASE OwnerReconcile
    <2>1. /\ goal'.executed = goal.executed /\ goal'.plan = goal.plan
          /\ goal'.pending = goal.pending /\ UNCHANGED <<seen, begun>>
      BY <1>7, ReconcileStep DEF Changes, Fields, OwnerReconcile
    <2>2. Known' = Known
      BY <1>7, ReconcileStep DEF Known
    <2>3. QED
      BY <2>1, <2>2 DEF ExecutedKnown, ExecutedIsNotRewired, IsWork
  <1>8. QED
    BY <1>1, <1>2, <1>3, <1>4, <1>5, <1>6, <1>7, StepKinds, ExecutedFinishWork, ExecutedBegin,
       ExecutedRevisePlan

\* An action keeps the parents it was executed under, reconciled or not,
\* whatever revisions are authorised.
THEOREM PastIsNotRewired == SerialSpec => []ExecutedIsNotRewired
  <1>1. SerialInit => ExecutedKnown
    BY DEF SerialInit, ExecutedKnown, ExecutedIsNotRewired, IsWork
  <1>2. ExecutedKnown => ExecutedIsNotRewired
    BY DEF ExecutedKnown
  <1>3. QED
    BY <1>1, <1>2, ExecutedStep, BaseInvariant, PTL DEF SerialSpec

-----------------------------------------------------------------------------
(* Repairs converge.                                                       *)

Distinct(s, n) == \A i, j \in 1 .. n : s[i] = s[j] => i = j

\* One attempt: within its cap, no findings answered twice, and no candidate
\* met twice but perhaps the last one, which stopped it.
Converges(at) ==
  /\ at \in Tries
  /\ at.cycles <= MaxRepairCycles
  /\ Distinct(at.finding_sets, Len(at.finding_sets))
  /\ Distinct(at.candidates, Len(at.candidates) - 1)
  /\ ~at.stopped => Distinct(at.candidates, Len(at.candidates))

Untried(at, findings) == \A i \in 1 .. Len(at.finding_sets) : at.finding_sets[i] # findings

AttemptsInv ==
  /\ DOMAIN goal.attempts = Attempts /\ goal.attempts \in [Attempts -> Tries]
  /\ \A k \in Attempts : Converges(goal.attempts[k])
  /\ \A c \in goal.clearances : Kind[c[1]] = "repair" =>
       \/ goal.attempts[AttemptOf[c[1]]].stopped
       \/ Untried(goal.attempts[AttemptOf[c[1]]], goal.findings)
  /\ IsWork /\ Kind[goal.pending.action] = "repair" =>
       /\ ~goal.attempts[AttemptOf[goal.pending.action]].stopped
       /\ goal.attempts[AttemptOf[goal.pending.action]].cycles < MaxRepairCycles
       /\ Untried(goal.attempts[AttemptOf[goal.pending.action]], goal.pending.findings)

LEMMA AttemptsConverge == AttemptsInv => RepairsConverge
  <1> SUFFICES ASSUME AttemptsInv, NEW k \in Attempts
               PROVE  LET at == goal.attempts[k]  n == Len(at.candidates) IN
                      /\ at.cycles <= MaxRepairCycles
                      /\ \A i, j \in DOMAIN at.finding_sets :
                           at.finding_sets[i] = at.finding_sets[j] => i = j
                      /\ \A i, j \in 1..(n - 1) : at.candidates[i] = at.candidates[j] => i = j
    BY DEF RepairsConverge
  <1>1. Converges(goal.attempts[k])
    BY DEF AttemptsInv
  <1>2. DOMAIN goal.attempts[k].finding_sets = 1 .. Len(goal.attempts[k].finding_sets)
    BY <1>1 DEF Converges, Tries
  <1>3. QED
    BY <1>1, <1>2 DEF Converges, Distinct

LEMMA AttemptsUndisturbed ==
  ASSUME AttemptsInv, goal'.attempts = goal.attempts, goal'.findings = goal.findings,
         goal'.clearances \subseteq goal.clearances,
         goal'.pending = goal.pending \/ goal'.pending = NoRequest
  PROVE  AttemptsInv'
  BY DEF AttemptsInv, IsWork

LEMMA AttemptsDispatch ==
  ASSUME BaseInv, AttemptsInv, NEW loop \in BOOLEAN, Dispatch(loop)
  PROVE  AttemptsInv'
  <1>1. PICK a \in Known \cup {NoAction} :
    /\ Changes(goal, goal', Spent \cup {"complete", "pending", "dispatches"})
    /\ goal'.pending = [token |-> goal.dispatches + 1, action |-> a, snapshot |-> evidence,
                        findings |-> goal.findings]
    /\ goal'.clearances = goal.clearances \/ goal'.clearances = {}
    /\ a # NoAction =>
         /\ a \in Reviewed => <<a, evidence>> \in goal'.clearances
         /\ Kind[a] = "repair" => ~Exhausted(goal, a)
    BY DispatchStep
  <1>2. /\ goal'.attempts = goal.attempts /\ goal'.findings = goal.findings
        /\ goal'.pending.action = a /\ goal'.pending.findings = goal.findings
    BY <1>1 DEF Changes, Spent, Fields
  <1>3. ASSUME a # NoAction, Kind[a] = "repair"
        PROVE  /\ ~goal.attempts[AttemptOf[a]].stopped
               /\ goal.attempts[AttemptOf[a]].cycles < MaxRepairCycles
               /\ Untried(goal.attempts[AttemptOf[a]], goal.findings)
    <2>1. a \in Actions /\ AttemptOf[a] \in Attempts
      BY <1>3 DEF BaseInv, SerialTypeOK
    <2>2. goal.attempts[AttemptOf[a]] \in Tries
      BY <2>1 DEF AttemptsInv
    <2>3. /\ ~goal.attempts[AttemptOf[a]].stopped
          /\ ~(goal.attempts[AttemptOf[a]].cycles >= MaxRepairCycles)
      BY <1>1, <1>3 DEF Exhausted
    <2>4. <<a, evidence>> \in goal.clearances
      BY <1>1, <1>3, <2>1
    <2>5. <<a, evidence>>[1] = a
      OBVIOUS
    <2>6. Untried(goal.attempts[AttemptOf[a]], goal.findings)
      BY <1>3, <2>3, <2>4, <2>5 DEF AttemptsInv
    <2>7. QED
      BY <2>2, <2>3, <2>6 DEF Tries
  <1>4. goal'.clearances \subseteq goal.clearances
    BY <1>1
  <1>5. IsWork' => a # NoAction
    BY <1>2 DEF IsWork
  <1>6. QED
    BY <1>2, <1>3, <1>4, <1>5 DEF AttemptsInv

LEMMA OneAttemptChanges ==
  ASSUME AttemptsInv, NEW k \in Attempts, NEW new, new \in Tries, Converges(new),
         NEW attempts, attempts = [goal.attempts EXCEPT ![k] = new]
  PROVE  /\ attempts \in [Attempts -> Tries] /\ DOMAIN attempts = Attempts
         /\ \A j \in Attempts : Converges(attempts[j])
  <1>1. goal.attempts \in [Attempts -> Tries] /\ \A j \in Attempts : Converges(goal.attempts[j])
    BY DEF AttemptsInv
  <1>2. /\ DOMAIN attempts = Attempts /\ attempts[k] = new
        /\ \A j \in Attempts : j # k => attempts[j] = goal.attempts[j]
    BY <1>1
  <1>3. attempts \in [Attempts -> Tries]
    BY <1>1
  <1>4. \A j \in Attempts : Converges(attempts[j])
    BY <1>1, <1>2
  <1>5. QED
    BY <1>2, <1>3, <1>4

\* Attempts only ever stop when a review is applied, and one goes on only with
\* findings it has not answered.
LEMMA AttemptsReviewed ==
  ASSUME BaseInv, AttemptsInv, NEW v \in Reviews, ReviewedBy(v)
  PROVE  AttemptsInv'
  <1>1. /\ goal'.findings = FindingsAfter(v) /\ goal'.attempts = AttemptsAfter(v)
        /\ goal'.clearances = {<<a, evidence>> : a \in v.cleared}
        /\ goal'.pending = NoRequest
    BY ReviewedStep
  <1>2. /\ v.cleared \subseteq Known /\ Known \subseteq Actions
        /\ v.next_action \in Known \cup {NoAction}
    BY DEF Reviews, BaseInv, SerialTypeOK
  <1> DEFINE k == AttemptOf[v.next_action]
             again == \E i \in 1 .. Len(goal.attempts[k].finding_sets) :
                        goal.attempts[k].finding_sets[i] = FindingsAfter(v)
  <1>3. CASE v.decision = "REPAIR" /\ again
    <2>1. k \in Attempts /\ goal.attempts[k] \in Tries
      BY <1>2, <1>3 DEF ReviewedBy, Acceptable, AttemptsInv
    <2>2. goal'.attempts =
            [goal.attempts EXCEPT ![k] = [goal.attempts[k] EXCEPT !.stopped = TRUE]]
      <3>1. DOMAIN goal.attempts[k].finding_sets = 1 .. Len(goal.attempts[k].finding_sets)
        BY <2>1 DEF Tries
      <3>2. QED
        BY <1>1, <1>3, <3>1 DEF AttemptsAfter
    <2>3. goal'.attempts[k] = [goal.attempts[k] EXCEPT !.stopped = TRUE]
      BY <2>1, <2>2 DEF AttemptsInv
    <2> HIDE DEF k
    <2>4. /\ goal'.attempts[k].stopped = TRUE /\ goal'.attempts[k] \in Tries
          /\ goal'.attempts[k].cycles = goal.attempts[k].cycles
          /\ goal'.attempts[k].candidates = goal.attempts[k].candidates
          /\ goal'.attempts[k].finding_sets = goal.attempts[k].finding_sets
      BY <2>1, <2>3 DEF Tries
    <2>5. Converges(goal'.attempts[k])
      BY <2>1, <2>4 DEF AttemptsInv, Converges
    <2>6. /\ goal'.attempts \in [Attempts -> Tries] /\ DOMAIN goal'.attempts = Attempts
          /\ \A j \in Attempts : Converges(goal'.attempts[j])
      <3>1. goal'.attempts = [goal.attempts EXCEPT ![k] = goal'.attempts[k]]
        BY <2>2, <2>3
      <3>2. k \in Attempts /\ goal'.attempts[k] \in Tries /\ Converges(goal'.attempts[k])
        BY <2>1, <2>4, <2>5
      <3> DEFINE new == goal'.attempts[k]  attempts == goal'.attempts
      <3> HIDE DEF new, k
      <3>3. attempts = [goal.attempts EXCEPT ![k] = new] /\ new \in Tries /\ Converges(new)
        BY <3>1, <3>2 DEF new
      <3> HIDE DEF attempts
      <3>4. /\ attempts \in [Attempts -> Tries] /\ DOMAIN attempts = Attempts
            /\ \A j \in Attempts : Converges(attempts[j])
        BY <3>2, <3>3, OneAttemptChanges
      <3>5. QED
        BY <3>4 DEF attempts
    <2>7. \A a \in v.cleared : Kind[a] = "repair" => goal'.attempts[AttemptOf[a]].stopped
      BY <1>3, <2>4 DEF k, ReviewedBy, Acceptable
    <2>8. \A c \in goal'.clearances : Kind[c[1]] = "repair" =>
            goal'.attempts[AttemptOf[c[1]]].stopped
      BY <1>1, <2>7
    <2>9. QED
      BY <1>1, <2>6, <2>8 DEF AttemptsInv, IsWork
  <1>4. CASE ~(v.decision = "REPAIR" /\ again)
    <2>1. goal'.attempts = goal.attempts
      <3>1. CASE v.decision # "REPAIR"
        BY <1>1, <3>1 DEF AttemptsAfter
      <3>2. CASE v.decision = "REPAIR" /\ ~again
        <4>1. k \in Attempts /\ goal.attempts[k] \in Tries
          BY <1>2, <3>2 DEF ReviewedBy, Acceptable, AttemptsInv
        <4>2. DOMAIN goal.attempts[k].finding_sets = 1 .. Len(goal.attempts[k].finding_sets)
          BY <4>1 DEF Tries
        <4>3. FindingsAfter(v) \notin {goal.attempts[k].finding_sets[i] :
                                      i \in DOMAIN goal.attempts[k].finding_sets}
          BY <3>2, <4>2
        <4>4. QED
          BY <1>1, <3>2, <4>3 DEF AttemptsAfter
      <3>3. QED
        BY <1>4, <3>1, <3>2
    <2>2. ASSUME NEW a \in v.cleared, Kind[a] = "repair"
          PROVE  Untried(goal.attempts[AttemptOf[a]], FindingsAfter(v))
      <3>1. v.decision = "REPAIR" /\ a = v.next_action
        BY <2>2 DEF ReviewedBy, Acceptable
      <3>2. QED
        BY <1>4, <3>1 DEF Untried
    <2>3. \A c \in goal'.clearances : Kind[c[1]] = "repair" =>
            Untried(goal'.attempts[AttemptOf[c[1]]], goal'.findings)
      BY <1>1, <2>1, <2>2
    <2>4. QED
      BY <1>1, <2>1, <2>3 DEF AttemptsInv, IsWork
  <1>5. QED
    BY <1>3, <1>4

\* One more element, met before or not.
LEMMA DistinctAppend ==
  ASSUME NEW S, NEW s \in Seq(S), NEW e \in S, Distinct(s, Len(s))
  PROVE  /\ Append(s, e) \in Seq(S) /\ Len(Append(s, e)) = Len(s) + 1
         /\ Distinct(Append(s, e), Len(Append(s, e)) - 1)
         /\ (\A i \in 1 .. Len(s) : s[i] # e) => Distinct(Append(s, e), Len(Append(s, e)))
  <1>1. /\ Append(s, e) \in Seq(S) /\ Len(Append(s, e)) = Len(s) + 1 /\ Len(s) \in Nat
        /\ Append(s, e)[Len(s) + 1] = e
        /\ \A i \in 1 .. Len(s) : Append(s, e)[i] = s[i]
    OBVIOUS
  <1>2. Distinct(Append(s, e), Len(s))
    BY <1>1 DEF Distinct
  <1>3. ASSUME \A i \in 1 .. Len(s) : s[i] # e
        PROVE  Distinct(Append(s, e), Len(s) + 1)
    <2>1. SUFFICES ASSUME NEW i \in 1 .. Len(s) + 1, NEW j \in 1 .. Len(s) + 1,
                          Append(s, e)[i] = Append(s, e)[j]
                   PROVE  i = j
      BY DEF Distinct
    <2>2. CASE i \in 1 .. Len(s) /\ j \in 1 .. Len(s)
      BY <1>1, <2>1, <2>2 DEF Distinct
    <2>3. CASE i = Len(s) + 1 \/ j = Len(s) + 1
      BY <1>1, <1>3, <2>1, <2>3
    <2>4. QED
      BY <1>1, <2>2, <2>3
  <1>4. QED
    BY <1>1, <1>2, <1>3

LEMMA AttemptsFinishWork ==
  ASSUME BaseInv, AttemptsInv, FinishWork
  PROVE  AttemptsInv'
  <1>1. PICK result \in Results :
          /\ Changes(goal, goal', Spent \cup {"actions", "attempts", "executed", "pending"})
          /\ goal'.clearances = {} /\ goal'.pending = NoRequest
          /\ goal'.attempts = Charged(result)
    BY FinishWorkStep
  <1> DEFINE r == goal.pending
             k == AttemptOf[r.action]
             at == goal.attempts[k]
             before == IF at.candidates = <<>> THEN <<r.snapshot>> ELSE at.candidates
             again == \E i \in DOMAIN before : before[i] = evidence
             next == [cycles |-> at.cycles + 1, stopped |-> at.stopped \/ again,
                      candidates |-> Append(before, evidence),
                      finding_sets |-> Append(at.finding_sets, r.findings)]
  <1>2. SUFFICES /\ goal'.attempts \in [Attempts -> Tries] /\ DOMAIN goal'.attempts = Attempts
                 /\ \A j \in Attempts : Converges(goal'.attempts[j])
    BY <1>1 DEF AttemptsInv, IsWork
  <1>3. CASE Kind[r.action] = "repair" /\ result # "not_started"
    <2>1. goal'.attempts = [goal.attempts EXCEPT ![k] = next]
      BY <1>1, <1>3 DEF Charged
    <2>2. /\ r.action \in Known /\ Known \subseteq Actions /\ IsWork
          /\ r.snapshot \in Contents /\ r.findings \in SUBSET Findings /\ evidence \in Contents
      BY DEF FinishWork, BaseInv, FlightKnown, SerialTypeOK, Requests, IsWork
    <2>3. /\ k \in Attempts /\ at \in Tries /\ Converges(at) /\ ~at.stopped
          /\ at.cycles < MaxRepairCycles /\ Untried(at, r.findings)
      BY <1>3, <2>2 DEF AttemptsInv
    <2>4. before \in Seq(Contents) /\ Distinct(before, Len(before))
      <3>1. CASE at.candidates = <<>>
        BY <2>2, <3>1 DEF Distinct
      <3>2. CASE at.candidates # <<>>
        BY <2>3, <3>2 DEF Converges, Tries
      <3>3. QED
        BY <3>1, <3>2
    <2>5. at.finding_sets \in Seq(SUBSET Findings) /\ at.cycles \in Nat
          /\ Distinct(at.finding_sets, Len(at.finding_sets))
      BY <2>3 DEF Converges, Tries
    <2>7. (at.stopped \/ again) \in BOOLEAN
      OBVIOUS
    <2> HIDE DEF before, r, at
    <2>6. DOMAIN before = 1 .. Len(before)
      BY <2>4
    <2>8. /\ next.cycles = at.cycles + 1 /\ next.candidates = Append(before, evidence)
          /\ next.finding_sets = Append(at.finding_sets, r.findings)
      OBVIOUS
    <2>9. next.stopped = (at.stopped \/ again)
      OBVIOUS
    <2>10. next \in Tries
      BY <2>2, <2>4, <2>5, <2>7 DEF Tries
    <2> HIDE DEF next
    <2>11. Distinct(next.finding_sets, Len(next.finding_sets))
      <3>1. \A i \in 1 .. Len(at.finding_sets) : at.finding_sets[i] # r.findings
        BY <2>3 DEF Untried
      <3>2. /\ Len(Append(at.finding_sets, r.findings)) = Len(at.finding_sets) + 1
            /\ Distinct(Append(at.finding_sets, r.findings),
                        Len(Append(at.finding_sets, r.findings)))
        BY <2>2, <2>5, <3>1, DistinctAppend
      <3>3. QED
        BY <2>8, <3>2
    <2>12. Distinct(next.candidates, Len(next.candidates) - 1)
      BY <2>2, <2>4, <2>8, DistinctAppend
    <2>13. ~next.stopped => Distinct(next.candidates, Len(next.candidates))
      <3>1. ~next.stopped => \A i \in 1 .. Len(before) : before[i] # evidence
        BY <2>6, <2>9
      <3>2. QED
        BY <2>2, <2>4, <2>8, <3>1, DistinctAppend
    <2>14. next.cycles <= MaxRepairCycles
      BY <2>3, <2>5, <2>8
    <2>15. Converges(next)
      BY <2>10, <2>11, <2>12, <2>13, <2>14 DEF Converges
    <2> HIDE DEF k
    <2>16. QED
      BY <2>1, <2>3, <2>10, <2>15 DEF AttemptsInv
  <1>4. CASE ~(Kind[r.action] = "repair" /\ result # "not_started")
    <2>1. goal'.attempts = goal.attempts
      BY <1>1, <1>4 DEF Charged
    <2>2. QED
      BY <2>1 DEF AttemptsInv
  <1>5. QED
    BY <1>3, <1>4

LEMMA AttemptsStep == BaseInv /\ AttemptsInv /\ [SerialNext]_serialVars => AttemptsInv'
  <1> SUFFICES ASSUME BaseInv, AttemptsInv, [SerialNext]_serialVars PROVE AttemptsInv'
    OBVIOUS
  <1>1. CASE Waiting
    <2>1. /\ goal'.attempts = goal.attempts /\ goal'.findings = goal.findings
          /\ goal'.pending = goal.pending /\ goal'.clearances \subseteq goal.clearances
      BY <1>1, WaitingLeaves
    <2>2. QED
      BY <2>1, AttemptsUndisturbed
  <1>2. CASE (FinishReview \/ FailReview) /\ DroppedReview
    <2>1. /\ goal'.attempts = goal.attempts /\ goal'.findings = goal.findings
          /\ goal'.pending = NoRequest /\ goal'.clearances \subseteq goal.clearances
      BY <1>2, DroppedLeaves
    <2>2. QED
      BY <2>1, AttemptsUndisturbed
  <1>3. CASE RunCommand \/ AgentWorks
    BY <1>3, BeginStep, AttemptsUndisturbed
  <1>4. CASE Beside
    BY <1>4, BesideLeaves, AttemptsUndisturbed
  <1>5. CASE OwnerControl \/ OwnerRevise \/ \E p \in Plans : AuthorizePlan(p)
    <2>1. /\ goal'.attempts = goal.attempts /\ goal'.findings = goal.findings
          /\ goal'.pending = goal.pending /\ goal'.clearances \subseteq goal.clearances
      BY <1>5, OwnerLeaves
    <2>2. QED
      BY <2>1, AttemptsUndisturbed
  <1>6. CASE OwnerReconcile
    <2>1. /\ goal'.attempts = goal.attempts /\ goal'.findings = goal.findings
          /\ goal'.pending = goal.pending /\ goal'.clearances = {}
      BY <1>6, ReconcileStep DEF Changes, Fields
    <2>2. QED
      BY <2>1, AttemptsUndisturbed
  <1>7. ASSUME NEW p \in Plans, RevisePlan(p) PROVE AttemptsInv'
    <2>1. /\ goal'.attempts = goal.attempts /\ goal'.findings = goal.findings
          /\ goal'.pending = goal.pending /\ goal'.clearances \subseteq goal.clearances
      BY <1>7, RevisePlanStep DEF Changes, Fields
    <2>2. QED
      BY <2>1, AttemptsUndisturbed
  <1>8. QED
    BY <1>1, <1>2, <1>3, <1>4, <1>5, <1>6, <1>7, StepKinds, AttemptsDispatch, AttemptsReviewed,
       AttemptsFinishWork

LEMMA AttemptsInit == SerialInit => AttemptsInv
  <1> SUFFICES ASSUME SerialInit PROVE AttemptsInv
    OBVIOUS
  <1>1. goal.attempts = [k \in Attempts |-> NewAttempt] /\ goal.clearances = {}
        /\ goal.pending = NoRequest
    BY DEF SerialInit
  <1>2. NewAttempt.cycles = 0 /\ NewAttempt.candidates = <<>> /\ NewAttempt.finding_sets = <<>>
    BY DEF NewAttempt
  <1>3. NewAttempt \in Tries
    <2>1. FALSE \in BOOLEAN
      OBVIOUS
    <2>2. <<>> \in Seq(Contents) /\ <<>> \in Seq(SUBSET Findings)
      OBVIOUS
    <2>3. QED
      BY <2>1, <2>2 DEF NewAttempt, Tries
  <1>4. Converges(NewAttempt)
    BY <1>2, <1>3 DEF Converges, Distinct
  <1>5. QED
    BY <1>1, <1>3, <1>4 DEF AttemptsInv, IsWork

\* No repair attempt goes round in circles, starts over or outlives its cap,
\* however reviews, crashes and edits fall between its repairs.
THEOREM RepairAttemptsConverge == SerialSpec => []RepairsConverge
  BY AttemptsInit, AttemptsStep, AttemptsConverge, BaseInvariant, PTL DEF SerialSpec
=============================================================================
