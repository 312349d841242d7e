------------------------ MODULE AgentPoolReviewProofs ------------------------
(***************************************************************************)
(* What reviews and repairs may rely on, for every goal: current work      *)
(* rests on support, nobody reviews their own work, no dirt is forgotten,  *)
(* completion is earned and repairs stay within their budget.              *)
(***************************************************************************)
EXTENDS AgentPoolProofs, FiniteSetTheorems

-----------------------------------------------------------------------------
(* Auxiliary invariants.                                                   *)

\* A worker's request says what the manifest says of its action.
RequestsFollowManifest ==
  \A t \in Workers : LET a == pending[t].action IN
    /\ pending[t].kind = Kind[a]
    /\ pending[t].claimReads = ClaimReads[a]
    /\ pending[t].claimWrites = ClaimWrites[a]

RequestClaims(t) == pending[t].claimReads \cup pending[t].claimWrites

\* Generations only grow, so a request never runs ahead of them.
RequestsBehind ==
  \A t \in Pending : \A c \in RequestClaims(t) : pending[t].generations[c] <= generations[c]

\* A claim of the request got a new generation; it can never be current again.
Outdated(t) ==
  \E c \in RequestClaims(t) : pending[t].generations[c] < generations[c]

\* No agent holds two requests.
AgentsDistinct ==
  \A t, u \in DOMAIN delegations : delegations[t] = delegations[u] => t = u

\* Every outcome touched a claim.
OutcomesTouchClaims == \A u \in DOMAIN units : units[u].claims # {}

\* A review covers one open outcome, or everything.
ReviewModes ==
  \A t \in Reviews :
    \/ pending[t].mode = "global"
    \/ /\ pending[t].mode = "unit"
       /\ \E u \in Unreviewed : /\ pending[t].work = {u}
                                /\ pending[t].claimWrites = units[u].claims

\* The authors a review must not be given to are excluded by name, but for
\* those who touched its claims after its dispatch and so outdated it.
AuthorsExcluded ==
  \A t \in Reviews : \A u \in DOMAIN units :
    /\ u \in pending[t].work => units[u].agent \in pending[t].excluded
    /\ units[u].claims \cap pending[t].claimWrites # {} =>
         units[u].agent \in pending[t].excluded \/ Outdated(t)

GlobalReviews == {t \in Reviews : pending[t].mode = "global"}

\* A global review is in flight only while the barrier is up or, as the final
\* review, over a plan that is done and reviewed.
GlobalIsDue == GlobalReviews # {} => globalReview \/ AllReviewed

\* An outcome recorded beside a global review leaves its claims dirty, and
\* outdates the review where they meet.
LateOutcomes ==
  \A t \in GlobalReviews : \A u \in Unreviewed \ pending[t].work :
    /\ units[u].claims \subseteq dirty
    /\ units[u].claims \cap pending[t].claimWrites # {} => Outdated(t)

\* A claim dirtied beside a global review is owed by somebody else.
DirtBesideReview ==
  \A t \in GlobalReviews : \A c \in dirty \ pending[t].claimWrites :
    \/ Outdated(t) \/ AllReviewed
    \/ \E q \in Pending \ {t} : c \in pending[q].claimWrites
    \/ \E u \in Unreviewed \ pending[t].work : c \in units[u].claims

\* The barrier is up only over dirty claims, and a unit review that is still
\* current cannot clean all of them.
BarrierIsDirty ==
  /\ globalReview /\ Claims # {} => dirty # {}
  /\ \A t \in Reviews : pending[t].mode = "unit" /\ globalReview =>
       Outdated(t) \/ ~(dirty \subseteq pending[t].claimWrites)
  /\ \A t \in GlobalReviews : RequestClaims(t) = {} => AllReviewed \/ Claims = {}

\* A global review settles every open reconciliation.
ReconciliationsTaken ==
  \A t \in GlobalReviews : \A a \in DOMAIN reconciliations :
    ~reconciliations[a].reviewed => a \in pending[t].settles

\* A done action is reviewed, or an open outcome or reconciliation says done.
DoneIsAccounted ==
  \A a \in Actions : status[a] = "done" =>
    \/ a \in reviewedActions
    \/ \E u \in Unreviewed : units[u].action = a /\ units[u].status = "done"
    \/ /\ a \in DOMAIN reconciliations
       /\ reconciliations[a].outcome = "done" /\ ~reconciliations[a].reviewed

-----------------------------------------------------------------------------
(* The steps of the pool, by what they change.                             *)

\* What the properties below speak about, but for the agents' bindings.
journal == <<claimState, plan, reviewState, globalReview, complete, dispatches, pending, units>>

\* Refusals, bindings, controls and the world leave the journal alone.
LEMMA StepKinds ==
  ASSUME [Next]_vars
  PROVE  \/ NextReview \/ NextWork \/ NextWaiting
         \/ \E t \in DOMAIN delegations : StaleReview(t) \/ FailedReview(t)
         \/ \E t \in DOMAIN delegations : \E v \in Verdicts(t) : FinishReview(t, v)
         \/ \E t \in DOMAIN delegations : \E result \in Results, added \in SUBSET Surprises :
              FinishWork(t, result, added)
         \/ \E a \in Actions, outcome \in {"done", "pending"} : Reconcile(a, outcome)
         \/ Revise
         \/ UNCHANGED journal
  <1>1. CASE UNCHANGED vars
    BY <1>1 DEF vars, journal, barrier
  <1>2. CASE Finish
    BY <1>2 DEF Finish
  <1>3. CASE \/ NextRefused
             \/ \E t \in Pending, a \in Agents : BindAgent(t, a)
             \/ \E t \in DOMAIN delegations : StartAgent(t)
             \/ \E value \in Commands : Control(value)
    BY <1>3 DEF NextRefused, BindAgent, StartAgent, Control, vars, journal, barrier
  <1>4. CASE \/ \E t \in DOMAIN delegations, p \in Paths, content \in Contents :
                  WorkerWrite(t, p, content)
             \/ \E p \in Paths, content \in Contents : ExternalEdit(p, content)
             \/ \E k \in Contracts : ContractEdit(k)
    BY <1>4 DEF WorkerWrite, ExternalEdit, ContractEdit, journal, barrier
  <1>5. QED
    BY <1>1, <1>2, <1>3, <1>4 DEF Next

\* A dispatch adds its request under a new token.
LEMMA DispatchStep ==
  ASSUME TypeOK, NEW r, Dispatch(r)
  PROVE  /\ dispatches + 1 \notin Pending
         /\ dispatches + 1 \notin DOMAIN units
         /\ Pending' = Pending \cup {dispatches + 1}
         /\ pending'[dispatches + 1] = r
         /\ \A t \in Pending : pending'[t] = pending[t]
  <1>1. dispatches + 1 \notin Pending /\ dispatches + 1 \notin DOMAIN units
    BY DEF TypeOK, GoalOK, RequestsOK, UnitsOK, Pending
  <1>2. QED
    BY <1>1 DEF Dispatch, Put, Pending

\* A result takes its request out of flight and touches no other.
LEMMA RetireStep ==
  ASSUME TypeOK, NEW t \in DOMAIN delegations, Retire(t)
  PROVE  /\ t \in Pending /\ t \notin DOMAIN units
         /\ Pending' = Pending \ {t}
         /\ \A q \in Pending \ {t} : pending'[q] = pending[q]
         /\ DOMAIN delegations' = DOMAIN delegations \ {t}
         /\ \A q \in DOMAIN delegations \ {t} : delegations'[q] = delegations[q]
  <1>1. t \in Pending /\ t \notin DOMAIN units
    BY DEF Pending, TypeOK, RequestsOK, UnitsOK
  <1>2. /\ Pending' = Pending \ {t}
        /\ \A q \in Pending \ {t} : pending'[q] = pending[q]
    BY WithoutIsFunction DEF Retire, Pending
  <1>3. /\ DOMAIN delegations' = DOMAIN delegations \ {t}
        /\ \A q \in DOMAIN delegations \ {t} : delegations'[q] = delegations[q]
    BY WithoutIsFunction DEF Retire
  <1>4. QED
    BY <1>1, <1>2, <1>3

\* Drift renews every claim, anything else renews none.
LEMMA ObservedGrow ==
  ASSUME TypeOK, NEW c \in Claims
  PROVE  /\ generations[c] \in Nat /\ ObservedGenerations[c] \in Nat
         /\ Drift => generations[c] < ObservedGenerations[c]
         /\ ~Drift => ObservedGenerations[c] = generations[c]
  BY DEF ObservedGenerations, TypeOK, ClaimsOK

LEMMA BumpGrow ==
  ASSUME NEW gens \in [Claims -> Nat], NEW claims, NEW c \in Claims
  PROVE  /\ gens[c] \in Nat /\ Bump(gens, claims)[c] \in Nat
         /\ c \in claims => gens[c] < Bump(gens, claims)[c]
         /\ c \notin claims => Bump(gens, claims)[c] = gens[c]
  BY DEF Bump

\* The claims a worker's result reports.
Reported(t, added) == Closure[Affected[pending[t].action] \cup added]

\* The claims a result reports include those the request may write.
LEMMA ReportedClaims ==
  ASSUME NEW a \in Actions, NEW added \in SUBSET Surprises
  PROVE  /\ Closure[Affected[a] \cup added] \subseteq Claims
         /\ ClaimWrites[a] \subseteq Closure[Affected[a] \cup added]
         /\ Closure[Affected[a] \cup added] # {}
  <1>1. Affected[a] \subseteq Claims /\ added \subseteq Claims /\ Affected[a] # {}
    BY ActionTypes, PoolAssumption, ScopeAssumption
  <1>2. Closure[Affected[a]] \subseteq Closure[Affected[a] \cup added]
    BY <1>1 DEF Closure
  <1>3. QED
    BY <1>1, <1>2, ActionTypes, ClosureTypes

\* No step takes a generation back, and whatever is dirtied by a result or by
\* drift is renewed.
LEMMA GenerationsGrow ==
  ASSUME TypeOK, [Next]_vars, NEW c \in Claims
  PROVE  generations[c] \in Nat /\ generations'[c] \in Nat /\ generations[c] <= generations'[c]
  <1>1. generations[c] \in Nat /\ generations \in [Claims -> Nat]
    BY DEF TypeOK, ClaimsOK
  <1>2. ObservedGenerations \in [Claims -> Nat]
    BY ObservedTypes DEF TypeOK
  <1>3. generations[c] <= ObservedGenerations[c] /\ ObservedGenerations[c] \in Nat
    BY ObservedGrow
  <1>4. ASSUME NEW claims, generations' = Bump(ObservedGenerations, claims)
        PROVE  generations'[c] \in Nat /\ generations[c] <= generations'[c]
    BY <1>1, <1>2, <1>3, <1>4, BumpGrow
  <1>5. ASSUME InvalidateExternal
        PROVE  generations'[c] \in Nat /\ generations[c] <= generations'[c]
    BY <1>1, <1>5, BumpGrow DEF InvalidateExternal
  <1>6. CASE NextWork
    BY <1>1, <1>4, <1>6 DEF NextWork
  <1>7. ASSUME NEW t \in DOMAIN delegations, NEW result \in Results,
               NEW added \in SUBSET Surprises, FinishWork(t, result, added)
        PROVE  generations'[c] \in Nat /\ generations[c] <= generations'[c]
    BY <1>4, <1>7 DEF FinishWork
  <1>8. CASE generations' = ObservedGenerations
    BY <1>1, <1>3, <1>8
  <1>9. CASE UNCHANGED generations
    BY <1>1, <1>9
  <1>10. QED
    BY <1>1, <1>5, <1>6, <1>7, <1>8, <1>9, StepKinds
       DEF NextReview, NextWaiting, Observe, StaleReview, FailedReview, FinishReview,
           Reconcile, Revise, journal, claimState

-----------------------------------------------------------------------------
(* Requests in flight.                                                     *)

\* The requests in flight never change, and a new one is a review of a scope
\* or the work of an action on the generations it starts.
LEMMA FlightStep ==
  ASSUME TypeOK, [Next]_vars
  PROVE  /\ \A t \in Pending' \cap Pending : pending'[t] = pending[t]
         /\ \A t \in Pending' \ Pending :
              \/ /\ NextReview /\ pending'[t].kind = "review"
                 /\ \E s \in ReviewScopes : pending'[t] = ReviewRequest(s)
              \/ /\ NextWork /\ pending'[t].kind # "review"
                 /\ \E a \in Eligible : pending'[t] = WorkRequest(a, generations')
  <1>1. CASE NextReview
    <2>1. PICK s \in ReviewScopes : Dispatch(ReviewRequest(s))
      BY <1>1 DEF NextReview
    <2>2. ReviewRequest(s).kind = "review"
      BY DEF ReviewRequest
    <2>3. QED
      BY <1>1, <2>1, <2>2, DispatchStep
  <1>2. CASE NextWork
    <2>1. PICK a \in Eligible : Dispatch(WorkRequest(a, generations'))
      BY <1>2 DEF NextWork
    <2>2. WorkRequest(a, generations').kind # "review"
      BY ActionTypes DEF WorkRequest, Eligible, Kinds
    <2>3. QED
      BY <1>2, <2>1, <2>2, DispatchStep
  <1>3. ASSUME NEW t \in DOMAIN delegations, Retire(t)
        PROVE  Pending' \subseteq Pending /\ \A q \in Pending' : pending'[q] = pending[q]
    BY <1>3, RetireStep
  <1>4. CASE UNCHANGED pending
    BY <1>4 DEF Pending
  <1>5. QED
    BY <1>1, <1>2, <1>3, <1>4, StepKinds
       DEF NextWaiting, StaleReview, FailedReview, FinishReview, FinishWork,
           Reconcile, Revise, journal

LEMMA ManifestStep ==
  TypeOK /\ RequestsFollowManifest /\ [Next]_vars => RequestsFollowManifest'
  <1> SUFFICES ASSUME TypeOK, RequestsFollowManifest, [Next]_vars, NEW t \in Workers'
               PROVE  LET a == pending'[t].action IN
                        /\ pending'[t].kind = Kind[a]
                        /\ pending'[t].claimReads = ClaimReads[a]
                        /\ pending'[t].claimWrites = ClaimWrites[a]
    BY DEF RequestsFollowManifest
  <1>1. t \in Pending' /\ pending'[t].kind # "review"
    BY DEF Workers, Pending
  <1>2. CASE t \in Pending
    <2>1. pending'[t] = pending[t] /\ t \in Workers
      BY <1>1, <1>2, FlightStep DEF Workers
    <2>2. QED
      BY <2>1 DEF RequestsFollowManifest
  <1>3. CASE t \notin Pending
    <2>1. \E a \in Eligible : pending'[t] = WorkRequest(a, generations')
      BY <1>1, <1>3, FlightStep
    <2>2. QED
      BY <2>1 DEF WorkRequest
  <1>4. QED
    BY <1>2, <1>3

\* A request's claims are claims of the goal, with a generation each.
LEMMA RequestClaimTypes ==
  ASSUME TypeOK, NEW t \in Pending
  PROVE  /\ RequestClaims(t) \subseteq Claims
         /\ \A c \in RequestClaims(t) : pending[t].generations[c] \in Nat
  BY DEF RequestClaims, Pending, TypeOK, RequestsOK, RequestOK

LEMMA BehindStep == TypeOK /\ RequestsBehind /\ [Next]_vars => RequestsBehind'
  <1> SUFFICES ASSUME TypeOK, RequestsBehind, [Next]_vars,
                      NEW t \in Pending', NEW c \in RequestClaims(t)'
               PROVE  pending'[t].generations[c] <= generations'[c]
    BY DEF RequestsBehind
  <1>1. CASE t \in Pending
    <2>1. pending'[t] = pending[t]
      BY <1>1, FlightStep
    <2>2. c \in RequestClaims(t)
      BY <2>1 DEF RequestClaims
    <2>3. pending[t].generations[c] \in Nat /\ pending[t].generations[c] <= generations[c]
      BY <1>1, <2>2, RequestClaimTypes DEF RequestsBehind
    <2>4. c \in Claims
      BY <1>1, <2>2, RequestClaimTypes
    <2>5. QED
      BY <2>1, <2>3, <2>4, GenerationsGrow
  <1>2. CASE t \notin Pending
    <2>1. CASE NextReview /\ \E s \in ReviewScopes : pending'[t] = ReviewRequest(s)
      <3>1. PICK s \in ReviewScopes : pending'[t] = ReviewRequest(s)
        BY <2>1
      <3>2. c \in Ancestors[s.claims] \cup s.claims
        BY <3>1 DEF RequestClaims, ReviewRequest
      <3>3. pending'[t].generations[c] = ObservedGenerations[c]
        BY <3>1, <3>2 DEF ReviewRequest
      <3>4. generations' = ObservedGenerations /\ c \in Claims
        BY <2>1, <3>2, ScopeTypes, ClosureTypes DEF NextReview, Observe
      <3>5. QED
        BY <3>3, <3>4, ObservedGrow
    <2>2. CASE NextWork /\ \E a \in Eligible : pending'[t] = WorkRequest(a, generations')
      <3>1. PICK a \in Eligible : pending'[t] = WorkRequest(a, generations')
        BY <2>2
      <3>2. a \in Actions
        BY DEF Eligible
      <3>3. c \in ActionClaims[a] /\ c \in Claims
        BY <3>1, <3>2, ActionTypes DEF RequestClaims, WorkRequest
      <3>4. pending'[t].generations[c] = generations'[c]
        BY <3>1, <3>3 DEF WorkRequest
      <3>5. QED
        BY <3>3, <3>4, GenerationsGrow
    <2>3. QED
      BY <1>2, <2>1, <2>2, FlightStep
  <1>3. QED
    BY <1>1, <1>2

\* What is outdated stays so.
LEMMA OutdatedStays ==
  ASSUME TypeOK, [Next]_vars, NEW t \in Pending, t \in Pending', Outdated(t)
  PROVE  Outdated(t)'
  <1>1. PICK c \in RequestClaims(t) : pending[t].generations[c] < generations[c]
    BY DEF Outdated
  <1>2. pending'[t] = pending[t] /\ RequestClaims(t)' = RequestClaims(t)
    BY FlightStep DEF RequestClaims
  <1>3. c \in Claims /\ pending[t].generations[c] \in Nat
    BY RequestClaimTypes
  <1>4. pending'[t].generations[c] < generations'[c]
    BY <1>1, <1>2, <1>3, GenerationsGrow
  <1>5. QED
    BY <1>2, <1>4 DEF Outdated

-----------------------------------------------------------------------------
(* Current work rests on support.                                          *)

LEMMA SupportStep ==
  TypeOK /\ NoOverlap /\ RequestsBehind /\ CurrentWorkRestsOnSupport /\ [Next]_vars
    => CurrentWorkRestsOnSupport'
  <1> SUFFICES ASSUME TypeOK, NoOverlap, RequestsBehind, CurrentWorkRestsOnSupport, [Next]_vars,
                      NEW t \in Workers',
                      NEW c \in pending'[t].claimReads \ pending'[t].claimWrites,
                      pending'[t].generations[c] = generations'[c]
               PROVE  c \notin dirty' /\ c \in supported'
    BY DEF CurrentWorkRestsOnSupport
  <1>1. t \in Pending' /\ pending'[t].kind # "review"
    BY DEF Workers, Pending
  <1>2. CASE t \notin Pending
    <2>1. PICK a \in Eligible : pending'[t] = WorkRequest(a, generations')
      BY <1>1, <1>2, FlightStep
    <2>2. NextWork
      BY <1>1, <1>2, FlightStep
    <2>3. a \in Actions /\ ActionClaims[a] \cap dirty = {} /\ ClaimReads[a] \subseteq supported
      BY DEF Eligible, Ready
    <2>4. ~Drift
      BY DEF Eligible, ObservedGlobal
    <2>5. c \in ClaimReads[a] /\ c \notin ClaimWrites[a]
      BY <2>1 DEF WorkRequest
    <2>6. dirty' = dirty \cup ClaimWrites[a] /\ supported' = supported
      <3>1. \E b \in Eligible : /\ dirty' = ObservedDirty \cup ClaimWrites[b]
                                /\ Dispatch(WorkRequest(b, generations'))
        BY <2>2 DEF NextWork
      <3>2. PICK b \in Eligible : /\ dirty' = ObservedDirty \cup ClaimWrites[b]
                                 /\ Dispatch(WorkRequest(b, generations'))
        BY <3>1
      <3>3. pending'[t] = WorkRequest(b, generations')
        BY <1>1, <1>2, <3>2, DispatchStep
      <3>4. a = b
        BY <2>1, <3>3 DEF WorkRequest
      <3>5. QED
        BY <2>2, <2>4, <3>2, <3>4 DEF NextWork, ObservedDirty
    <2>7. QED
      BY <2>3, <2>5, <2>6, ActionTypes
  <1>3. CASE t \in Pending
    <2>1. pending'[t] = pending[t] /\ t \in Workers
      BY <1>1, <1>3, FlightStep DEF Workers
    <2>2. c \in Claims /\ pending[t].generations[c] \in Nat /\ c \in RequestClaims(t)
      BY <1>3, <2>1, RequestClaimTypes DEF RequestClaims
    <2>3. generations[c] \in Nat /\ pending[t].generations[c] <= generations[c]
      BY <1>3, <2>2, GenerationsGrow DEF RequestsBehind
    <2>4. generations'[c] = generations[c] /\ pending[t].generations[c] = generations[c]
      BY <2>1, <2>2, <2>3, GenerationsGrow
    <2>5. c \notin dirty /\ c \in supported
      BY <2>1, <2>4 DEF CurrentWorkRestsOnSupport
    <2>6. ASSUME NEW claims,
                 generations' = Bump(ObservedGenerations, claims),
                 dirty' = ObservedDirty \cup claims, UNCHANGED supported
          PROVE  c \notin dirty' /\ c \in supported'
      <3>1. ObservedGenerations \in [Claims -> Nat]
        BY ObservedTypes DEF TypeOK
      <3>2. c \notin claims /\ ~Drift
        BY <2>2, <2>4, <2>6, <3>1, ObservedGrow, BumpGrow
      <3>3. QED
        BY <2>5, <2>6, <3>2 DEF ObservedDirty
    <2>7. ASSUME generations' = ObservedGenerations
          PROVE  ~Drift
      BY <2>2, <2>4, <2>7, ObservedGrow
    <2>8. CASE NextWork
      BY <2>6, <2>8 DEF NextWork
    <2>9. ASSUME NEW q \in DOMAIN delegations, NEW result \in Results,
                 NEW added \in SUBSET Surprises, FinishWork(q, result, added)
          PROVE  c \notin dirty' /\ c \in supported'
      BY <2>6, <2>9 DEF FinishWork
    <2>10. CASE Observe /\ UNCHANGED supported
      BY <2>5, <2>7, <2>10 DEF Observe, ObservedDirty
    <2>11. ASSUME NEW q \in DOMAIN delegations, NEW v \in Verdicts(q), FinishReview(q, v)
           PROVE  c \notin dirty' /\ c \in supported'
      <3>1. q \in Pending /\ q # t
        BY <2>1, <2>11 DEF FinishReview, IsReview, Workers, Pending, TypeOK, RequestsOK
      <3>2. c \notin pending[q].claimWrites
        BY <1>3, <2>2, <3>1 DEF NoOverlap, Apart, RequestClaims
      <3>3. ~Drift
        BY <2>7, <2>11 DEF FinishReview
      <3>4. QED
        BY <2>5, <2>11, <3>2, <3>3 DEF FinishReview, SupportedAfter, DirtyAfter, ObservedDirty
    <2>12. CASE Pending = {}
      BY <1>3, <2>12
    <2>13. CASE UNCHANGED journal
      BY <2>5, <2>13 DEF journal, claimState
    <2>14. QED
      BY <2>8, <2>9, <2>10, <2>11, <2>12, <2>13, StepKinds
         DEF NextReview, NextWaiting, StaleReview, FailedReview, Reconcile, Revise
  <1>4. QED
    BY <1>2, <1>3

\* Nothing dirties or withdraws a claim a worker reads without the worker's
\* request turning stale, in any order of dispatches, results and drift.
THEOREM WorkRestsOnSupport == Spec => []CurrentWorkRestsOnSupport
  <1>1. Init => RequestsBehind /\ CurrentWorkRestsOnSupport
    BY DEF Init, RequestsBehind, CurrentWorkRestsOnSupport, Workers, Pending
  <1>2. QED
    BY <1>1, BehindStep, SupportStep, TypeCorrect, MutualExclusion, PTL DEF Spec

-----------------------------------------------------------------------------
(* Recorded outcomes.                                                      *)

\* An outcome is recorded once, by the worker that had the token; only a
\* review of it touches it later, and only to name the reviewer.
LEMMA OutcomesStep ==
  ASSUME TypeOK, [Next]_vars
  PROVE  /\ \A u \in DOMAIN units :
              /\ u \in DOMAIN units'
              /\ units'[u].action = units[u].action /\ units'[u].status = units[u].status
              /\ units'[u].claims = units[u].claims /\ units'[u].agent = units[u].agent
              /\ \/ units'[u].reviewer = units[u].reviewer
                 \/ \E t \in DOMAIN delegations :
                      /\ IsReview(t) /\ u \in pending[t].work
                      /\ \E v \in Verdicts(t) : FinishReview(t, v)
                      /\ units'[u].reviewer = delegations[t]
         /\ \A u \in DOMAIN units' \ DOMAIN units :
              /\ u \in DOMAIN delegations
              /\ units'[u].action = pending[u].action
              /\ units'[u].agent = delegations[u] /\ units'[u].reviewer = NoAgent
              /\ \E result \in Results, added \in SUBSET Surprises :
                   /\ FinishWork(u, result, added)
                   /\ units'[u].status = Accepted(u, result)
                   /\ units'[u].claims = Reported(u, added)
  <1>1. CASE UNCHANGED units
    BY <1>1
  <1>2. ASSUME NEW t \in DOMAIN delegations, NEW v \in Verdicts(t), FinishReview(t, v)
        PROVE  /\ DOMAIN units' = DOMAIN units
               /\ \A u \in DOMAIN units :
                    /\ units'[u].action = units[u].action /\ units'[u].status = units[u].status
                    /\ units'[u].claims = units[u].claims /\ units'[u].agent = units[u].agent
                    /\ \/ units'[u].reviewer = units[u].reviewer
                       \/ /\ u \in pending[t].work
                          /\ units'[u].reviewer = delegations[t]
    BY <1>2 DEF FinishReview
  <1>3. ASSUME NEW t \in DOMAIN delegations, NEW result \in Results,
               NEW added \in SUBSET Surprises, FinishWork(t, result, added)
        PROVE  LET o == [action |-> pending[t].action, status |-> Accepted(t, result),
                         claims |-> Reported(t, added),
                         agent |-> delegations[t], reviewer |-> NoAgent]
               IN  /\ t \notin DOMAIN units
                   /\ DOMAIN units' = DOMAIN units \cup {t} /\ units'[t] = o
                   /\ \A u \in DOMAIN units : units'[u] = units[u]
    <2>1. t \notin DOMAIN units
      BY DEF TypeOK, RequestsOK, UnitsOK
    <2>2. units' = Put(units, t, [action |-> pending[t].action, status |-> Accepted(t, result),
                                  claims |-> Reported(t, added),
                                  agent |-> delegations[t], reviewer |-> NoAgent])
      BY <1>3 DEF FinishWork, Reported
    <2>3. QED
      BY <2>1, <2>2 DEF Put
  <1>4. ASSUME NEW t \in DOMAIN delegations, NEW v \in Verdicts(t), FinishReview(t, v)
        PROVE  IsReview(t)
    BY <1>4 DEF FinishReview
  <1>5. CASE \E t \in DOMAIN delegations : \E v \in Verdicts(t) : FinishReview(t, v)
    <2>1. PICK t \in DOMAIN delegations : \E v \in Verdicts(t) : FinishReview(t, v)
      BY <1>5
    <2>2. QED
      BY <1>2, <1>4, <2>1
  <1>6. CASE \E t \in DOMAIN delegations, result \in Results, added \in SUBSET Surprises :
               FinishWork(t, result, added)
    <2>1. PICK t \in DOMAIN delegations, result \in Results, added \in SUBSET Surprises :
            FinishWork(t, result, added)
      BY <1>6
    <2> DEFINE o == [action |-> pending[t].action, status |-> Accepted(t, result),
                     claims |-> Reported(t, added),
                     agent |-> delegations[t], reviewer |-> NoAgent]
    <2>2. /\ t \notin DOMAIN units
          /\ DOMAIN units' = DOMAIN units \cup {t} /\ units'[t] = o
          /\ \A u \in DOMAIN units : units'[u] = units[u]
      BY <1>3, <2>1
    <2>3. \A u \in DOMAIN units' \ DOMAIN units : u = t
      BY <2>2
    <2>4. /\ t \in DOMAIN delegations /\ FinishWork(t, result, added)
          /\ units'[t].action = pending[t].action
          /\ units'[t].agent = delegations[t] /\ units'[t].reviewer = NoAgent
          /\ units'[t].status = Accepted(t, result)
          /\ units'[t].claims = Reported(t, added)
      BY <2>1, <2>2
    <2>5. QED
      BY <2>2, <2>3, <2>4
  <1>7. QED
    BY <1>1, <1>5, <1>6, StepKinds
       DEF NextReview, NextWork, NextWaiting, StaleReview, FailedReview, Reconcile, Revise, journal

-----------------------------------------------------------------------------
(* The repair budget.                                                      *)

Executed(k) ==
  {u \in DOMAIN units : /\ Kind[units[u].action] = "repair"
                        /\ AttemptOf[units[u].action] = k
                        /\ units[u].status # "not_started"}

InFlight(k) ==
  {t \in Workers : pending[t].kind = "repair" /\ AttemptOf[pending[t].action] = k}

WithinBudget(k) ==
  /\ attempts[k].cycles = Cardinality(Executed(k))
  /\ attempts[k].cycles + Cardinality(InFlight(k)) <= MaxRepairCycles
  /\ attempts[k].stopped => InFlight(k) = {}

LEMMA BudgetByAttempt == RepairBudget <=> \A k \in Attempts : WithinBudget(k)
  BY DEF RepairBudget, WithinBudget, Executed, InFlight

\* Only finitely many dispatches were made.
LEMMA FiniteCounts ==
  ASSUME TypeOK, NEW k
  PROVE  /\ IsFiniteSet(Executed(k)) /\ Cardinality(Executed(k)) \in Nat
         /\ IsFiniteSet(InFlight(k)) /\ Cardinality(InFlight(k)) \in Nat
  <1>1. IsFiniteSet(1 .. dispatches)
    BY FS_Interval, PoolAssumption DEF TypeOK, GoalOK
  <1>2. Executed(k) \subseteq 1 .. dispatches /\ InFlight(k) \subseteq 1 .. dispatches
    BY DEF Executed, InFlight, Workers, Pending, TypeOK, RequestsOK, UnitsOK
  <1>3. QED
    BY <1>1, <1>2, FS_Subset, FS_CardinalityType

\* Fewer repairs in flight and the same ones charged keep the budget.
LEMMA BudgetShrinks ==
  ASSUME TypeOK, TypeOK', NEW k \in Attempts, WithinBudget(k),
         attempts'[k].cycles = attempts[k].cycles,
         Executed(k)' = Executed(k), InFlight(k)' \subseteq InFlight(k),
         attempts'[k].stopped => attempts[k].stopped \/ InFlight(k) = {}
  PROVE  WithinBudget(k)'
  <1>1. Cardinality(InFlight(k)') <= Cardinality(InFlight(k))
    BY FS_Subset, FiniteCounts
  <1>2. /\ Cardinality(InFlight(k)) \in Nat /\ Cardinality(InFlight(k)') \in Nat
        /\ Cardinality(Executed(k)) \in Nat
    BY FiniteCounts, FS_Subset, FS_CardinalityType
  <1>3. attempts'[k].cycles + Cardinality(InFlight(k)') <= MaxRepairCycles
    BY <1>1, <1>2, PoolAssumption DEF WithinBudget
  <1>4. QED
    BY <1>3 DEF WithinBudget

\* A repair in flight is alone.
LEMMA RepairIsAlone ==
  ASSUME NoOverlap, NEW k, NEW t \in InFlight(k)
  PROVE  Pending = {t}
  BY DEF NoOverlap, Apart, InFlight, Workers

LEMMA BudgetStep ==
  ASSUME TypeOK, TypeOK', NoOverlap, RequestsFollowManifest, [Next]_vars,
         NEW k \in Attempts, WithinBudget(k)
  PROVE  WithinBudget(k)'
  <1>1. Executed(k) \subseteq Executed(k)'
    BY OutcomesStep DEF Executed
  <1>2. ASSUME DOMAIN units' = DOMAIN units PROVE Executed(k)' = Executed(k)
    BY <1>2, OutcomesStep DEF Executed
  <1>3. ASSUME Pending' \subseteq Pending PROVE InFlight(k)' \subseteq InFlight(k)
    BY <1>3, FlightStep DEF InFlight, Workers
  <1>4. CASE UNCHANGED <<attempts, pending, units>>
    <2>1. Pending' = Pending
      BY <1>4 DEF Pending
    <2>2. QED
      BY <1>2, <1>3, <1>4, <2>1, BudgetShrinks DEF WithinBudget
  <1>5. CASE NextReview
    <2>1. InFlight(k)' = InFlight(k)
      BY <1>5, ReviewDispatchStep DEF InFlight
    <2>2. QED
      BY <1>2, <1>5, <2>1, BudgetShrinks DEF NextReview, plan
  <1>6. CASE NextWork
    <2>1. PICK a \in Eligible : Dispatch(WorkRequest(a, generations'))
      BY <1>6 DEF NextWork
    <2>2. a \in Actions /\ (Kind[a] = "repair" => Pending = {} /\ ~Exhausted(AttemptOf[a]))
      BY DEF Eligible, Conflicts, Ready
    <2>3. UNCHANGED <<attempts, units>>
      BY <1>6 DEF NextWork
    <2>4. Executed(k)' = Executed(k)
      BY <1>2, <2>3
    <2>5. /\ Pending' = Pending \cup {dispatches + 1}
          /\ pending'[dispatches + 1].action = a /\ pending'[dispatches + 1].kind = Kind[a]
          /\ \A t \in Pending : pending'[t] = pending[t]
      BY <2>1, DispatchStep DEF WorkRequest
    <2>6. CASE Kind[a] = "repair" /\ AttemptOf[a] = k
      <3>1. InFlight(k)' = {dispatches + 1}
        BY <2>2, <2>5, <2>6 DEF InFlight, Workers
      <3>2. Cardinality(InFlight(k)') = 1
        BY <3>1, FS_Singleton
      <3>3. ~attempts[k].stopped /\ ~(attempts[k].cycles >= MaxRepairCycles)
        BY <2>2, <2>6 DEF Exhausted
      <3>4. attempts[k].cycles \in Nat
        BY FiniteCounts DEF WithinBudget
      <3>5. attempts'[k].cycles + Cardinality(InFlight(k)') <= MaxRepairCycles
        BY <2>3, <3>2, <3>3, <3>4, PoolAssumption
      <3>6. QED
        BY <2>3, <2>4, <3>3, <3>5 DEF WithinBudget
    <2>7. CASE ~(Kind[a] = "repair" /\ AttemptOf[a] = k)
      <3>1. InFlight(k)' \subseteq InFlight(k)
        BY <2>5, <2>7 DEF InFlight, Workers
      <3>2. QED
        BY <2>3, <2>4, <3>1, BudgetShrinks
    <2>8. QED
      BY <2>6, <2>7
  <1>7. ASSUME NEW t \in DOMAIN delegations, StaleReview(t) \/ FailedReview(t)
        PROVE  WithinBudget(k)'
    <2>1. Retire(t) /\ UNCHANGED <<attempts, units>>
      BY <1>7 DEF StaleReview, FailedReview, plan
    <2>2. Pending' \subseteq Pending
      BY <2>1, RetireStep
    <2>3. QED
      BY <1>2, <1>3, <2>1, <2>2, BudgetShrinks
  <1>8. ASSUME NEW t \in DOMAIN delegations, NEW v \in Verdicts(t), FinishReview(t, v)
        PROVE  WithinBudget(k)'
    <2>1. Retire(t) /\ DOMAIN units' = DOMAIN units
      BY <1>8 DEF FinishReview
    <2>2. Pending' \subseteq Pending /\ t \in Pending /\ t \notin Workers
      BY <1>8, <2>1, RetireStep DEF FinishReview, IsReview, Workers
    <2>3. InFlight(k) = {}
      BY <2>2, RepairIsAlone DEF InFlight
    <2>4. attempts'[k].cycles = attempts[k].cycles
      BY <1>8 DEF FinishReview
    <2>5. QED
      BY <1>2, <1>3, <2>1, <2>2, <2>3, <2>4, BudgetShrinks
  <1>9. ASSUME NEW t \in DOMAIN delegations, NEW result \in Results,
               NEW added \in SUBSET Surprises, FinishWork(t, result, added)
        PROVE  WithinBudget(k)'
    <2> DEFINE a == pending[t].action
               outcome == Accepted(t, result)
    <2>1. Retire(t) /\ t \in Workers /\ a \in Actions /\ pending[t].kind = Kind[a]
      BY <1>9 DEF FinishWork, RequestsFollowManifest, Workers, Pending, TypeOK, RequestsOK, RequestOK
    <2>2. Pending' = Pending \ {t} /\ t \notin DOMAIN units
      BY <2>1, RetireStep
    <2>3. InFlight(k)' \subseteq InFlight(k) \ {t}
      BY <1>3, <2>2 DEF InFlight, Workers
    <2>4. /\ DOMAIN units' = DOMAIN units \cup {t}
          /\ units'[t].action = a /\ units'[t].status = outcome
      <3>1. units' = Put(units, t, [action |-> a, status |-> outcome,
                                    claims |-> Closure[Affected[a] \cup added],
                                    agent |-> delegations[t], reviewer |-> NoAgent])
        BY <1>9 DEF FinishWork
      <3>2. QED
        BY <3>1 DEF Put
    <2>5. CASE Kind[a] = "repair" /\ outcome # "not_started" /\ AttemptOf[a] = k
      <3>1. Executed(k)' = Executed(k) \cup {t}
        BY <2>4, <2>5, OutcomesStep DEF Executed
      <3>2. t \notin Executed(k)
        BY <2>2 DEF Executed
      <3>3. Cardinality(Executed(k)') = Cardinality(Executed(k)) + 1
        BY <3>1, <3>2, FiniteCounts, FS_AddElement
      <3>4. t \in InFlight(k)
        BY <2>1, <2>5 DEF InFlight
      <3>5. InFlight(k) = {t} /\ InFlight(k)' = {}
        BY <2>3, <3>4, RepairIsAlone DEF InFlight, Workers
      <3>6. Cardinality(InFlight(k)) = 1 /\ Cardinality(InFlight(k)') = 0
        BY <3>5, FS_Singleton, FS_EmptySet
      <3>7. attempts'[k].cycles = attempts[k].cycles + 1
        BY <1>9, <2>1, <2>5 DEF FinishWork, Charged, TypeOK, PlanOK
      <3>8. attempts[k].cycles \in Nat
        BY FiniteCounts DEF WithinBudget
      <3>9. attempts'[k].cycles + Cardinality(InFlight(k)') <= MaxRepairCycles
        BY <3>6, <3>7, <3>8, PoolAssumption DEF WithinBudget
      <3>10. QED
        BY <3>3, <3>5, <3>7, <3>9 DEF WithinBudget
    <2>6. CASE ~(Kind[a] = "repair" /\ outcome # "not_started" /\ AttemptOf[a] = k)
      <3>1. Executed(k)' = Executed(k)
        BY <2>4, <2>6, OutcomesStep DEF Executed
      <3>2. attempts'[k] = attempts[k]
        BY <1>9, <2>1, <2>6 DEF FinishWork, TypeOK, PlanOK
      <3>3. QED
        BY <2>3, <3>1, <3>2, BudgetShrinks
    <2>7. QED
      BY <2>5, <2>6
  <1>10. QED
    BY <1>4, <1>5, <1>6, <1>7, <1>8, <1>9, StepKinds
       DEF NextWaiting, Reconcile, Revise, plan, journal

\* Repairs of an attempt, charged or in flight, never exceed its budget, and a
\* stopped attempt has none in flight: not when results, reviews that stop the
\* attempt and further dispatches arrive in any order.
THEOREM RepairsStayInBudget == Spec => []RepairBudget
  <1> DEFINE Inv == RequestsFollowManifest /\ RepairBudget
  <1>1. Init => Inv
    <2> SUFFICES ASSUME Init PROVE Inv
      OBVIOUS
    <2>1. RequestsFollowManifest
      BY DEF Init, RequestsFollowManifest, Workers, Pending
    <2>2. ASSUME NEW k \in Attempts PROVE WithinBudget(k)
      <3>1. Executed(k) = {} /\ InFlight(k) = {}
        BY DEF Init, Executed, InFlight, Workers, Pending
      <3>2. attempts[k].cycles = 0 /\ ~attempts[k].stopped
        BY DEF Init
      <3>3. QED
        BY <3>1, <3>2, FS_EmptySet, PoolAssumption DEF WithinBudget
    <2>3. QED
      BY <2>1, <2>2, BudgetByAttempt
  <1>2. TypeOK /\ TypeOK' /\ NoOverlap /\ Inv /\ [Next]_vars => Inv'
    <2> SUFFICES ASSUME TypeOK, TypeOK', NoOverlap, Inv, [Next]_vars PROVE Inv'
      OBVIOUS
    <2>1. \A k \in Attempts : WithinBudget(k)'
      BY BudgetStep, BudgetByAttempt
    <2>2. RepairBudget'
      BY <2>1 DEF RepairBudget, WithinBudget, Executed, InFlight
    <2>3. QED
      BY <2>2, ManifestStep
  <1>3. QED
    BY <1>1, <1>2, TypeCorrect, MutualExclusion, PTL DEF Spec

-----------------------------------------------------------------------------
(* Nobody reviews their own contribution.                                  *)

\* A current request is not outdated.
LEMMA CurrentIsNotOutdated ==
  ASSUME TypeOK, NEW t \in Pending, NEW completion, RequestCurrent(t, completion)
  PROVE  ~Outdated(t)
  <1>1. \A c \in RequestClaims(t) : pending[t].generations[c] = generations[c]
    BY DEF RequestCurrent, RequestClaims
  <1>2. \A c \in RequestClaims(t) : pending[t].generations[c] \in Nat
    BY RequestClaimTypes
  <1>3. QED
    BY <1>1, <1>2 DEF Outdated

\* Renewing a claim of a request outdates it.
LEMMA RenewalOutdates ==
  ASSUME TypeOK, RequestsBehind, [Next]_vars, NEW t \in Pending, t \in Pending',
         NEW c \in RequestClaims(t), generations[c] < generations'[c]
  PROVE  Outdated(t)'
  <1>1. pending'[t] = pending[t] /\ RequestClaims(t)' = RequestClaims(t)
    BY FlightStep DEF RequestClaims
  <1>2. c \in Claims /\ pending[t].generations[c] \in Nat
    BY RequestClaimTypes
  <1>3. pending[t].generations[c] <= generations[c]
    BY DEF RequestsBehind
  <1>4. pending'[t].generations[c] < generations'[c]
    BY <1>1, <1>2, <1>3, GenerationsGrow
  <1>5. QED
    BY <1>1, <1>4 DEF Outdated

\* A result renews what it reports.
LEMMA ResultRenews ==
  ASSUME TypeOK, [Next]_vars, NEW t \in DOMAIN delegations, NEW result, NEW added \in SUBSET Surprises,
         FinishWork(t, result, added),
         NEW c \in Reported(t, added)
  PROVE  c \in Claims /\ generations[c] < generations'[c]
  <1> DEFINE changed == Reported(t, added)
  <1>1. pending[t].action \in Actions
    BY DEF FinishWork, Workers, Pending, TypeOK, RequestsOK, RequestOK
  <1>2. changed \subseteq Claims
    BY <1>1, ReportedClaims DEF Reported
  <1>3. generations' = Bump(ObservedGenerations, changed)
    BY DEF FinishWork, Reported
  <1>4. ObservedGenerations \in [Claims -> Nat]
    BY ObservedTypes DEF TypeOK
  <1>5. /\ generations[c] \in Nat /\ ObservedGenerations[c] \in Nat
        /\ generations[c] <= ObservedGenerations[c]
    BY <1>2, ObservedGrow
  <1>6. ObservedGenerations[c] < generations'[c] /\ generations'[c] \in Nat
    BY <1>2, <1>3, <1>4, BumpGrow
  <1>7. QED
    BY <1>2, <1>5, <1>6

\* A binding is made once and undone by the result.
LEMMA BindingsStep ==
  ASSUME TypeOK, [Next]_vars
  PROVE  \/ \E t \in Pending \ DOMAIN delegations, a \in Agents : BindAgent(t, a)
         \/ \E t \in DOMAIN delegations : Retire(t)
         \/ UNCHANGED delegations
  <1>1. CASE Finish
    BY <1>1 DEF Finish, StaleReview, FailedReview, FinishReview, FinishWork
  <1>2. CASE \E t \in Pending, a \in Agents : BindAgent(t, a)
    BY <1>2 DEF BindAgent
  <1>3. CASE ~Finish /\ ~(\E t \in Pending, a \in Agents : BindAgent(t, a))
    BY <1>3 DEF Next, NextReview, NextWork, NextWaiting, NextRefused, StartAgent, Control,
                Reconcile, Revise, WorkerWrite, ExternalEdit, ContractEdit, vars
  <1>4. QED
    BY <1>1, <1>2, <1>3

LEMMA DistinctStep == TypeOK /\ AgentsDistinct /\ [Next]_vars => AgentsDistinct'
  <1> SUFFICES ASSUME TypeOK, AgentsDistinct, [Next]_vars PROVE AgentsDistinct'
    OBVIOUS
  <1>1. ASSUME NEW t \in Pending \ DOMAIN delegations, NEW a \in Agents, BindAgent(t, a)
        PROVE  AgentsDistinct'
    <2>1. \A u \in DOMAIN delegations : delegations[u] # a
      BY <1>1 DEF BindAgent
    <2>2. /\ DOMAIN delegations' = DOMAIN delegations \cup {t} /\ delegations'[t] = a
          /\ \A u \in DOMAIN delegations : delegations'[u] = delegations[u]
      BY <1>1 DEF BindAgent, Put
    <2>3. QED
      BY <2>1, <2>2 DEF AgentsDistinct
  <1>2. ASSUME NEW t \in DOMAIN delegations, Retire(t) PROVE AgentsDistinct'
    BY <1>2, RetireStep DEF AgentsDistinct
  <1>3. CASE UNCHANGED delegations
    BY <1>3 DEF AgentsDistinct
  <1>4. QED
    BY <1>1, <1>2, <1>3, BindingsStep

LEMMA AuthorsStep ==
  TypeOK /\ RequestsBehind /\ AuthorsExcluded /\ [Next]_vars => AuthorsExcluded'
  <1> SUFFICES ASSUME TypeOK, RequestsBehind, AuthorsExcluded, [Next]_vars,
                      NEW t \in Reviews', NEW u \in DOMAIN units'
               PROVE  /\ u \in pending'[t].work => units'[u].agent \in pending'[t].excluded
                      /\ units'[u].claims \cap pending'[t].claimWrites # {} =>
                           units'[u].agent \in pending'[t].excluded \/ Outdated(t)'
    BY DEF AuthorsExcluded
  <1>1. t \in Pending' /\ pending'[t].kind = "review"
    BY DEF Reviews, Workers, Pending
  <1>2. CASE t \notin Pending
    <2>1. NextReview /\ \E s \in ReviewScopes : pending'[t] = ReviewRequest(s)
      BY <1>1, <1>2, FlightStep
    <2>2. PICK s \in ReviewScopes : pending'[t] = ReviewRequest(s)
      BY <2>1
    <2>3. UNCHANGED units
      BY <2>1 DEF NextReview
    <2>4. /\ pending'[t].work = s.work /\ pending'[t].excluded = Excluded(s)
          /\ pending'[t].claimWrites = s.claims
      BY <2>2 DEF ReviewRequest
    <2>5. QED
      BY <2>3, <2>4 DEF Excluded
  <1>3. CASE t \in Pending /\ u \in DOMAIN units
    <2>1. pending'[t] = pending[t] /\ t \in Reviews
      BY <1>1, <1>3, FlightStep DEF Reviews, Workers
    <2>2. units'[u].agent = units[u].agent /\ units'[u].claims = units[u].claims
      BY <1>3, OutcomesStep
    <2>3. Outdated(t) => Outdated(t)'
      BY <1>1, <1>3, OutdatedStays
    <2>4. QED
      BY <1>3, <2>1, <2>2, <2>3 DEF AuthorsExcluded
  <1>4. CASE t \in Pending /\ u \notin DOMAIN units
    <2>1. pending'[t] = pending[t] /\ u \notin pending[t].work
      BY <1>1, <1>4, FlightStep DEF Pending, TypeOK, RequestsOK
    <2>2. PICK result \in Results, added \in SUBSET Surprises :
            /\ u \in DOMAIN delegations /\ FinishWork(u, result, added)
            /\ units'[u].claims = Reported(u, added)
      BY <1>4, OutcomesStep
    <2>3. ASSUME NEW c \in units'[u].claims \cap pending[t].claimWrites PROVE Outdated(t)'
      <3>1. generations[c] < generations'[c]
        BY <2>2, <2>3, ResultRenews
      <3>2. QED
        BY <1>1, <1>4, <2>3, <3>1, RenewalOutdates DEF RequestClaims
    <2>4. QED
      BY <2>1, <2>3
  <1>5. QED
    BY <1>2, <1>3, <1>4

LEMMA IndependenceStep ==
  /\ TypeOK /\ AgentsDistinct /\ AuthorsExcluded
  /\ ReviewIndependence /\ [Next]_vars
  => ReviewIndependence'
  <1> SUFFICES ASSUME TypeOK, AgentsDistinct, AuthorsExcluded, ReviewIndependence, [Next]_vars
               PROVE  ReviewIndependence'
    OBVIOUS
  <1>1. ASSUME NEW u \in DOMAIN units' PROVE units'[u].reviewer # units'[u].agent
    <2>1. CASE u \notin DOMAIN units
      <3>1. /\ u \in DOMAIN delegations
            /\ units'[u].agent = delegations[u] /\ units'[u].reviewer = NoAgent
        BY <1>1, <2>1, OutcomesStep
      <3>2. QED
        BY <3>1, PoolAssumption DEF TypeOK, RequestsOK
    <2>2. CASE u \in DOMAIN units
      <3>1. \/ units'[u].reviewer = units[u].reviewer
            \/ \E t \in DOMAIN delegations : /\ IsReview(t) /\ u \in pending[t].work
                                             /\ units'[u].reviewer = delegations[t]
        BY <2>2, OutcomesStep
      <3>2. units'[u].agent = units[u].agent
        BY <2>2, OutcomesStep
      <3>3. QED
        BY <2>2, <3>1, <3>2 DEF ReviewIndependence, IsReview
    <2>3. QED
      BY <2>1, <2>2
  <1>2. ASSUME NEW t \in DOMAIN delegations', pending'[t].kind = "review",
               NEW u \in DOMAIN units', units'[u].agent = delegations'[t]
        PROVE  u \notin pending'[t].work /\ units'[u].claims \cap pending'[t].claimWrites = {}
    <2>1. ASSUME NEW q \in Pending \ DOMAIN delegations, NEW a \in Agents, BindAgent(q, a)
          PROVE  u \notin pending'[t].work /\ units'[u].claims \cap pending'[t].claimWrites = {}
      <3>1. /\ DOMAIN delegations' = DOMAIN delegations \cup {q} /\ delegations'[q] = a
            /\ \A x \in DOMAIN delegations : delegations'[x] = delegations[x]
        BY <2>1 DEF BindAgent, Put
      <3>2. UNCHANGED <<pending, units>>
        BY <2>1 DEF BindAgent
      <3>3. CASE t = q
        <4>1. ~Outdated(t) /\ a \notin pending[t].excluded
          BY <2>1, <3>3, CurrentIsNotOutdated DEF BindAgent
        <4>2. t \in Reviews /\ units[u].agent = a
          BY <1>2, <2>1, <3>1, <3>2, <3>3 DEF Reviews, Workers
        <4>3. QED
          BY <1>2, <3>2, <4>1, <4>2 DEF AuthorsExcluded
      <3>4. CASE t # q
        BY <1>2, <3>1, <3>2, <3>4 DEF ReviewIndependence
      <3>5. QED
        BY <3>3, <3>4
    <2>2. ASSUME t \in DOMAIN delegations, delegations'[t] = delegations[t], t \in Pending'
          PROVE  u \notin pending'[t].work /\ units'[u].claims \cap pending'[t].claimWrites = {}
      <3>1. t \in Pending /\ pending'[t] = pending[t]
        BY <2>2, FlightStep DEF Pending, TypeOK, RequestsOK
      <3>2. CASE u \in DOMAIN units
        <4>1. units'[u].agent = units[u].agent /\ units'[u].claims = units[u].claims
          BY <3>2, OutcomesStep
        <4>2. QED
          BY <1>2, <2>2, <3>1, <3>2, <4>1 DEF ReviewIndependence
      <3>3. CASE u \notin DOMAIN units
        <4>1. /\ u \in DOMAIN delegations /\ units'[u].agent = delegations[u]
              /\ \E result \in Results, added \in SUBSET Surprises : FinishWork(u, result, added)
          BY <1>2, <3>3, OutcomesStep
        <4>2. u = t
          BY <1>2, <2>2, <4>1 DEF AgentsDistinct
        <4>3. pending[u].kind # "review"
          BY <4>1 DEF FinishWork, Workers
        <4>4. QED
          BY <1>2, <3>1, <4>2, <4>3
      <3>4. QED
        BY <3>2, <3>3
    <2>3. CASE UNCHANGED delegations
      <3>1. t \in Pending'
        <4>1. TypeOK'
          BY StepType
        <4>2. QED
          BY <1>2, <4>1 DEF TypeOK, RequestsOK, Pending
      <3>2. QED
        BY <1>2, <2>2, <2>3, <3>1
    <2>4. ASSUME NEW q \in DOMAIN delegations, Retire(q)
          PROVE  t \in DOMAIN delegations /\ delegations'[t] = delegations[t] /\ t \in Pending'
      BY <1>2, <2>4, RetireStep DEF TypeOK, RequestsOK, Pending
    <2>5. QED
      BY <2>1, <2>2, <2>3, <2>4, BindingsStep
  <1>3. QED
    BY <1>1, <1>2 DEF ReviewIndependence

\* Nobody reviews an outcome they recorded or claims they touched, even when
\* they finished after the review was dispatched.
THEOREM ReviewsAreIndependent == Spec => []ReviewIndependence
  <1> DEFINE Inv == /\ RequestsBehind /\ AgentsDistinct
                    /\ AuthorsExcluded /\ ReviewIndependence
  <1>1. Init => Inv
    BY DEF Init, RequestsBehind, AgentsDistinct, AuthorsExcluded, ReviewIndependence,
           Reviews, Workers, Pending
  <1>2. TypeOK /\ Inv /\ [Next]_vars => Inv'
    BY BehindStep, DistinctStep, AuthorsStep, IndependenceStep
  <1>3. QED
    BY <1>1, <1>2, TypeCorrect, PTL DEF Spec

-----------------------------------------------------------------------------
(* What stays true while reviews are in flight.                            *)

\* A review is global, alone when dispatched and called for, or of one open
\* outcome while no global review is due.
LEMMA NewReview ==
  ASSUME NEW s \in ReviewScopes
  PROVE  /\ Reviews = {}
         /\ \/ /\ s = GlobalScope /\ s.mode = "global"
               /\ Pending = {} /\ (ObservedGlobal \/ AllReviewed)
            \/ /\ ~ObservedGlobal /\ s.mode = "unit"
               /\ \E u \in Unreviewed : s.work = {u} /\ s.claims = units[u].claims
  <1>1. Reviews = {}
    BY DEF ReviewScopes
  <1>2. GlobalScope.mode = "global"
    BY DEF GlobalScope
  <1>3. \A u : /\ UnitScope(u).mode = "unit" /\ UnitScope(u).work = {u}
               /\ UnitScope(u).claims = units[u].claims
    BY DEF UnitScope
  <1>4. \A u \in Reviewable : u \in Unreviewed
    BY DEF Reviewable
  <1>5. CASE s = GlobalScope
    <2>1. \/ Pending = {} /\ (ObservedGlobal \/ AllReviewed)
          \/ ~ObservedGlobal /\ \E u \in Reviewable : s = UnitScope(u)
      <3>1. CASE ObservedGlobal
        <4>1. Pending = {}
          BY <3>1 DEF ReviewScopes
        <4>2. QED
          BY <3>1, <4>1
      <3>2. CASE ~ObservedGlobal /\ Reviewable # {}
        BY <3>2 DEF ReviewScopes
      <3>3. CASE ~ObservedGlobal /\ Reviewable = {}
        <4>1. Pending = {} /\ AllReviewed
          BY <3>3 DEF ReviewScopes
        <4>2. QED
          BY <4>1
      <3>4. QED
        BY <3>1, <3>2, <3>3
    <2>2. s.mode = "global"
      BY <1>2, <1>5
    <2>3. QED
      BY <1>1, <1>3, <1>5, <2>1, <2>2
  <1>6. CASE s # GlobalScope
    <2>1. ~ObservedGlobal /\ \E u \in Reviewable : s = UnitScope(u)
      BY <1>6 DEF ReviewScopes
    <2>2. QED
      BY <1>1, <1>3, <1>4, <2>1
  <1>7. QED
    BY <1>5, <1>6

\* A review dispatched by a step has the scope the step gave it.
LEMMA ReviewArrives ==
  ASSUME TypeOK, [Next]_vars, NEW t \in Reviews', t \notin Pending
  PROVE  /\ NextReview
         /\ \E s \in ReviewScopes : pending'[t] = ReviewRequest(s)
  BY FlightStep DEF Reviews, Workers, Pending

\* While a review is in flight no other one is dispatched or recorded and no
\* owner operation runs.
LEMMA BesideReview ==
  ASSUME TypeOK, NoOverlap, [Next]_vars, NEW t \in Reviews', t \in Pending
  PROVE  /\ t \in Reviews /\ pending'[t] = pending[t]
         /\ \/ NextWork \/ NextWaiting
            \/ \E q \in DOMAIN delegations : \E result \in Results, added \in SUBSET Surprises :
                 FinishWork(q, result, added)
            \/ UNCHANGED journal
  <1>1. t \in Pending' /\ pending'[t].kind = "review"
    BY DEF Reviews, Workers, Pending
  <1>2. t \in Reviews /\ pending'[t] = pending[t]
    BY <1>1, FlightStep DEF Reviews, Workers
  <1>3. ~NextReview
    BY <1>2, NewReview DEF NextReview
  <1>4. ASSUME NEW q \in DOMAIN delegations, IsReview(q), Retire(q) PROVE FALSE
    <2>1. q \in Pending /\ q # t
      BY <1>1, <1>4, RetireStep
    <2>2. QED
      BY <1>2, <1>4, <2>1 DEF NoOverlap, Apart, Reviews, Workers, IsReview
  <1>5. Pending # {}
    OBVIOUS
  <1>6. QED
    BY <1>2, <1>3, <1>4, <1>5, StepKinds
       DEF StaleReview, FailedReview, FinishReview, Reconcile, Revise

\* What such a step does to claims, outcomes and reconciliations.
LEMMA WorkBeside ==
  ASSUME TypeOK, NextWork \/ NextWaiting \/ UNCHANGED journal
  PROVE  /\ dirty \subseteq dirty' /\ UNCHANGED <<units, reconciliations>>
         /\ Unreviewed' = Unreviewed
  <1>1. dirty \subseteq ObservedDirty
    BY DEF ObservedDirty, TypeOK, ClaimsOK
  <1>2. UNCHANGED units
    BY DEF NextWork, NextWaiting, journal
  <1>3. UNCHANGED reconciliations
    BY DEF NextWork, NextWaiting, journal, reviewState
  <1>4. dirty \subseteq dirty'
    BY <1>1 DEF NextWork, NextWaiting, Observe, journal, claimState
  <1>5. QED
    BY <1>2, <1>3, <1>4 DEF Unreviewed

LEMMA ResultBeside ==
  ASSUME TypeOK, NEW q \in DOMAIN delegations, NEW result \in Results,
         NEW added \in SUBSET Surprises, FinishWork(q, result, added)
  PROVE  /\ dirty' = ObservedDirty \cup Reported(q, added) /\ dirty \subseteq dirty'
         /\ Reported(q, added) # {} /\ Reported(q, added) \subseteq Claims
         /\ ClaimWrites[pending[q].action] \subseteq Reported(q, added)
         /\ q \notin DOMAIN units /\ DOMAIN units' = DOMAIN units \cup {q}
         /\ \A u \in DOMAIN units : units'[u] = units[u]
         /\ units'[q].claims = Reported(q, added) /\ units'[q].reviewer = NoAgent
         /\ units'[q].action = pending[q].action
         /\ units'[q].status = Accepted(q, result)
         /\ Unreviewed' = Unreviewed \cup {q}
         /\ UNCHANGED reconciliations
  <1> DEFINE changed == Reported(q, added)
  <1>1. pending[q].action \in Actions
    BY DEF FinishWork, Workers, Pending, TypeOK, RequestsOK, RequestOK
  <1>2. /\ changed # {} /\ changed \subseteq Claims
        /\ ClaimWrites[pending[q].action] \subseteq changed
    BY <1>1, ReportedClaims DEF Reported
  <1>3. dirty' = ObservedDirty \cup changed /\ UNCHANGED reconciliations
    BY DEF FinishWork, reviewState, Reported
  <1>4. dirty \subseteq ObservedDirty
    BY DEF ObservedDirty, TypeOK, ClaimsOK
  <1>5. q \notin DOMAIN units
    BY DEF TypeOK, RequestsOK, UnitsOK
  <1>6. units' = Put(units, q, [action |-> pending[q].action, status |-> Accepted(q, result),
                                claims |-> changed, agent |-> delegations[q], reviewer |-> NoAgent])
    BY DEF FinishWork, Reported
  <1> HIDE DEF changed
  <1>7. /\ DOMAIN units' = DOMAIN units \cup {q}
        /\ \A u \in DOMAIN units : units'[u] = units[u]
        /\ units'[q].claims = changed /\ units'[q].reviewer = NoAgent
        /\ units'[q].action = pending[q].action
        /\ units'[q].status = Accepted(q, result)
    BY <1>5, <1>6 DEF Put
  <1>8. Unreviewed' = Unreviewed \cup {q}
    BY <1>7 DEF Unreviewed
  <1>9. QED
    BY <1>2, <1>3, <1>4, <1>5, <1>7, <1>8 DEF changed

\* No open outcome is closed beside the review in flight.
LEMMA OpenStays ==
  ASSUME TypeOK, NoOverlap, [Next]_vars, NEW t \in Reviews', t \in Pending, NEW u \in Unreviewed
  PROVE  u \in Unreviewed' /\ units'[u] = units[u]
  <1>1. CASE NextWork \/ NextWaiting \/ UNCHANGED journal
    BY <1>1, WorkBeside
  <1>2. ASSUME NEW q \in DOMAIN delegations, NEW result \in Results,
               NEW added \in SUBSET Surprises, FinishWork(q, result, added)
        PROVE  u \in Unreviewed' /\ units'[u] = units[u]
    BY <1>2, ResultBeside DEF Unreviewed
  <1>3. QED
    BY <1>1, <1>2, BesideReview

\* Once every required action is done and reviewed, it stays so.
LEMMA AllReviewedStays ==
  ASSUME TypeOK, RunningIsAssigned, [Next]_vars, AllReviewed
  PROVE  AllReviewed'
  <1> SUFFICES ASSUME NEW a \in Mandatory
               PROVE  status'[a] = "done" /\ a \in reviewedActions'
    BY DEF AllReviewed
  <1>1. a \in Actions /\ status[a] = "done" /\ a \in reviewedActions
    BY ConfigAssumption DEF AllReviewed
  <1>2. status'[a] = "done"
    BY <1>1, DoneStep
  <1>3. CASE Finish
    BY <1>1, <1>2, <1>3, FinishStep
  <1>4. CASE NextReview \/ NextWork
    BY <1>1, <1>2, <1>4 DEF NextReview, NextWork, reviewState
  <1>5. ASSUME NEW b \in Actions, NEW outcome \in {"done", "pending"}, Reconcile(b, outcome)
        PROVE  a \in reviewedActions'
    BY <1>1, <1>5 DEF Reconcile
  <1>6. QED
    BY <1>1, <1>2, <1>3, <1>4, <1>5, QuietStep

LEMMA TouchStep ==
  TypeOK /\ OutcomesTouchClaims /\ [Next]_vars => OutcomesTouchClaims'
  <1> SUFFICES ASSUME TypeOK, OutcomesTouchClaims, [Next]_vars, NEW u \in DOMAIN units'
               PROVE  units'[u].claims # {}
    BY DEF OutcomesTouchClaims
  <1>1. CASE u \in DOMAIN units
    BY <1>1, OutcomesStep DEF OutcomesTouchClaims
  <1>2. CASE u \notin DOMAIN units
    <2>1. PICK result \in Results, added \in SUBSET Surprises :
            /\ u \in DOMAIN delegations /\ FinishWork(u, result, added)
      BY <1>2, OutcomesStep
    <2>2. QED
      BY <2>1, ResultBeside
  <1>3. QED
    BY <1>1, <1>2

LEMMA ModesStep == TypeOK /\ NoOverlap /\ ReviewModes /\ [Next]_vars => ReviewModes'
  <1> SUFFICES ASSUME TypeOK, NoOverlap, ReviewModes, [Next]_vars, NEW t \in Reviews'
               PROVE  \/ pending'[t].mode = "global"
                      \/ /\ pending'[t].mode = "unit"
                         /\ \E u \in Unreviewed' : /\ pending'[t].work = {u}
                                                   /\ pending'[t].claimWrites = units'[u].claims
    BY DEF ReviewModes
  <1>1. CASE t \in Pending
    <2>1. pending'[t] = pending[t] /\ t \in Reviews
      BY <1>1, BesideReview
    <2>2. ASSUME NEW u \in Unreviewed PROVE u \in Unreviewed' /\ units'[u].claims = units[u].claims
      BY <1>1, <2>2, OpenStays
    <2>3. QED
      BY <2>1, <2>2 DEF ReviewModes
  <1>2. CASE t \notin Pending
    <2>1. PICK s \in ReviewScopes : pending'[t] = ReviewRequest(s)
      BY <1>2, ReviewArrives
    <2>2. /\ pending'[t].mode = s.mode /\ pending'[t].work = s.work
          /\ pending'[t].claimWrites = s.claims
      BY <2>1 DEF ReviewRequest
    <2>3. UNCHANGED units /\ Unreviewed' = Unreviewed
      BY <1>2, ReviewArrives DEF NextReview, Unreviewed
    <2>4. QED
      BY <2>2, <2>3, NewReview
  <1>3. QED
    BY <1>1, <1>2

LEMMA LateStep ==
  TypeOK /\ NoOverlap /\ RequestsBehind /\ LateOutcomes /\ [Next]_vars => LateOutcomes'
  <1> SUFFICES ASSUME TypeOK, NoOverlap, RequestsBehind, LateOutcomes, [Next]_vars,
                      NEW t \in GlobalReviews', NEW u \in Unreviewed' \ pending'[t].work
               PROVE  /\ units'[u].claims \subseteq dirty'
                      /\ units'[u].claims \cap pending'[t].claimWrites # {} => Outdated(t)'
    BY DEF LateOutcomes
  <1>1. t \in Reviews' /\ t \in Pending' /\ pending'[t].mode = "global"
    BY DEF GlobalReviews, Reviews
  <1>2. CASE t \notin Pending
    <2>1. PICK s \in ReviewScopes : pending'[t] = ReviewRequest(s)
      BY <1>1, <1>2, ReviewArrives
    <2>2. s.mode = "global" /\ pending'[t].work = s.work
      BY <1>1, <2>1 DEF ReviewRequest
    <2>3. s.work = Unreviewed
      BY <2>2, NewReview DEF GlobalScope
    <2>4. Unreviewed' = Unreviewed
      BY <1>1, <1>2, ReviewArrives DEF NextReview, Unreviewed
    <2>5. QED
      BY <2>2, <2>3, <2>4
  <1>3. CASE t \in Pending
    <2>1. t \in GlobalReviews /\ pending'[t] = pending[t]
      BY <1>1, <1>3, BesideReview DEF GlobalReviews
    <2>2. Outdated(t) => Outdated(t)'
      BY <1>1, <1>3, OutdatedStays
    <2>3. CASE NextWork \/ NextWaiting \/ UNCHANGED journal
      BY <2>1, <2>2, <2>3, WorkBeside DEF LateOutcomes
    <2>4. ASSUME NEW q \in DOMAIN delegations, NEW result \in Results,
                 NEW added \in SUBSET Surprises, FinishWork(q, result, added)
          PROVE  /\ units'[u].claims \subseteq dirty'
                 /\ units'[u].claims \cap pending'[t].claimWrites # {} => Outdated(t)'
      <3>1. CASE u = q
        <4>1. /\ units'[u].claims = Reported(q, added)
              /\ units'[u].claims \subseteq dirty'
          <5>1. /\ units'[q].claims = Reported(q, added)
                /\ dirty' = ObservedDirty \cup Reported(q, added)
            BY <2>4, ResultBeside
          <5>2. QED
            BY <3>1, <5>1
        <4>2. ASSUME NEW c \in units'[u].claims \cap pending[t].claimWrites PROVE Outdated(t)'
          <5>1. generations[c] < generations'[c]
            BY <2>4, <4>1, <4>2, ResultRenews
          <5>2. QED
            BY <1>1, <1>3, <4>2, <5>1, RenewalOutdates DEF RequestClaims
        <4>3. QED
          BY <2>1, <4>1, <4>2
      <3>2. CASE u # q
        <4>1. u \in Unreviewed /\ units'[u] = units[u] /\ dirty \subseteq dirty'
          <5>1. Unreviewed' = Unreviewed \cup {q} /\ dirty \subseteq dirty'
            BY <2>4, ResultBeside
          <5>2. u \in Unreviewed /\ u \in DOMAIN units
            BY <3>2, <5>1 DEF Unreviewed
          <5>3. units'[u] = units[u]
            BY <2>4, <5>2, ResultBeside
          <5>4. QED
            BY <5>1, <5>2, <5>3
        <4>2. QED
          BY <2>1, <2>2, <4>1 DEF LateOutcomes
      <3>3. QED
        BY <3>1, <3>2
    <2>5. QED
      BY <1>1, <1>3, <2>3, <2>4, BesideReview
  <1>4. QED
    BY <1>2, <1>3

-----------------------------------------------------------------------------
(* Dirt and the barrier.                                                   *)

\* A global review in flight after a step was there before, or takes all
\* dirty claims and all open outcomes, alone.
LEMMA GlobalArrives ==
  ASSUME TypeOK, [Next]_vars, NEW t \in GlobalReviews', t \notin Pending
  PROVE  /\ NextReview /\ (ObservedGlobal \/ AllReviewed)
         /\ pending'[t] = ReviewRequest(GlobalScope)
         /\ pending'[t].claimWrites = ObservedDirty /\ dirty' = ObservedDirty
         /\ pending'[t].work = Unreviewed
  <1>1. t \in Reviews' /\ pending'[t].mode = "global"
    BY DEF GlobalReviews
  <1>2. PICK s \in ReviewScopes : pending'[t] = ReviewRequest(s)
    BY <1>1, ReviewArrives
  <1>3. s.mode = "global"
    BY <1>1, <1>2 DEF ReviewRequest
  <1>4. s = GlobalScope /\ (ObservedGlobal \/ AllReviewed)
    BY <1>3, NewReview
  <1>5. NextReview /\ dirty' = ObservedDirty
    BY <1>1, ReviewArrives DEF NextReview, Observe
  <1>6. QED
    BY <1>2, <1>4, <1>5 DEF ReviewRequest, GlobalScope

\* Drift seen by the step outdates every review that has a claim.
LEMMA DriftOutdates ==
  ASSUME TypeOK, RequestsBehind, [Next]_vars, NEW t \in Pending, t \in Pending',
         Drift, \/ generations' = ObservedGenerations
                \/ \E claims : generations' = Bump(ObservedGenerations, claims),
         RequestClaims(t) # {}
  PROVE  Outdated(t)'
  <1>1. PICK c \in RequestClaims(t) : TRUE
    OBVIOUS
  <1>2. c \in Claims
    BY RequestClaimTypes
  <1>3. ObservedGenerations \in [Claims -> Nat]
    BY ObservedTypes DEF TypeOK
  <1>4. generations[c] < ObservedGenerations[c] /\ generations[c] \in Nat
    BY <1>2, ObservedGrow
  <1>5. generations[c] < generations'[c]
    <2>1. CASE generations' = ObservedGenerations
      BY <1>4, <2>1
    <2>2. ASSUME NEW claims, generations' = Bump(ObservedGenerations, claims)
          PROVE  generations[c] < generations'[c]
      <3>1. generations'[c] \in Nat /\ ObservedGenerations[c] <= generations'[c]
        BY <1>2, <1>3, <2>2, BumpGrow
      <3>2. QED
        BY <1>2, <1>3, <1>4, <3>1
    <2>3. QED
      BY <2>1, <2>2
  <1>6. QED
    BY <1>5, RenewalOutdates

\* A worker's result owes, as an open outcome, whatever its request owed.
LEMMA DebtPasses ==
  ASSUME TypeOK, RequestsFollowManifest, [Next]_vars,
         NEW q \in Pending, q \in Workers, q \notin Pending',
         NEW c \in pending[q].claimWrites
  PROVE  q \in Unreviewed' /\ c \in units'[q].claims
  <1>1. PICK result \in Results, added \in SUBSET Surprises :
          q \in DOMAIN delegations /\ FinishWork(q, result, added)
    <2>1. ASSUME NEW t \in DOMAIN delegations, Retire(t) PROVE t = q
      BY <2>1, RetireStep
    <2>2. Pending' # Pending
      OBVIOUS
    <2>3. ~NextReview /\ ~NextWork
      BY DispatchStep DEF NextReview, NextWork
    <2>4. ~IsReview(q)
      BY DEF IsReview, Workers
    <2>5. ASSUME UNCHANGED pending PROVE FALSE
      BY <2>2, <2>5 DEF Pending
    <2>6. ~(\E t \in DOMAIN delegations : IsReview(t) /\ Retire(t))
      BY <2>1, <2>4
    <2>7. ~(\E t \in DOMAIN delegations : StaleReview(t) \/ FailedReview(t))
      BY <2>6 DEF StaleReview, FailedReview
    <2>8. ~(\E t \in DOMAIN delegations : \E v \in Verdicts(t) : FinishReview(t, v))
      BY <2>6 DEF FinishReview
    <2>9. ~NextWaiting /\ ~Revise /\ ~UNCHANGED journal
          /\ ~(\E a \in Actions, outcome \in {"done", "pending"} : Reconcile(a, outcome))
      BY <2>5 DEF NextWaiting, Reconcile, Revise, journal
    <2>10. PICK t \in DOMAIN delegations : \E result \in Results, added \in SUBSET Surprises :
             FinishWork(t, result, added)
      BY <2>3, <2>7, <2>8, <2>9, StepKinds
    <2>11. t = q
      BY <2>1, <2>10 DEF FinishWork
    <2>12. QED
      BY <2>10, <2>11
  <1>2. pending[q].claimWrites = ClaimWrites[pending[q].action]
    BY DEF RequestsFollowManifest
  <1>3. /\ ClaimWrites[pending[q].action] \subseteq Reported(q, added)
        /\ units'[q].claims = Reported(q, added) /\ Unreviewed' = Unreviewed \cup {q}
    BY <1>1, ResultBeside
  <1>4. QED
    BY <1>2, <1>3

LEMMA DirtBesideStep ==
  /\ TypeOK /\ NoOverlap /\ RunningIsAssigned /\ RequestsFollowManifest
  /\ RequestsBehind /\ BarrierIsDirty /\ DirtBesideReview /\ [Next]_vars
  => DirtBesideReview'
  <1> DEFINE Owed(t, c) == \/ Outdated(t) \/ AllReviewed
                           \/ \E q \in Pending \ {t} : c \in pending[q].claimWrites
                           \/ \E u \in Unreviewed \ pending[t].work : c \in units[u].claims
  <1> SUFFICES ASSUME TypeOK, NoOverlap, RunningIsAssigned, RequestsFollowManifest,
                      RequestsBehind, BarrierIsDirty, DirtBesideReview, [Next]_vars,
                      NEW t \in GlobalReviews', NEW c \in dirty' \ pending'[t].claimWrites
               PROVE  Owed(t, c)'
    BY DEF DirtBesideReview
  <1>1. t \in Reviews' /\ t \in Pending'
    BY DEF GlobalReviews, Reviews
  <1>2. CASE t \notin Pending
    BY <1>2, GlobalArrives
  <1>3. CASE t \in Pending
    <2>1. /\ t \in GlobalReviews /\ pending'[t] = pending[t]
          /\ RequestClaims(t)' = RequestClaims(t)
      BY <1>1, <1>3, BesideReview DEF GlobalReviews, RequestClaims
    <2>2. Outdated(t) => Outdated(t)'
      BY <1>1, <1>3, OutdatedStays
    <2>3. AllReviewed => AllReviewed'
      BY AllReviewedStays
    <2>4. ASSUME NEW u \in Unreviewed PROVE u \in Unreviewed' /\ units'[u].claims = units[u].claims
      BY <1>1, <1>3, <2>4, OpenStays
    <2>5. CASE c \in dirty
      <3>1. Owed(t, c)
        BY <2>1, <2>5 DEF DirtBesideReview
      <3>2. CASE Outdated(t) \/ AllReviewed
        BY <2>2, <2>3, <3>2
      <3>3. ASSUME NEW q \in Pending \ {t}, c \in pending[q].claimWrites PROVE Owed(t, c)'
        <4>1. CASE q \in Pending'
          BY <3>3, <4>1, FlightStep
        <4>2. CASE q \notin Pending'
          <5>1. q \in Workers
            BY <1>1, <1>3, <2>1, <3>3 DEF NoOverlap, Apart, GlobalReviews, Reviews, Workers
          <5>2. q \in Unreviewed' /\ c \in units'[q].claims
            BY <3>3, <4>2, <5>1, DebtPasses
          <5>3. q \notin pending'[t].work
            BY <1>3, <2>1, <3>3 DEF Pending, TypeOK, RequestsOK, UnitsOK
          <5>4. QED
            BY <5>2, <5>3
        <4>3. QED
          BY <4>1, <4>2
      <3>4. ASSUME NEW u \in Unreviewed \ pending[t].work, c \in units[u].claims PROVE Owed(t, c)'
        BY <2>1, <2>4, <3>4
      <3>5. QED
        BY <3>1, <3>2, <3>3, <3>4
    <2>6. CASE c \notin dirty
      <3>1. c \in Claims
        <4>1. TypeOK'
          BY StepType
        <4>2. QED
          BY <4>1 DEF TypeOK, ClaimsOK
      <3>2. ASSUME Drift, \/ generations' = ObservedGenerations
                          \/ \E claims : generations' = Bump(ObservedGenerations, claims)
            PROVE  Owed(t, c)'
        <4>1. CASE RequestClaims(t) # {}
          BY <1>1, <1>3, <3>2, <4>1, DriftOutdates
        <4>2. CASE RequestClaims(t) = {}
          BY <2>1, <2>3, <3>1, <4>2 DEF BarrierIsDirty
        <4>3. QED
          BY <4>1, <4>2
      <3>3. CASE NextWork
        <4>1. PICK a \in Eligible : /\ generations' = Bump(ObservedGenerations, ClaimWrites[a])
                                   /\ dirty' = ObservedDirty \cup ClaimWrites[a]
                                   /\ Dispatch(WorkRequest(a, generations'))
          BY <3>3 DEF NextWork
        <4>2. CASE Drift
          BY <3>2, <4>1, <4>2
        <4>3. CASE ~Drift
          <5>1. c \in ClaimWrites[a]
            BY <2>6, <4>1, <4>3 DEF ObservedDirty
          <5>2. /\ dispatches + 1 \in Pending' \ {t}
                /\ pending'[dispatches + 1] = WorkRequest(a, generations')
            BY <1>3, <4>1, DispatchStep
          <5>3. c \in pending'[dispatches + 1].claimWrites
            BY <5>1, <5>2 DEF WorkRequest
          <5>4. QED
            BY <5>2, <5>3
        <4>4. QED
          BY <4>2, <4>3
      <3>4. CASE NextWaiting
        <4>1. generations' = ObservedGenerations /\ dirty' = ObservedDirty
          BY <3>4 DEF NextWaiting, Observe
        <4>2. Drift
          BY <2>6, <4>1 DEF ObservedDirty
        <4>3. QED
          BY <3>2, <4>1, <4>2
      <3>5. ASSUME NEW q \in DOMAIN delegations, NEW result \in Results,
                   NEW added \in SUBSET Surprises, FinishWork(q, result, added)
            PROVE  Owed(t, c)'
        <4>1. /\ dirty' = ObservedDirty \cup Reported(q, added) /\ q \notin DOMAIN units
              /\ units'[q].claims = Reported(q, added) /\ Unreviewed' = Unreviewed \cup {q}
          BY <3>5, ResultBeside
        <4>2. CASE Drift
          <5>1. generations' = Bump(ObservedGenerations, Reported(q, added))
            BY <3>5 DEF FinishWork, Reported
          <5>2. QED
            BY <3>2, <4>2, <5>1
        <4>3. CASE ~Drift
          <5>1. c \in Reported(q, added)
            BY <2>6, <4>1, <4>3 DEF ObservedDirty
          <5>2. q \notin pending'[t].work
            BY <1>3, <2>1, <4>1 DEF Pending, TypeOK, RequestsOK
          <5>3. QED
            BY <4>1, <5>1, <5>2
        <4>4. QED
          BY <4>2, <4>3
      <3>6. CASE UNCHANGED journal
        BY <2>6, <3>6 DEF journal, claimState
      <3>7. QED
        BY <1>1, <1>3, <3>3, <3>4, <3>5, <3>6, BesideReview
    <2>7. QED
      BY <2>5, <2>6
  <1>4. QED
    BY <1>2, <1>3

LEMMA BarrierStep ==
  /\ TypeOK /\ NoOverlap /\ RunningIsAssigned /\ RequestsBehind
  /\ OutcomesTouchClaims /\ ReviewModes /\ BarrierIsDirty /\ [Next]_vars
  => BarrierIsDirty'
  <1> SUFFICES ASSUME TypeOK, NoOverlap, RunningIsAssigned, RequestsBehind,
                      OutcomesTouchClaims, ReviewModes, BarrierIsDirty, [Next]_vars
               PROVE  BarrierIsDirty'
    OBVIOUS
  <1>0. dirty \subseteq ObservedDirty /\ (Drift => ObservedDirty = Claims)
        /\ (~Drift => ObservedDirty = dirty)
    BY DEF ObservedDirty, TypeOK, ClaimsOK
  <1>1. ASSUME globalReview', Claims # {} PROVE dirty' # {}
    <2>1. CASE dirty' = ObservedDirty /\ globalReview' = ObservedGlobal
      BY <1>0, <1>1, <2>1 DEF ObservedGlobal, BarrierIsDirty
    <2>2. CASE NextWork
      BY <1>1, <2>2 DEF NextWork, Eligible, ObservedGlobal
    <2>3. ASSUME NEW t \in DOMAIN delegations, NEW v \in Verdicts(t), FinishReview(t, v)
          PROVE  dirty' # {}
      <3>1. /\ ObservedGlobal /\ pending[t].mode # "global" /\ dirty' = DirtyAfter(t)
            /\ IsReview(t) /\ ReviewCurrent(t)
        BY <1>1, <2>3 DEF FinishReview
      <3>2. t \in Reviews /\ t \in Pending
        BY <3>1 DEF IsReview, Reviews, Workers, Pending, TypeOK, RequestsOK
      <3>3. pending[t].mode = "unit" /\ pending[t].claimWrites # {}
        BY <3>1, <3>2 DEF ReviewModes, OutcomesTouchClaims, Unreviewed
      <3>4. ~Outdated(t)
        BY <3>1, <3>2, CurrentIsNotOutdated DEF ReviewCurrent
      <3>5. ~Drift
        <4>1. PICK c \in pending[t].claimWrites : TRUE
          BY <3>3
        <4>2. c \in RequestClaims(t) /\ c \in Claims
          BY <3>2, RequestClaimTypes DEF RequestClaims
        <4>3. c \in DOMAIN pending[t].generations
          BY <3>2 DEF TypeOK, RequestsOK, RequestOK, Pending
        <4>4. pending[t].generations[c] = generations[c]
          BY <3>1, <4>2 DEF ReviewCurrent, RequestCurrent, RequestClaims
        <4>5. pending[t].generations[c] = ObservedGenerations[c]
          BY <3>1, <4>3 DEF ReviewCurrent
        <4>6. generations[c] \in Nat /\ (Drift => generations[c] < ObservedGenerations[c])
          BY <4>2, ObservedGrow
        <4>7. generations[c] = ObservedGenerations[c]
          BY <4>4, <4>5
        <4>8. QED
          BY <4>6, <4>7
      <3>6. globalReview
        BY <3>1, <3>5 DEF ObservedGlobal
      <3>7. ~(dirty \subseteq pending[t].claimWrites)
        BY <3>2, <3>3, <3>4, <3>6 DEF BarrierIsDirty
      <3>8. QED
        BY <1>0, <3>1, <3>5, <3>7 DEF DirtyAfter
    <2>4. ASSUME NEW t \in DOMAIN delegations, NEW result \in Results,
                 NEW added \in SUBSET Surprises, FinishWork(t, result, added)
          PROVE  dirty' # {}
      BY <2>4, ResultBeside
    <2>5. CASE InvalidateExternal
      BY <1>1, <2>5 DEF InvalidateExternal
    <2>6. CASE UNCHANGED journal
      BY <1>1, <2>6 DEF journal, claimState, BarrierIsDirty
    <2>7. QED
      BY <2>1, <2>2, <2>3, <2>4, <2>5, <2>6, StepKinds
         DEF NextReview, NextWaiting, StaleReview, FailedReview, Observe, Reconcile, Revise
  <1>2. ASSUME NEW t \in Reviews', pending'[t].mode = "unit", globalReview'
        PROVE  Outdated(t)' \/ ~(dirty' \subseteq pending'[t].claimWrites)
    <2>1. CASE t \notin Pending
      <3>1. NextReview /\ \E s \in ReviewScopes : pending'[t] = ReviewRequest(s)
        BY <2>1, ReviewArrives
      <3>2. PICK s \in ReviewScopes : pending'[t] = ReviewRequest(s)
        BY <3>1
      <3>3. s.mode = "unit"
        BY <1>2, <3>2 DEF ReviewRequest
      <3>4. ~ObservedGlobal
        BY <3>3, NewReview
      <3>5. QED
        BY <1>2, <3>1, <3>4 DEF NextReview, Observe
    <2>2. CASE t \in Pending
      <3>1. /\ t \in Reviews /\ pending'[t] = pending[t] /\ t \in Pending'
        BY <2>2, BesideReview DEF Reviews
      <3>2. Outdated(t) => Outdated(t)'
        BY <2>2, <3>1, OutdatedStays
      <3>3. RequestClaims(t) # {}
        BY <1>2, <3>1 DEF ReviewModes, OutcomesTouchClaims, RequestClaims, Unreviewed
      <3>4. globalReview => Outdated(t) \/ ~(dirty \subseteq pending[t].claimWrites)
        BY <1>2, <3>1 DEF BarrierIsDirty
      <3>5. CASE NextWork
        BY <1>2, <3>5 DEF NextWork, Eligible, ObservedGlobal
      <3>6. CASE NextWaiting
        <4>1. /\ generations' = ObservedGenerations /\ dirty' = ObservedDirty
              /\ ObservedGlobal
          BY <1>2, <3>6 DEF NextWaiting, Observe
        <4>2. CASE Drift
          BY <2>2, <3>1, <3>3, <4>1, <4>2, DriftOutdates
        <4>3. CASE ~Drift
          BY <1>0, <3>1, <3>2, <3>4, <4>1, <4>3 DEF ObservedGlobal
        <4>4. QED
          BY <4>2, <4>3
      <3>7. ASSUME NEW q \in DOMAIN delegations, NEW result \in Results,
                   NEW added \in SUBSET Surprises, FinishWork(q, result, added)
            PROVE  Outdated(t)' \/ ~(dirty' \subseteq pending'[t].claimWrites)
        <4>1. /\ dirty \subseteq dirty' /\ Reported(q, added) \subseteq dirty'
              /\ Reported(q, added) # {}
          <5>1. /\ dirty' = ObservedDirty \cup Reported(q, added) /\ dirty \subseteq dirty'
                /\ Reported(q, added) # {}
            BY <3>7, ResultBeside
          <5>2. QED
            BY <5>1
        <4>2. CASE Drift
          <5>1. generations' = Bump(ObservedGenerations, Reported(q, added))
            BY <3>7 DEF FinishWork, Reported
          <5>2. QED
            BY <2>2, <3>1, <3>3, <4>2, <5>1, DriftOutdates
        <4>3. CASE globalReview
          BY <3>1, <3>2, <3>4, <4>1, <4>3
        <4>4. ASSUME NEW c \in Reported(q, added) \cap pending[t].claimWrites
              PROVE  Outdated(t)'
          <5>1. generations[c] < generations'[c]
            BY <3>7, <4>4, ResultRenews
          <5>2. QED
            BY <2>2, <3>1, <4>4, <5>1, RenewalOutdates DEF RequestClaims
        <4>5. QED
          BY <3>1, <4>1, <4>4
      <3>8. CASE UNCHANGED journal
        BY <1>2, <3>1, <3>2, <3>4, <3>8 DEF journal, claimState
      <3>9. QED
        BY <2>2, <3>5, <3>6, <3>7, <3>8, BesideReview
    <2>3. QED
      BY <2>1, <2>2
  <1>3. ASSUME NEW t \in GlobalReviews', RequestClaims(t)' = {}
        PROVE  AllReviewed' \/ Claims = {}
    <2>1. t \in Reviews' /\ t \in Pending'
      BY DEF GlobalReviews, Reviews
    <2>2. CASE t \in Pending
      <3>1. t \in GlobalReviews /\ RequestClaims(t) = {}
        BY <1>3, <2>1, <2>2, BesideReview DEF GlobalReviews, RequestClaims
      <3>2. QED
        BY <3>1, AllReviewedStays DEF BarrierIsDirty
    <2>3. CASE t \notin Pending
      <3>1. (ObservedGlobal \/ AllReviewed) /\ ObservedDirty = {}
        BY <1>3, <2>3, GlobalArrives DEF RequestClaims
      <3>2. QED
        BY <1>0, <3>1, AllReviewedStays DEF ObservedGlobal, BarrierIsDirty
    <2>4. QED
      BY <2>2, <2>3
  <1>4. QED
    BY <1>1, <1>2, <1>3 DEF BarrierIsDirty

LEMMA TakenStep ==
  TypeOK /\ NoOverlap /\ ReconciliationsTaken /\ [Next]_vars => ReconciliationsTaken'
  <1> SUFFICES ASSUME TypeOK, NoOverlap, ReconciliationsTaken, [Next]_vars,
                      NEW t \in GlobalReviews', NEW a \in DOMAIN reconciliations',
                      ~reconciliations'[a].reviewed
               PROVE  a \in pending'[t].settles
    BY DEF ReconciliationsTaken
  <1>1. t \in Reviews' /\ pending'[t].mode = "global"
    BY DEF GlobalReviews
  <1>2. CASE t \notin Pending
    <2>1. pending'[t] = ReviewRequest(GlobalScope) /\ UNCHANGED reconciliations
      BY <1>2, GlobalArrives DEF NextReview, reviewState
    <2>2. pending'[t].settles = {b \in DOMAIN reconciliations : ~reconciliations[b].reviewed}
      BY <2>1 DEF ReviewRequest, GlobalScope
    <2>3. QED
      BY <2>1, <2>2
  <1>3. CASE t \in Pending
    <2>1. t \in GlobalReviews /\ pending'[t] = pending[t]
      BY <1>1, <1>3, BesideReview DEF GlobalReviews
    <2>2. UNCHANGED reconciliations
      BY <1>1, <1>3, BesideReview, WorkBeside, ResultBeside
    <2>3. QED
      BY <2>1, <2>2 DEF ReconciliationsTaken
  <1>4. QED
    BY <1>2, <1>3

LEMMA AccountStep ==
  TypeOK /\ RunningIsAssigned /\ DoneIsAccounted /\ [Next]_vars => DoneIsAccounted'
  <1> DEFINE Accounted(a) ==
        \/ a \in reviewedActions
        \/ \E u \in Unreviewed : units[u].action = a /\ units[u].status = "done"
        \/ /\ a \in DOMAIN reconciliations
           /\ reconciliations[a].outcome = "done" /\ ~reconciliations[a].reviewed
  <1> SUFFICES ASSUME TypeOK, RunningIsAssigned, DoneIsAccounted, [Next]_vars,
                      NEW a \in Actions, status'[a] = "done"
               PROVE  Accounted(a)'
    BY DEF DoneIsAccounted
  <1>0. status[a] = "done" => Accounted(a)
    BY DEF DoneIsAccounted
  <1>1. CASE UNCHANGED <<status, reviewedActions, reconciliations, units>>
    BY <1>0, <1>1 DEF Unreviewed
  <1>2. CASE NextWork
    <2>1. UNCHANGED <<units, reviewedActions, reconciliations>>
      BY <1>2 DEF NextWork, reviewState
    <2>2. status[a] = "done"
      BY <1>2, WorkDispatchStep DEF TypeOK, PlanOK
    <2>3. QED
      BY <1>0, <2>1, <2>2 DEF Unreviewed
  <1>3. ASSUME NEW t \in DOMAIN delegations, NEW v \in Verdicts(t), FinishReview(t, v)
        PROVE  Accounted(a)'
    <2>1. status[a] = "done" /\ Accounted(a)
      BY <1>0, <1>3 DEF FinishReview
    <2>2. /\ reviewedActions \subseteq reviewedActions'
          /\ \A u \in pending[t].work : units[u].status = "done" => units[u].action \in reviewedActions'
          /\ \A b \in pending[t].settles : reconciliations[b].outcome = "done" /\ status[b] = "done"
                                              => b \in reviewedActions'
      BY <1>3 DEF FinishReview
    <2>3. \A u \in Unreviewed \ pending[t].work :
            u \in Unreviewed' /\ units'[u].action = units[u].action /\ units'[u].status = units[u].status
      BY <1>3 DEF FinishReview, Unreviewed
    <2>4. \A b \in DOMAIN reconciliations \ pending[t].settles :
            b \in DOMAIN reconciliations' /\ reconciliations'[b] = reconciliations[b]
      BY <1>3 DEF FinishReview
    <2>5. QED
      BY <2>1, <2>2, <2>3, <2>4
  <1>4. ASSUME NEW t \in DOMAIN delegations, NEW result \in Results,
               NEW added \in SUBSET Surprises, FinishWork(t, result, added)
        PROVE  Accounted(a)'
    <2>1. /\ units'[t].action = pending[t].action /\ units'[t].status = Accepted(t, result)
          /\ t \in Unreviewed'
          /\ \A u \in Unreviewed : u \in Unreviewed' /\ units'[u] = units[u]
      BY <1>4, ResultBeside DEF Unreviewed
    <2>2. UNCHANGED <<reviewedActions, reconciliations>>
      BY <1>4 DEF FinishWork, reviewState
    <2>3. status' = [status EXCEPT ![pending[t].action] = StatusAfter(Accepted(t, result))]
      BY <1>4 DEF FinishWork
    <2>4. CASE a = pending[t].action
      <3>1. StatusAfter(Accepted(t, result)) = "done"
        BY <2>3, <2>4 DEF TypeOK, PlanOK
      <3>2. Accepted(t, result) = "done"
        BY <3>1 DEF StatusAfter
      <3>3. QED
        BY <2>1, <2>4, <3>2
    <2>5. CASE a # pending[t].action
      <3>1. status[a] = "done"
        BY <2>3, <2>5 DEF TypeOK, PlanOK
      <3>2. QED
        BY <1>0, <2>1, <2>2, <3>1
    <2>6. QED
      BY <2>4, <2>5
  <1>5. ASSUME NEW b \in Actions, NEW outcome \in {"done", "pending"}, Reconcile(b, outcome)
        PROVE  Accounted(a)'
    <2>1. /\ status' = [status EXCEPT ![b] = outcome] /\ UNCHANGED units
          /\ reconciliations' = Put(reconciliations, b, [outcome |-> outcome, reviewed |-> FALSE])
          /\ reviewedActions' = reviewedActions \ {b}
      BY <1>5 DEF Reconcile
    <2>2. CASE a = b
      <3>1. outcome = "done"
        BY <2>1, <2>2 DEF TypeOK, PlanOK
      <3>2. QED
        BY <2>1, <2>2, <3>1 DEF Put
    <2>3. CASE a # b
      <3>1. status[a] = "done"
        BY <2>1, <2>3 DEF TypeOK, PlanOK
      <3>2. QED
        BY <1>0, <2>1, <2>3, <3>1 DEF Put, Unreviewed
    <2>4. QED
      BY <2>2, <2>3
  <1>6. QED
    BY <1>1, <1>2, <1>3, <1>4, <1>5, StepKinds
       DEF NextReview, NextWaiting, StaleReview, FailedReview, Revise, plan, reviewState, journal

LEMMA DueStep ==
  /\ TypeOK /\ NoOverlap /\ RunningIsAssigned /\ GlobalIsDue /\ [Next]_vars
  => GlobalIsDue'
  <1> SUFFICES ASSUME TypeOK, NoOverlap, RunningIsAssigned, GlobalIsDue, [Next]_vars,
                      NEW t \in GlobalReviews'
               PROVE  globalReview' \/ AllReviewed'
    BY DEF GlobalIsDue
  <1>1. AllReviewed => AllReviewed'
    BY AllReviewedStays
  <1>2. t \in Reviews'
    BY DEF GlobalReviews
  <1>3. CASE t \notin Pending
    BY <1>1, <1>3, GlobalArrives DEF NextReview, Observe
  <1>4. CASE t \in Pending
    <2>1. globalReview \/ AllReviewed
      BY <1>2, <1>4, BesideReview DEF GlobalIsDue, GlobalReviews
    <2>2. globalReview => globalReview'
      BY <1>2, <1>4, BesideReview
         DEF NextWork, NextWaiting, Observe, ObservedGlobal, FinishWork, journal
    <2>3. QED
      BY <1>1, <2>1, <2>2
  <1>5. QED
    BY <1>3, <1>4

-----------------------------------------------------------------------------
(* No dirty claim is forgotten, and completion is earned.                  *)

\* A review that is accepted was not outdated, and drift can only have been
\* seen beside it if it looks at no claim.
LEMMA AcceptedReview ==
  ASSUME TypeOK, NEW t \in DOMAIN delegations, IsReview(t), ReviewCurrent(t)
  PROVE  /\ t \in Pending /\ t \in Reviews /\ ~Outdated(t)
         /\ Drift => RequestClaims(t) = {}
  <1>1. t \in Pending /\ t \in Reviews
    BY DEF IsReview, Reviews, Workers, Pending, TypeOK, RequestsOK
  <1>2. ~Outdated(t)
    BY <1>1, CurrentIsNotOutdated DEF ReviewCurrent
  <1>3. ASSUME Drift, NEW c \in RequestClaims(t) PROVE FALSE
    <2>1. c \in Claims /\ c \in DOMAIN pending[t].generations
      BY <1>1, <1>3, RequestClaimTypes DEF RequestClaims, TypeOK, RequestsOK, RequestOK, Pending
    <2>2. pending[t].generations[c] = generations[c]
      BY <1>3 DEF ReviewCurrent, RequestCurrent, RequestClaims
    <2>3. pending[t].generations[c] = ObservedGenerations[c]
      BY <2>1 DEF ReviewCurrent
    <2>4. generations[c] \in Nat /\ generations[c] < ObservedGenerations[c]
      BY <1>3, <2>1, ObservedGrow
    <2>5. QED
      BY <2>2, <2>3, <2>4
  <1>4. QED
    BY <1>1, <1>2, <1>3

LEMMA ReviewRecords ==
  ASSUME NEW t \in DOMAIN delegations, NEW v \in Verdicts(t), FinishReview(t, v)
  PROVE  /\ IsReview(t) /\ ReviewCurrent(t) /\ Retire(t)
         /\ dirty' = ObservedDirty \ pending[t].claimWrites
         /\ globalReview' = (ObservedGlobal /\ pending[t].mode # "global")
         /\ \A u \in Unreviewed \ pending[t].work : u \in Unreviewed' /\ units'[u] = units[u]
         /\ DOMAIN units' = DOMAIN units
         /\ \A u \in pending[t].work \cap DOMAIN units : units'[u].reviewer = delegations[t]
  <1>1. /\ IsReview(t) /\ ReviewCurrent(t) /\ Retire(t)
        /\ dirty' = ObservedDirty \ pending[t].claimWrites
        /\ globalReview' = (ObservedGlobal /\ pending[t].mode # "global")
    BY DEF FinishReview, DirtyAfter
  <1>2. DOMAIN units' = DOMAIN units /\ \A u \in DOMAIN units \ pending[t].work : units'[u] = units[u]
    BY DEF FinishReview
  <1>3. \A u \in pending[t].work \cap DOMAIN units : units'[u].reviewer = delegations[t]
    BY DEF FinishReview
  <1>4. QED
    BY <1>1, <1>2, <1>3 DEF Unreviewed

Owed(c) ==
  \/ globalReview \/ AllReviewed
  \/ \E t \in Pending : c \in pending[t].claimWrites
  \/ \E u \in Unreviewed : c \in units[u].claims

\* A debt of somebody other than the request that retires is still there.
LEMMA DebtStays ==
  ASSUME TypeOK, RunningIsAssigned, [Next]_vars, NEW t \in DOMAIN delegations, Retire(t), NEW c,
         \/ AllReviewed
         \/ \E q \in Pending \ {t} : c \in pending[q].claimWrites
         \/ \E u \in Unreviewed : /\ c \in units[u].claims
                                  /\ u \in Unreviewed' /\ units'[u] = units[u]
  PROVE  Owed(c)'
  <1>1. AllReviewed => AllReviewed'
    BY AllReviewedStays
  <1>2. \A q \in Pending \ {t} : q \in Pending' /\ pending'[q] = pending[q]
    BY RetireStep
  <1>3. QED
    BY <1>1, <1>2 DEF Owed

LEMMA DirtStep ==
  /\ TypeOK /\ NoOverlap /\ RunningIsAssigned /\ RequestsFollowManifest
  /\ ReviewModes /\ GlobalIsDue /\ BarrierIsDirty /\ DirtBesideReview
  /\ DirtIsOwed /\ [Next]_vars
  => DirtIsOwed'
  <1> SUFFICES ASSUME TypeOK, NoOverlap, RunningIsAssigned, RequestsFollowManifest,
                      ReviewModes, GlobalIsDue, BarrierIsDirty, DirtBesideReview,
                      DirtIsOwed, [Next]_vars, NEW c \in dirty'
               PROVE  Owed(c)'
    BY DEF DirtIsOwed, Owed
  <1>0. AllReviewed => AllReviewed'
    BY AllReviewedStays
  <1>1. c \in dirty => Owed(c)
    BY DEF DirtIsOwed, Owed
  <1>2. Drift \/ ObservedDirty = dirty
    BY DEF ObservedDirty
  <1>3. CASE UNCHANGED <<dirty, globalReview, pending, units>>
    BY <1>0, <1>1, <1>3 DEF Unreviewed, Pending, Owed
  <1>4. CASE NextReview \/ NextWaiting
    <2>1. /\ dirty' = ObservedDirty /\ globalReview' = ObservedGlobal /\ UNCHANGED units
          /\ UNCHANGED pending \/ \E s \in ReviewScopes : Dispatch(ReviewRequest(s))
      BY <1>4 DEF NextReview, NextWaiting, Observe
    <2>2. \A t \in Pending : t \in Pending' /\ pending'[t] = pending[t]
      BY <2>1, DispatchStep DEF Pending
    <2>3. (Drift \/ globalReview) => globalReview'
      BY <2>1 DEF ObservedGlobal
    <2>4. CASE Drift
      BY <2>3, <2>4 DEF Owed
    <2>5. CASE ~Drift
      BY <1>0, <1>1, <1>2, <2>1, <2>2, <2>3, <2>5 DEF Unreviewed, Owed
    <2>6. QED
      BY <2>4, <2>5
  <1>5. CASE NextWork
    <2>1. PICK a \in Eligible : /\ dirty' = ObservedDirty \cup ClaimWrites[a]
                               /\ Dispatch(WorkRequest(a, generations'))
      BY <1>5 DEF NextWork
    <2>2. ~Drift /\ UNCHANGED <<globalReview, units>>
      BY <1>5 DEF NextWork, Eligible, ObservedGlobal
    <2>3. /\ \A t \in Pending : t \in Pending' /\ pending'[t] = pending[t]
          /\ dispatches + 1 \in Pending'
          /\ pending'[dispatches + 1] = WorkRequest(a, generations')
      BY <2>1, DispatchStep
    <2>4. pending'[dispatches + 1].claimWrites = ClaimWrites[a]
      BY <2>3 DEF WorkRequest
    <2>5. CASE c \in ClaimWrites[a]
      BY <2>3, <2>4, <2>5 DEF Owed
    <2>6. CASE c \in dirty
      BY <1>0, <1>1, <2>2, <2>3, <2>6 DEF Unreviewed, Owed
    <2>7. QED
      BY <1>2, <2>1, <2>2, <2>5, <2>6
  <1>6. ASSUME NEW t \in DOMAIN delegations, StaleReview(t) \/ FailedReview(t)
        PROVE  Owed(c)'
    <2>1. /\ Retire(t) /\ IsReview(t) /\ UNCHANGED units
          /\ dirty' = ObservedDirty /\ globalReview' = ObservedGlobal
      BY <1>6 DEF StaleReview, FailedReview, Observe
    <2>2. t \in Reviews
      BY <2>1 DEF IsReview, Reviews, Workers, Pending, TypeOK, RequestsOK
    <2>3. \A u \in Unreviewed : u \in Unreviewed' /\ units'[u] = units[u]
      BY <2>1 DEF Unreviewed
    <2>4. CASE Drift \/ globalReview
      BY <2>1, <2>4 DEF Owed, ObservedGlobal
    <2>5. CASE ~Drift /\ ~globalReview
      <3>1. c \in dirty
        BY <1>2, <2>1, <2>5
      <3>2. Owed(c)
        BY <1>1, <3>1
      <3>3. CASE c \in pending[t].claimWrites
        <4>1. AllReviewed \/ \E u \in Unreviewed : c \in units[u].claims
          BY <2>2, <2>5, <3>3 DEF ReviewModes, GlobalIsDue, GlobalReviews
        <4>2. QED
          BY <2>1, <2>3, <4>1, DebtStays
      <3>4. CASE c \notin pending[t].claimWrites
        BY <2>1, <2>3, <2>5, <3>2, <3>4, DebtStays DEF Owed
      <3>5. QED
        BY <3>3, <3>4
    <2>6. QED
      BY <2>4, <2>5
  <1>7. ASSUME NEW t \in DOMAIN delegations, NEW v \in Verdicts(t), FinishReview(t, v)
        PROVE  Owed(c)'
    <2>1. /\ IsReview(t) /\ ReviewCurrent(t) /\ Retire(t)
          /\ c \in ObservedDirty /\ c \notin pending[t].claimWrites
          /\ globalReview' = (ObservedGlobal /\ pending[t].mode # "global")
          /\ \A u \in Unreviewed \ pending[t].work : u \in Unreviewed' /\ units'[u] = units[u]
      BY <1>7, ReviewRecords
    <2>2. /\ t \in Reviews /\ ~Outdated(t) /\ c \in Claims
          /\ Drift => RequestClaims(t) = {}
      BY <2>1, AcceptedReview, ObservedTypes DEF TypeOK
    <2>3. CASE pending[t].mode = "global"
      <3>1. t \in GlobalReviews
        BY <2>2, <2>3 DEF GlobalReviews
      <3>2. CASE Drift
        <4>1. AllReviewed
          BY <2>2, <3>1, <3>2 DEF BarrierIsDirty
        <4>2. QED
          BY <2>1, <4>1, DebtStays
      <3>3. CASE ~Drift
        <4>1. c \in dirty \ pending[t].claimWrites
          BY <1>2, <2>1, <3>3
        <4>2. \/ AllReviewed
              \/ \E q \in Pending \ {t} : c \in pending[q].claimWrites
              \/ \E u \in Unreviewed \ pending[t].work : c \in units[u].claims
          BY <2>2, <3>1, <4>1 DEF DirtBesideReview
        <4>3. QED
          BY <2>1, <4>2, DebtStays
      <3>4. QED
        BY <3>2, <3>3
    <2>4. CASE pending[t].mode # "global"
      <3>1. PICK w \in Unreviewed : pending[t].work = {w} /\ pending[t].claimWrites = units[w].claims
        BY <2>2, <2>4 DEF ReviewModes
      <3>2. CASE Drift \/ globalReview
        BY <2>1, <2>4, <3>2 DEF Owed, ObservedGlobal
      <3>3. CASE ~Drift /\ ~globalReview
        <4>1. Owed(c)
          BY <1>1, <1>2, <2>1, <3>3
        <4>2. \A u \in Unreviewed : c \in units[u].claims => u \notin pending[t].work
          BY <2>1, <3>1
        <4>3. \/ AllReviewed
              \/ \E q \in Pending \ {t} : c \in pending[q].claimWrites
              \/ \E u \in Unreviewed : /\ c \in units[u].claims
                                       /\ u \in Unreviewed' /\ units'[u] = units[u]
          BY <2>1, <3>3, <4>1, <4>2 DEF Owed
        <4>4. QED
          BY <2>1, <4>3, DebtStays
      <3>4. QED
        BY <3>2, <3>3
    <2>5. QED
      BY <2>3, <2>4
  <1>8. ASSUME NEW t \in DOMAIN delegations, NEW result \in Results,
               NEW added \in SUBSET Surprises, FinishWork(t, result, added)
        PROVE  Owed(c)'
    <2>1. /\ dirty' = ObservedDirty \cup Reported(t, added)
          /\ units'[t].claims = Reported(t, added) /\ Unreviewed' = Unreviewed \cup {t}
          /\ ClaimWrites[pending[t].action] \subseteq Reported(t, added)
          /\ \A u \in DOMAIN units : units'[u] = units[u]
      BY <1>8, ResultBeside
    <2>2. (Drift \/ globalReview) => globalReview'
      BY <1>8 DEF FinishWork, ObservedGlobal
    <2>3. \A u \in Unreviewed : u \in Unreviewed' /\ units'[u] = units[u]
      BY <2>1 DEF Unreviewed
    <2>4. Retire(t) /\ t \in Workers
      BY <1>8 DEF FinishWork
    <2>5. pending[t].claimWrites = ClaimWrites[pending[t].action]
      BY <2>4 DEF RequestsFollowManifest
    <2>6. CASE Drift \/ globalReview
      BY <2>2, <2>6 DEF Owed
    <2>7. CASE c \in Reported(t, added)
      BY <2>1, <2>7 DEF Owed
    <2>8. CASE ~Drift /\ ~globalReview /\ c \notin Reported(t, added)
      <3>1. Owed(c)
        BY <1>1, <1>2, <2>1, <2>8
      <3>2. c \notin pending[t].claimWrites
        BY <2>1, <2>5, <2>8
      <3>3. QED
        BY <2>3, <2>4, <2>8, <3>1, <3>2, DebtStays DEF Owed
    <2>9. QED
      BY <2>6, <2>7, <2>8
  <1>9. CASE InvalidateExternal
    BY <1>9 DEF InvalidateExternal, Owed
  <1>10. QED
    BY <1>3, <1>4, <1>5, <1>6, <1>7, <1>8, <1>9, StepKinds
       DEF Reconcile, Revise, journal, claimState

LEMMA EarnedStep ==
  /\ TypeOK /\ TypeOK' /\ RunningIsAssigned /\ OutcomesTouchClaims
  /\ LateOutcomes /\ ReconciliationsTaken /\ DoneIsAccounted'
  /\ CompletionIsEarned /\ [Next]_vars
  => CompletionIsEarned'
  <1> SUFFICES ASSUME TypeOK, TypeOK', RunningIsAssigned, OutcomesTouchClaims,
                      LateOutcomes, ReconciliationsTaken, DoneIsAccounted',
                      CompletionIsEarned, [Next]_vars, complete'
               PROVE  CompletionIsEarned'
    BY DEF CompletionIsEarned
  <1>1. complete => DOMAIN delegations = {}
    BY DEF CompletionIsEarned, Pending, TypeOK, RequestsOK
  <1>2. CASE UNCHANGED journal
    BY <1>2 DEF journal, claimState, plan, reviewState, CompletionIsEarned,
                Pending, Unreviewed, AllReviewed
  <1>3. CASE NextReview \/ NextWork \/ NextWaiting
    BY <1>3 DEF NextReview, NextWork, NextWaiting, Asked, Observe, Eligible, ObservedGlobal
  <1>4. CASE InvalidateExternal
    BY <1>4 DEF InvalidateExternal
  <1>5. ASSUME NEW t \in DOMAIN delegations, StaleReview(t) \/ FailedReview(t) PROVE FALSE
    BY <1>1, <1>5 DEF StaleReview, FailedReview, Observe
  <1>6. ASSUME NEW t \in DOMAIN delegations, NEW result \in Results,
               NEW added \in SUBSET Surprises, FinishWork(t, result, added)
        PROVE  FALSE
    BY <1>6 DEF FinishWork
  <1>7. ASSUME NEW t \in DOMAIN delegations, NEW v \in Verdicts(t), FinishReview(t, v)
        PROVE  CompletionIsEarned'
    <2>1. v.met /\ Acceptable(t, v)
      BY <1>1, <1>7 DEF FinishReview
    <2>2. /\ pending[t].mode = "global" /\ Pending = {t}
          /\ HoldsAfter(v) = {} /\ FindingsAfter(v) = {} /\ DirtyAfter(t) = {}
          /\ \A a \in Mandatory : status[a] = "done"
      BY <2>1 DEF Acceptable
    <2>3. /\ IsReview(t) /\ ReviewCurrent(t) /\ Retire(t)
          /\ holds' = HoldsAfter(v) /\ findings' = FindingsAfter(v) /\ dirty' = DirtyAfter(t)
          /\ UNCHANGED status
          /\ globalReview' = (ObservedGlobal /\ pending[t].mode # "global")
          /\ reconciliations' = [a \in DOMAIN reconciliations |->
               IF a \in pending[t].settles
               THEN [reconciliations[a] EXCEPT !.reviewed = TRUE] ELSE reconciliations[a]]
      BY <1>7 DEF FinishReview
    <2>4. t \in GlobalReviews /\ ~Outdated(t)
      BY <2>2, <2>3, AcceptedReview DEF GlobalReviews
    <2>5. Pending' = {}
      BY <2>2, <2>3, RetireStep
    <2>6. Unreviewed \subseteq pending[t].work
      <3> SUFFICES ASSUME NEW u \in Unreviewed \ pending[t].work PROVE FALSE
        OBVIOUS
      <3>1. units[u].claims \subseteq dirty /\ units[u].claims # {}
        BY <2>4 DEF LateOutcomes, OutcomesTouchClaims, Unreviewed
      <3>2. dirty \subseteq pending[t].claimWrites
        BY <2>2 DEF DirtyAfter, ObservedDirty, TypeOK, ClaimsOK
      <3>3. Outdated(t)
        BY <2>4, <3>1, <3>2 DEF LateOutcomes
      <3>4. QED
        BY <2>4, <3>3
    <2>7. Unreviewed' = {}
      <3>1. /\ DOMAIN units' = DOMAIN units /\ delegations[t] # NoAgent
            /\ \A u \in pending[t].work \cap DOMAIN units : units'[u].reviewer = delegations[t]
        BY <1>7, ReviewRecords, PoolAssumption DEF TypeOK, RequestsOK
      <3>2. \A u \in DOMAIN units \ pending[t].work : units'[u] = units[u]
        BY <1>7 DEF FinishReview
      <3>3. QED
        BY <2>6, <3>1, <3>2 DEF Unreviewed
    <2>8. \A a \in DOMAIN reconciliations' : reconciliations'[a].reviewed
      BY <2>3, <2>4 DEF ReconciliationsTaken
    <2>9. AllReviewed'
      <3> SUFFICES ASSUME NEW a \in Mandatory
                   PROVE  status'[a] = "done" /\ a \in reviewedActions'
        BY DEF AllReviewed
      <3>1. a \in Actions /\ status'[a] = "done"
        BY <2>2, <2>3, ConfigAssumption
      <3>2. QED
        BY <2>7, <2>8, <3>1 DEF DoneIsAccounted
    <2>10. holds' = {} /\ findings' = {} /\ dirty' = {} /\ ~globalReview'
      BY <2>2, <2>3
    <2>11. QED
      BY <2>5, <2>7, <2>8, <2>9, <2>10 DEF CompletionIsEarned
  <1>8. QED
    BY <1>2, <1>3, <1>4, <1>5, <1>6, <1>7, StepKinds DEF Reconcile, Revise

\* What holds besides NoOverlap and RunningIsAssigned whatever reviews, results
\* and drift arrive, and carries both theorems.
ReviewInvariant ==
  /\ RequestsFollowManifest /\ RequestsBehind /\ OutcomesTouchClaims /\ ReviewModes
  /\ GlobalIsDue /\ BarrierIsDirty /\ DirtBesideReview /\ LateOutcomes
  /\ ReconciliationsTaken /\ DoneIsAccounted

LEMMA ReviewInvariantInit == Init => ReviewInvariant
  <1> SUFFICES ASSUME Init PROVE ReviewInvariant
    OBVIOUS
  <1>1. DOMAIN pending = {} /\ DOMAIN units = {}
    BY DEF Init
  <1>2. Pending = {} /\ Workers = {} /\ Reviews = {} /\ GlobalReviews = {}
    BY <1>1 DEF Pending, Workers, Reviews, GlobalReviews
  <1>3. \A a \in Actions : status[a] # "done"
    BY DEF Init
  <1>4. BarrierIsDirty
    BY <1>2 DEF Init, BarrierIsDirty
  <1>5. QED
    BY <1>1, <1>2, <1>3, <1>4
       DEF ReviewInvariant, RequestsFollowManifest, RequestsBehind, OutcomesTouchClaims,
           ReviewModes, GlobalIsDue, DirtBesideReview, LateOutcomes,
           ReconciliationsTaken, DoneIsAccounted

LEMMA ReviewInvariantStep ==
  TypeOK /\ NoOverlap /\ RunningIsAssigned /\ ReviewInvariant /\ [Next]_vars
    => ReviewInvariant'
  BY ManifestStep, BehindStep, TouchStep, ModesStep, DueStep, BarrierStep, DirtBesideStep,
     LateStep, TakenStep, AccountStep DEF ReviewInvariant

LEMMA ReviewInvariantHolds == Spec => []ReviewInvariant
  BY ReviewInvariantInit, ReviewInvariantStep, TypeCorrect, MutualExclusion,
     OneWorkerPerAction, PTL DEF Spec

\* No dirty claim is ever forgotten: in every order of reviews, results, drift
\* and owner operations somebody still owes it an answer.
THEOREM NoDirtForgotten == Spec => []DirtIsOwed
  <1>1. Init => DirtIsOwed
    BY DEF Init, DirtIsOwed
  <1>2. TypeOK /\ NoOverlap /\ RunningIsAssigned /\ ReviewInvariant
          /\ DirtIsOwed /\ [Next]_vars => DirtIsOwed'
    BY DirtStep DEF ReviewInvariant
  <1>3. QED
    BY <1>1, <1>2, ReviewInvariantHolds, TypeCorrect, MutualExclusion,
       OneWorkerPerAction, PTL DEF Spec

\* A goal is complete only when nothing is in flight, dirty, held or open: the
\* final review cannot overlook an outcome recorded beside it.
THEOREM CompletionEarned == Spec => []CompletionIsEarned
  <1>1. Init => CompletionIsEarned
    BY DEF Init, CompletionIsEarned
  <1>2. /\ TypeOK /\ TypeOK' /\ RunningIsAssigned
        /\ ReviewInvariant /\ ReviewInvariant' /\ CompletionIsEarned /\ [Next]_vars
        => CompletionIsEarned'
    BY EarnedStep DEF ReviewInvariant
  <1>3. QED
    BY <1>1, <1>2, ReviewInvariantHolds, TypeCorrect, OneWorkerPerAction, PTL DEF Spec
=============================================================================
