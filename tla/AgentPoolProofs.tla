-------------------------- MODULE AgentPoolProofs ---------------------------
(***************************************************************************)
(* What AgentPool guarantees for every goal, every number of agents and    *)
(* every bound: types, mutual exclusion of the requests in flight, the     *)
(* leases they implement, and the order and finality of work.              *)
(***************************************************************************)
EXTENDS AgentPool, TLAPS

-----------------------------------------------------------------------------
(* The manifest.                                                           *)

\* Closures are sets of claims that hold their seed.
LEMMA ClosureTypes ==
  /\ \A S \in SUBSET Claims : Closure[S] \in SUBSET Claims /\ S \subseteq Closure[S]
  /\ \A S \in SUBSET Claims : Ancestors[S] \in SUBSET Claims
  BY DEF Closure, Ancestors

\* The scopes of an action are evidence files and claims of the goal.
LEMMA ActionTypes ==
  ASSUME NEW a \in Actions
  PROVE  /\ Reads[a] \subseteq Paths /\ Writes[a] \subseteq Paths
         /\ Scope[a] = Reads[a] \cup Writes[a] /\ Scope[a] \subseteq Paths
         /\ Affected[a] \subseteq Claims /\ Required[a] \subseteq Claims
         /\ ClaimWrites[a] = Closure[Affected[a]] /\ ClaimWrites[a] \subseteq Claims
         /\ ClaimReads[a] = Ancestors[Required[a]] /\ ClaimReads[a] \subseteq Claims
         /\ ActionClaims[a] = ClaimReads[a] \cup ClaimWrites[a]
         /\ Kind[a] \in Kinds
  BY ConfigAssumption, ClosureTypes DEF Scope, ClaimWrites, ClaimReads, ActionClaims

-----------------------------------------------------------------------------
(* Updates of a function at one point.                                     *)

LEMMA PutIsFunction ==
  ASSUME NEW f, NEW k, NEW v
  PROVE  /\ DOMAIN Put(f, k, v) = DOMAIN f \cup {k}
         /\ Put(f, k, v)[k] = v
         /\ \A x \in DOMAIN f : x # k => Put(f, k, v)[x] = f[x]
  BY DEF Put

LEMMA WithoutIsFunction ==
  ASSUME NEW f, NEW k
  PROVE  /\ DOMAIN Without(f, k) = DOMAIN f \ {k}
         /\ \A x \in DOMAIN f \ {k} : Without(f, k)[x] = f[x]
  BY DEF Without, Restrict

-----------------------------------------------------------------------------
(* What the scheduler builds has the type it stores.                       *)

LEMMA ObservedTypes ==
  ASSUME GoalOK, ClaimsOK, PlanOK
  PROVE  /\ ObservedGenerations \in [Claims -> Nat]
         /\ ObservedDirty \subseteq Claims
         /\ DOMAIN ObservedClearances \subseteq Actions
         /\ ObservedGlobal \in BOOLEAN
         /\ ObservedFailures \in Nat
  <1>1. ObservedGenerations \in [Claims -> Nat]
    BY DEF ObservedGenerations, ClaimsOK
  <1>2. DOMAIN ObservedClearances \subseteq Actions
    BY DEF ObservedClearances, NoClearances, PlanOK
  <1>3. ObservedGlobal \in BOOLEAN
    BY DEF ObservedGlobal, GoalOK
  <1>4. QED
    BY <1>1, <1>2, <1>3 DEF ObservedDirty, ObservedFailures, ClaimsOK, GoalOK

LEMMA BumpTypes ==
  ASSUME NEW gens \in [Claims -> Nat], NEW claims
  PROVE  Bump(gens, claims) \in [Claims -> Nat]
  BY DEF Bump

LEMMA UnaffectedTypes ==
  ASSUME NEW clear, NEW claims, DOMAIN clear \subseteq Actions
  PROVE  DOMAIN Unaffected(clear, claims) \subseteq Actions
  BY DEF Unaffected, Restrict

LEMMA SnapshotTypes ==
  ASSUME WorldOK, NEW paths \in SUBSET Paths
  PROVE  ProjectSnapshot(paths) \in Files(paths)
  BY DEF WorldOK, ProjectSnapshot, Files

\* A review is given files, claims and recorded outcomes of this goal.
LEMMA ScopeTypes ==
  ASSUME TypeOK, NEW s \in ReviewScopes
  PROVE  /\ s.paths \subseteq Paths /\ s.claims \subseteq Claims
         /\ s.work \subseteq DOMAIN units
  <1>1. CASE s = GlobalScope
    BY <1>1, ObservedTypes DEF TypeOK, GlobalScope, Unreviewed
  <1>2. ASSUME NEW u \in Unreviewed, s = UnitScope(u)
        PROVE  /\ s.paths \subseteq Paths /\ s.claims \subseteq Claims
               /\ s.work \subseteq DOMAIN units
    <2>1. u \in DOMAIN units /\ units[u].action \in Actions /\ units[u].claims \subseteq Claims
      BY DEF Unreviewed, TypeOK, UnitsOK, UnitOK
    <2>2. {Cites[c] : c \in Ancestors[units[u].claims] \cap cited} \subseteq Paths
      BY PoolAssumption DEF TypeOK, ClaimsOK
    <2>3. \A b \in Actions : Scope[b] \subseteq Paths
      BY ActionTypes
    <2>4. QED
      BY <1>2, <2>1, <2>2, <2>3 DEF UnitScope
  <1>3. s = GlobalScope \/ \E u \in Unreviewed : s = UnitScope(u)
    BY DEF ReviewScopes, Reviewable
  <1>4. QED
    BY <1>1, <1>2, <1>3

LEMMA ReviewRequestTypes ==
  ASSUME TypeOK, NEW s \in ReviewScopes
  PROVE  /\ RequestOK(ReviewRequest(s))
         /\ ReviewRequest(s).work \subseteq DOMAIN units
         /\ ReviewRequest(s).settles \subseteq DOMAIN reconciliations
  <1>1. /\ s.paths \subseteq Paths /\ s.claims \subseteq Claims
        /\ s.work \subseteq DOMAIN units /\ Ancestors[s.claims] \subseteq Claims
    BY ScopeTypes, ClosureTypes
  <1>2. ProjectSnapshot(s.paths) \in Files(s.paths \cup {})
    BY <1>1, SnapshotTypes DEF TypeOK
  <1>3. [c \in Ancestors[s.claims] \cup s.claims |-> ObservedGenerations[c]]
          \in [Ancestors[s.claims] \cup s.claims -> Nat]
    BY <1>1, ObservedTypes DEF TypeOK
  <1>4. Excluded(s) \subseteq Agents
    BY DEF Excluded, TypeOK, UnitsOK, UnitOK
  <1>5. Clearable(s) \subseteq Actions
    BY DEF Clearable
  <1>6. QED
    BY <1>1, <1>2, <1>3, <1>4, <1>5 DEF ReviewRequest, RequestOK

LEMMA WorkRequestTypes ==
  ASSUME TypeOK, NEW a \in Actions, NEW gens \in [Claims -> Nat]
  PROVE  /\ RequestOK(WorkRequest(a, gens))
         /\ WorkRequest(a, gens).work = {}
         /\ WorkRequest(a, gens).settles = {}
  <1>1. ProjectSnapshot(Scope[a]) \in Files(Reads[a] \cup Writes[a])
    BY ActionTypes, SnapshotTypes DEF TypeOK
  <1>2. [c \in ActionClaims[a] |-> gens[c]] \in [ClaimReads[a] \cup ClaimWrites[a] -> Nat]
    BY ActionTypes
  <1>3. QED
    BY <1>1, <1>2, ActionTypes DEF WorkRequest, RequestOK, Kinds

-----------------------------------------------------------------------------
(* Type correctness.                                                       *)

LEMMA InitType == Init => TypeOK
  <1> SUFFICES ASSUME Init PROVE TypeOK
    OBVIOUS
  <1>1. WorldOK
    BY DEF Init, WorldOK, Files
  <1>2. GoalOK
    <2>1. 0 \in 0 .. MaxDispatches
      BY PoolAssumption
    <2>2. QED
      BY <2>1 DEF Init, GoalOK, Controls
  <1>3. ClaimsOK
    BY DEF Init, ClaimsOK
  <1>4. PlanOK
    BY DEF Init, PlanOK, Statuses, NoClearances
  <1>5. RequestsOK
    BY DEF Init, RequestsOK
  <1>6. UnitsOK
    BY DEF Init, UnitsOK
  <1>7. QED
    BY <1>1, <1>2, <1>3, <1>4, <1>5, <1>6 DEF TypeOK

\* Dispatching adds one well-formed request under a new token.
LEMMA DispatchTypes ==
  ASSUME TypeOK, NEW r, Dispatch(r), dispatches < MaxDispatches, RequestOK(r),
         r.work \subseteq DOMAIN units, r.settles \subseteq DOMAIN reconciliations,
         UNCHANGED <<delegations, starts, units, reconciliations>>
  PROVE  /\ RequestsOK' /\ UnitsOK'
         /\ dispatches' \in 0 .. MaxDispatches
  <1>1. dispatches \in Nat /\ dispatches' = dispatches + 1 /\ dispatches' \in 0 .. MaxDispatches
    BY PoolAssumption DEF Dispatch, TypeOK, GoalOK
  <1>2. /\ DOMAIN pending' = DOMAIN pending \cup {dispatches + 1}
        /\ pending'[dispatches + 1] = r
        /\ \A t \in DOMAIN pending : t # dispatches + 1 => pending'[t] = pending[t]
    BY <1>1 DEF Dispatch, Put
  <1>3. DOMAIN pending \subseteq 1 .. dispatches /\ DOMAIN units \subseteq (1 .. dispatches) \ DOMAIN pending
    BY DEF TypeOK, RequestsOK, UnitsOK
  <1>4. DOMAIN pending' \subseteq 1 .. dispatches'
    BY <1>1, <1>2, <1>3
  <1>5. DOMAIN units' \subseteq (1 .. dispatches') \ DOMAIN pending'
    BY <1>1, <1>2, <1>3
  <1>6. \A t \in DOMAIN pending' : RequestOK(pending'[t])
    BY <1>2, <1>3 DEF TypeOK, RequestsOK
  <1>7. \A t \in DOMAIN pending' : /\ pending'[t].work \subseteq DOMAIN units'
                                   /\ pending'[t].settles \subseteq DOMAIN reconciliations'
    BY <1>2, <1>3 DEF TypeOK, RequestsOK
  <1>8. RequestsOK'
    BY <1>2, <1>4, <1>6, <1>7 DEF TypeOK, RequestsOK, RequestOK
  <1>9. UnitsOK'
    BY <1>5 DEF TypeOK, UnitsOK, UnitOK
  <1>10. QED
    BY <1>1, <1>8, <1>9

\* Observing drift keeps every type it touches.
LEMMA ObserveTypes ==
  ASSUME TypeOK, Observe, UNCHANGED <<world, supported, cited>>
  PROVE  /\ WorldOK' /\ ClaimsOK'
         /\ DOMAIN clearances' \subseteq Actions
         /\ globalReview' \in BOOLEAN /\ complete' \in BOOLEAN
  <1>1. WorldOK'
    BY DEF Observe, Resample, TypeOK, WorldOK, world, Files
  <1>2. ClaimsOK'
    BY ObservedTypes DEF Observe, TypeOK, ClaimsOK
  <1>3. QED
    BY <1>1, <1>2, ObservedTypes DEF Observe, TypeOK, GoalOK

\* Retiring a request leaves the others well formed.
LEMMA RetireTypes ==
  ASSUME TypeOK, NEW t \in DOMAIN delegations, Retire(t),
         dispatches' = dispatches,
         DOMAIN units \subseteq DOMAIN units',
         DOMAIN reconciliations' = DOMAIN reconciliations
  PROVE  /\ RequestsOK'
         /\ DOMAIN pending' = DOMAIN pending \ {t}
  <1>1. /\ DOMAIN pending' = DOMAIN pending \ {t}
        /\ \A x \in DOMAIN pending \ {t} : pending'[x] = pending[x]
        /\ DOMAIN delegations' = DOMAIN delegations \ {t}
        /\ \A x \in DOMAIN delegations \ {t} : delegations'[x] = delegations[x]
        /\ starts' = starts \ {t}
    BY WithoutIsFunction DEF Retire
  <1>2. delegations' \in [DOMAIN delegations' -> Agents]
    BY <1>1 DEF Retire, Without, Restrict, TypeOK, RequestsOK
  <1>3. \A x \in DOMAIN pending' : RequestOK(pending'[x])
    BY <1>1 DEF TypeOK, RequestsOK
  <1>4. QED
    BY <1>1, <1>2, <1>3 DEF TypeOK, RequestsOK, RequestOK

\* A step that leaves the journal alone, or rewrites one part of it.
LEMMA UnchangedRequests ==
  ASSUME TypeOK, UNCHANGED <<dispatches, pending, starts, delegations, units>>,
         DOMAIN reconciliations' = DOMAIN reconciliations
  PROVE  RequestsOK' /\ UnitsOK'
  <1>1. RequestsOK'
    BY DEF TypeOK, RequestsOK, RequestOK
  <1>2. UnitsOK'
    BY DEF TypeOK, UnitsOK, UnitOK
  <1>3. QED
    BY <1>1, <1>2

LEMMA NextReviewType == TypeOK /\ NextReview => TypeOK'
  <1> SUFFICES ASSUME TypeOK, NextReview PROVE TypeOK'
    OBVIOUS
  <1>1. PICK s \in ReviewScopes : Dispatch(ReviewRequest(s))
    BY DEF NextReview
  <1>2. RequestsOK' /\ UnitsOK' /\ dispatches' \in 0 .. MaxDispatches
    BY <1>1, ReviewRequestTypes, DispatchTypes DEF NextReview, reviewState
  <1>3. /\ WorldOK' /\ ClaimsOK' /\ DOMAIN clearances' \subseteq Actions
        /\ globalReview' \in BOOLEAN /\ complete' \in BOOLEAN
    BY ObserveTypes DEF NextReview
  <1>4. GoalOK'
    BY <1>2, <1>3, ObservedTypes DEF NextReview, goal, TypeOK, GoalOK
  <1>5. PlanOK'
    BY <1>3 DEF NextReview, plan, reviewState, TypeOK, PlanOK
  <1>6. QED
    BY <1>2, <1>3, <1>4, <1>5 DEF TypeOK

LEMMA NextWorkType == TypeOK /\ NextWork => TypeOK'
  <1> SUFFICES ASSUME TypeOK, NextWork PROVE TypeOK'
    OBVIOUS
  <1>1. PICK a \in Eligible :
          /\ generations' = Bump(ObservedGenerations, ClaimWrites[a])
          /\ dirty' = ObservedDirty \cup ClaimWrites[a]
          /\ clearances' = Unaffected(ObservedClearances, ClaimWrites[a])
          /\ status' = [status EXCEPT ![a] = "running"]
          /\ Dispatch(WorkRequest(a, generations'))
    BY DEF NextWork
  <1>2. a \in Actions
    BY DEF Eligible
  <1>3. /\ generations' \in [Claims -> Nat] /\ dirty' \subseteq Claims
        /\ DOMAIN clearances' \subseteq Actions
    BY <1>1, <1>2, ObservedTypes, ActionTypes, BumpTypes, UnaffectedTypes DEF TypeOK
  <1>4. RequestsOK' /\ UnitsOK' /\ dispatches' \in 0 .. MaxDispatches
    BY <1>1, <1>2, <1>3, WorkRequestTypes, DispatchTypes DEF NextWork, reviewState
  <1>5. WorldOK'
    BY DEF NextWork, Resample, TypeOK, WorldOK, world, Files
  <1>6. GoalOK'
    BY <1>4, ObservedTypes DEF NextWork, goal, TypeOK, GoalOK
  <1>7. ClaimsOK'
    BY <1>3 DEF NextWork, TypeOK, ClaimsOK
  <1>8. PlanOK'
    BY <1>1, <1>2, <1>3 DEF NextWork, reviewState, TypeOK, PlanOK, Statuses
  <1>9. QED
    BY <1>4, <1>5, <1>6, <1>7, <1>8 DEF TypeOK

LEMMA NextWaitingType == TypeOK /\ NextWaiting => TypeOK'
  <1> SUFFICES ASSUME TypeOK, NextWaiting PROVE TypeOK'
    OBVIOUS
  <1>1. RequestsOK' /\ UnitsOK'
    BY UnchangedRequests DEF NextWaiting, reviewState
  <1>2. /\ WorldOK' /\ ClaimsOK' /\ DOMAIN clearances' \subseteq Actions
        /\ globalReview' \in BOOLEAN /\ complete' \in BOOLEAN
    BY ObserveTypes DEF NextWaiting
  <1>3. GoalOK'
    BY <1>2, ObservedTypes DEF NextWaiting, goal, TypeOK, GoalOK
  <1>4. PlanOK'
    BY <1>2 DEF NextWaiting, plan, reviewState, TypeOK, PlanOK
  <1>5. QED
    BY <1>1, <1>2, <1>3, <1>4 DEF TypeOK

LEMMA BindAgentType ==
  ASSUME TypeOK, NEW t \in Pending, NEW a \in Agents, BindAgent(t, a)
  PROVE  TypeOK'
  <1>1. delegations' \in [DOMAIN delegations' -> Agents]
    BY DEF BindAgent, Put, TypeOK, RequestsOK
  <1>2. DOMAIN delegations' = DOMAIN delegations \cup {t}
    BY PutIsFunction DEF BindAgent
  <1>3. RequestsOK'
    BY <1>1, <1>2 DEF BindAgent, Pending, reviewState, TypeOK, RequestsOK, RequestOK
  <1>4. UnitsOK'
    BY DEF BindAgent, TypeOK, UnitsOK, UnitOK
  <1>5. WorldOK' /\ GoalOK' /\ ClaimsOK' /\ PlanOK'
    BY DEF BindAgent, world, goal, claimState, plan, reviewState, barrier, seen,
           TypeOK, WorldOK, GoalOK, ClaimsOK, PlanOK, Files
  <1>6. QED
    BY <1>3, <1>4, <1>5 DEF TypeOK

LEMMA StartAgentType ==
  ASSUME TypeOK, NEW t \in DOMAIN delegations, StartAgent(t)
  PROVE  TypeOK'
  <1>1. RequestsOK'
    BY DEF StartAgent, reviewState, TypeOK, RequestsOK, RequestOK
  <1>2. UnitsOK'
    BY DEF StartAgent, TypeOK, UnitsOK, UnitOK
  <1>3. WorldOK' /\ GoalOK' /\ ClaimsOK' /\ PlanOK'
    BY DEF StartAgent, world, goal, claimState, plan, reviewState, barrier, seen,
           TypeOK, WorldOK, GoalOK, ClaimsOK, PlanOK, Files
  <1>4. QED
    BY <1>1, <1>2, <1>3 DEF TypeOK

\* A stale or failed review records nothing but the observation.
LEMMA VoidReviewType ==
  ASSUME TypeOK, NEW t \in DOMAIN delegations, StaleReview(t) \/ FailedReview(t)
  PROVE  TypeOK'
  <1>1. /\ Retire(t) /\ Observe /\ failures' \in Nat
        /\ UNCHANGED <<world, goal, plan, reviewState, supported, cited, dispatches, units>>
    BY ObservedTypes DEF StaleReview, FailedReview, TypeOK
  <1>2. RequestsOK' /\ DOMAIN pending' = DOMAIN pending \ {t}
    BY <1>1, RetireTypes DEF reviewState
  <1>3. UnitsOK'
    BY <1>1, <1>2 DEF TypeOK, UnitsOK, UnitOK
  <1>4. /\ WorldOK' /\ ClaimsOK' /\ DOMAIN clearances' \subseteq Actions
        /\ globalReview' \in BOOLEAN /\ complete' \in BOOLEAN
    BY <1>1, ObserveTypes
  <1>5. GoalOK'
    BY <1>1, <1>4 DEF goal, TypeOK, GoalOK
  <1>6. PlanOK'
    BY <1>1, <1>4 DEF plan, reviewState, TypeOK, PlanOK
  <1>7. QED
    BY <1>2, <1>3, <1>4, <1>5, <1>6 DEF TypeOK

LEMMA FinishReviewType ==
  ASSUME TypeOK, NEW t \in DOMAIN delegations, NEW v \in Verdicts(t), FinishReview(t, v)
  PROVE  TypeOK'
  <1>1. /\ pending[t].claimWrites \subseteq Claims /\ pending[t].clearable \subseteq Actions
        /\ delegations[t] \in Agents
    BY DEF TypeOK, RequestsOK, RequestOK
  <1>2. /\ v.supports \subseteq Claims /\ v.clears \subseteq Actions
        /\ v.holds \subseteq Actions /\ v.raises \subseteq Findings /\ v.met \in BOOLEAN
    BY <1>1, PoolAssumption DEF Verdicts
  <1>2a. v.cites \subseteq Claims /\ v.supports \subseteq v.cites
    BY <1>1 DEF Verdicts, FinishReview, Acceptable
  <1>3. DOMAIN reconciliations' = DOMAIN reconciliations /\ DOMAIN units' = DOMAIN units
    BY DEF FinishReview
  <1>4. RequestsOK' /\ DOMAIN pending' = DOMAIN pending \ {t}
    BY <1>3, RetireTypes DEF FinishReview
  <1>5. UnitsOK'
    <2>1. \A u \in DOMAIN units' : UnitOK(units'[u])
      BY <1>1 DEF FinishReview, TypeOK, UnitsOK, UnitOK
    <2>2. QED
      BY <1>3, <1>4, <2>1 DEF FinishReview, TypeOK, UnitsOK
  <1>6. WorldOK'
    BY DEF FinishReview, Resample, TypeOK, WorldOK, world, Files
  <1>7. GoalOK'
    <2>1. complete' \in BOOLEAN /\ globalReview' \in BOOLEAN
      BY <1>2 DEF FinishReview
    <2>2. QED
      BY <2>1 DEF FinishReview, goal, TypeOK, GoalOK
  <1>8. ClaimsOK'
    BY <1>1, <1>2, <1>2a, ObservedTypes
      DEF FinishReview, SupportedAfter, CitedAfter, DirtyAfter, TypeOK, ClaimsOK
  <1>9. PlanOK'
    <2>1. DOMAIN clearances' \subseteq Actions /\ DOMAIN attempts' = Attempts
      BY <1>2, ObservedTypes DEF FinishReview, TypeOK
    <2>2. reviewedActions' \subseteq Actions
      <3>1. \A u \in pending[t].work : units[u].action \in Actions
        BY DEF TypeOK, RequestsOK, UnitsOK, UnitOK
      <3>2. pending[t].settles \subseteq Actions
        BY DEF TypeOK, RequestsOK, PlanOK
      <3>3. QED
        BY <3>1, <3>2 DEF FinishReview, TypeOK, PlanOK
    <2>3. holds' \subseteq Actions /\ findings' \subseteq Findings
      BY <1>2 DEF FinishReview, HoldsAfter, FindingsAfter, TypeOK, PlanOK
    <2>4. QED
      BY <1>3, <2>1, <2>2, <2>3 DEF FinishReview, TypeOK, PlanOK
  <1>10. QED
    BY <1>4, <1>5, <1>6, <1>7, <1>8, <1>9 DEF TypeOK

LEMMA FinishWorkType ==
  ASSUME TypeOK, NEW t \in DOMAIN delegations, NEW result \in Results,
         NEW added \in SUBSET Surprises, FinishWork(t, result, added)
  PROVE  TypeOK'
  <1> DEFINE a == pending[t].action
             outcome == Accepted(t, result)
             changed == Closure[Affected[a] \cup added]
  <1>1. a \in Actions
    BY DEF FinishWork, Workers, Pending, TypeOK, RequestsOK, RequestOK
  <1>2. outcome \in Results
    BY DEF Accepted, Results
  <1>3. changed \subseteq Claims
    BY <1>1, ActionTypes, ClosureTypes, PoolAssumption
  <1>4. units' = Put(units, t, [action |-> a, status |-> outcome, claims |-> changed,
                                agent |-> delegations[t], reviewer |-> NoAgent])
    BY DEF FinishWork
  <1>5. DOMAIN units' = DOMAIN units \cup {t}
    BY <1>4, PutIsFunction
  <1>6. RequestsOK' /\ DOMAIN pending' = DOMAIN pending \ {t}
    BY <1>5, RetireTypes DEF FinishWork, reviewState
  <1>7. UnitsOK'
    <2>1. t \in DOMAIN pending /\ t \in 1 .. dispatches /\ delegations[t] \in Agents
      BY DEF TypeOK, RequestsOK
    <2>2. \A u \in DOMAIN units' : UnitOK(units'[u])
      BY <1>1, <1>2, <1>3, <1>4, <1>5, <2>1 DEF Put, TypeOK, UnitsOK, UnitOK
    <2>3. QED
      BY <1>5, <1>6, <2>1, <2>2 DEF FinishWork, TypeOK, UnitsOK
  <1>8. WorldOK'
    BY DEF FinishWork, Resample, TypeOK, WorldOK, world, Files
  <1>9. GoalOK'
    <2>1. globalReview' \in BOOLEAN
      BY DEF FinishWork
    <2>2. QED
      BY <2>1 DEF FinishWork, goal, TypeOK, GoalOK
  <1>10. ClaimsOK' /\ DOMAIN clearances' \subseteq Actions
    <2>1. /\ generations' = Bump(ObservedGenerations, changed)
          /\ dirty' = ObservedDirty \cup changed
          /\ clearances' = Unaffected(ObservedClearances, changed)
      BY DEF FinishWork
    <2>2. QED
      BY <1>3, <2>1, ObservedTypes, BumpTypes, UnaffectedTypes DEF FinishWork, TypeOK, ClaimsOK
  <1>11. PlanOK'
    <2>1. status' \in [Actions -> Statuses]
      <3>1. status' = [status EXCEPT ![a] = IF outcome = "not_started" THEN "pending" ELSE outcome]
        BY DEF FinishWork, StatusAfter
      <3>2. QED
        BY <1>2, <3>1 DEF Results, Statuses, TypeOK, PlanOK
    <2>2. DOMAIN attempts' = Attempts
      BY DEF FinishWork, TypeOK, PlanOK
    <2>3. QED
      BY <1>10, <2>1, <2>2 DEF FinishWork, reviewState, TypeOK, PlanOK
  <1>12. QED
    BY <1>6, <1>7, <1>8, <1>9, <1>10, <1>11 DEF TypeOK

LEMMA OwnerType ==
  ASSUME TypeOK,
         \/ \E value \in Commands : Control(value)
         \/ \E a \in Actions, outcome \in {"done", "pending"} : Reconcile(a, outcome)
         \/ Revise
  PROVE  TypeOK'
  <1>1. ASSUME NEW value \in Commands, Control(value) PROVE TypeOK'
    <2>1. RequestsOK' /\ UnitsOK'
      BY <1>1, UnchangedRequests DEF Control, reviewState
    <2>2. WorldOK' /\ ClaimsOK' /\ PlanOK'
      BY <1>1 DEF Control, world, claimState, plan, reviewState, barrier, seen,
             TypeOK, WorldOK, ClaimsOK, PlanOK, Files
    <2>3. GoalOK'
      BY <1>1, PoolAssumption DEF Control, barrier, TypeOK, GoalOK, Controls
    <2>4. QED
      BY <2>1, <2>2, <2>3 DEF TypeOK
  <1>2. ASSUME InvalidateExternal
        PROVE  /\ generations' \in [Claims -> Nat] /\ dirty' \subseteq Claims
               /\ DOMAIN clearances' = {} /\ globalReview' \in BOOLEAN
               /\ failures' \in Nat /\ complete' \in BOOLEAN
    BY <1>2, BumpTypes DEF InvalidateExternal, NoClearances, TypeOK, ClaimsOK
  <1>3. ASSUME NEW a \in Actions, NEW outcome \in {"done", "pending"}, Reconcile(a, outcome)
        PROVE  TypeOK'
    <2>1. Pending = {}
      BY <1>3 DEF Reconcile
    <2>2. DOMAIN reconciliations' = DOMAIN reconciliations \cup {a}
      BY <1>3, PutIsFunction DEF Reconcile
    <2>3. RequestsOK'
      BY <1>3, <2>1, <2>2 DEF Reconcile, Pending, TypeOK, RequestsOK
    <2>4. UnitsOK'
      BY <1>3 DEF Reconcile, TypeOK, UnitsOK, UnitOK
    <2>5. PlanOK'
      BY <1>2, <1>3, <2>2 DEF Reconcile, TypeOK, PlanOK, Statuses
    <2>6. WorldOK' /\ GoalOK' /\ ClaimsOK'
      BY <1>2, <1>3 DEF Reconcile, world, goal, seen, TypeOK, WorldOK, GoalOK, ClaimsOK, Files
    <2>7. QED
      BY <2>3, <2>4, <2>5, <2>6 DEF TypeOK
  <1>4. ASSUME Revise PROVE TypeOK'
    <2>1. RequestsOK' /\ UnitsOK'
      BY <1>4, UnchangedRequests DEF Revise, reviewState
    <2>2. PlanOK'
      BY <1>2, <1>4 DEF Revise, plan, reviewState, TypeOK, PlanOK
    <2>3. WorldOK' /\ GoalOK' /\ ClaimsOK'
      BY <1>2, <1>4 DEF Revise, world, seen, TypeOK, WorldOK, GoalOK, ClaimsOK, Files
    <2>4. QED
      BY <2>1, <2>2, <2>3 DEF TypeOK
  <1>5. QED
    BY <1>1, <1>3, <1>4

LEMMA WorldType ==
  ASSUME TypeOK,
         \/ \E t \in DOMAIN delegations, p \in Paths, content \in Contents :
              WorkerWrite(t, p, content)
         \/ \E p \in Paths, content \in Contents : ExternalEdit(p, content)
         \/ \E k \in Contracts : ContractEdit(k)
  PROVE  TypeOK'
  <1>1. /\ disk' \in Files(Paths) /\ contract' \in Contracts /\ edits' \in Nat
        /\ UNCHANGED <<goal, claimState, plan, reviewState, barrier, seen,
                       dispatches, pending, delegations, starts, units>>
    BY DEF WorkerWrite, ExternalEdit, ContractEdit, TypeOK, WorldOK, Files
  <1>2. RequestsOK' /\ UnitsOK'
    BY <1>1, UnchangedRequests DEF reviewState
  <1>3. WorldOK'
    BY <1>1 DEF seen, TypeOK, WorldOK
  <1>4. GoalOK' /\ ClaimsOK' /\ PlanOK'
    BY <1>1 DEF goal, claimState, plan, reviewState, barrier, TypeOK, GoalOK, ClaimsOK, PlanOK
  <1>5. QED
    BY <1>2, <1>3, <1>4 DEF TypeOK

LEMMA StutterType == TypeOK /\ UNCHANGED vars => TypeOK'
  <1> SUFFICES ASSUME TypeOK, UNCHANGED vars PROVE TypeOK'
    OBVIOUS
  <1>1. RequestsOK' /\ UnitsOK'
    BY UnchangedRequests DEF vars, reviewState
  <1>2. WorldOK' /\ GoalOK' /\ ClaimsOK' /\ PlanOK'
    BY DEF vars, world, goal, claimState, plan, reviewState, barrier, seen,
           TypeOK, WorldOK, GoalOK, ClaimsOK, PlanOK
  <1>3. QED
    BY <1>1, <1>2 DEF TypeOK

LEMMA StepType == TypeOK /\ [Next]_vars => TypeOK'
  <1> SUFFICES ASSUME TypeOK, [Next]_vars PROVE TypeOK'
    OBVIOUS
  <1>1. CASE Finish
    BY <1>1, VoidReviewType, FinishReviewType, FinishWorkType DEF Finish
  <1>2. CASE NextRefused \/ UNCHANGED vars
    BY <1>2, StutterType DEF NextRefused
  <1>3. CASE NextReview \/ NextWork \/ NextWaiting
    BY <1>3, NextReviewType, NextWorkType, NextWaitingType
  <1>4. CASE \/ \E t \in Pending, a \in Agents : BindAgent(t, a)
             \/ \E t \in DOMAIN delegations : StartAgent(t)
    BY <1>4, BindAgentType, StartAgentType
  <1>5. QED
    BY <1>1, <1>2, <1>3, <1>4, OwnerType, WorldType DEF Next

\* The journal never refers to a request, outcome, action or reconciliation
\* that does not exist, and a token is in flight or has one outcome.
THEOREM TypeCorrect == Spec => []TypeOK
  <1>1. QED
    BY InitType, StepType, PTL DEF Spec

-----------------------------------------------------------------------------
(* How the set of requests in flight evolves.                              *)

Admissible(r) ==
  \A u \in Pending : Apart(r, pending[u]) /\ Apart(pending[u], r)

\* What _conflicts does not refuse stays apart from everything in flight.
LEMMA NoConflict ==
  ASSUME TypeOK, NEW r,
         ~Conflicts(r.reads, r.writes, r.claimReads, r.claimWrites, r.kind),
         \A u \in Pending : r.kind # "review" \/ pending[u].kind # "review"
  PROVE  Admissible(r)
  BY DEF Conflicts, Admissible, Apart, Pending

\* A review is admissible: alone, or one whose scope conflicts with nobody.
LEMMA ReviewAdmissible ==
  ASSUME TypeOK, NEW s \in ReviewScopes
  PROVE  Admissible(ReviewRequest(s))
  <1>1. Reviews = {}
    BY DEF ReviewScopes
  <1>2. CASE Pending = {}
    BY <1>2 DEF Admissible
  <1>3. CASE Pending # {}
    <2>1. PICK u \in Reviewable : s = UnitScope(u)
      BY <1>3 DEF ReviewScopes
    <2>2. ~Conflicts(s.paths, {}, Ancestors[s.claims], s.claims, "work")
      BY <2>1 DEF Reviewable
    <2>3. \A v \in Pending : pending[v].kind # "review"
      BY <1>1 DEF Reviews, Workers
    <2>4. \A v \in Pending :
            /\ pending[v].kind # "repair"
            /\ s.paths \cap pending[v].writes = {}
            /\ s.claims \cap (pending[v].claimReads \cup pending[v].claimWrites) = {}
            /\ Ancestors[s.claims] \cap pending[v].claimWrites = {}
      BY <2>2 DEF Conflicts
    <2>5. QED
      BY <2>3, <2>4 DEF Admissible, Apart, ReviewRequest
  <1>4. QED
    BY <1>2, <1>3

LEMMA WorkAdmissible ==
  ASSUME TypeOK, NEW a \in Eligible, NEW gens
  PROVE  Admissible(WorkRequest(a, gens))
  <1> DEFINE r == WorkRequest(a, gens)
  <1>1. a \in Actions /\ ~Conflicts(Reads[a], Writes[a], ClaimReads[a], ClaimWrites[a], Kind[a])
    BY DEF Eligible
  <1>2. /\ r.reads = Reads[a] /\ r.writes = Writes[a] /\ r.kind = Kind[a]
        /\ r.claimReads = ClaimReads[a] /\ r.claimWrites = ClaimWrites[a]
    BY DEF WorkRequest
  <1>3. r.kind # "review"
    BY <1>1, <1>2, ActionTypes DEF Kinds
  <1>4. ~Conflicts(r.reads, r.writes, r.claimReads, r.claimWrites, r.kind)
    BY <1>1, <1>2
  <1> HIDE DEF r
  <1>5. Admissible(r)
    BY <1>3, <1>4, NoConflict
  <1>6. QED
    BY <1>5 DEF r

\* A step leaves the requests alone, retires one, or dispatches one that is
\* well formed, new, within the budget and apart from all the others.
LEMMA PendingStep ==
  ASSUME TypeOK, [Next]_vars
  PROVE  \/ pending' = pending
         \/ \E t \in Pending : pending' = Without(pending, t)
         \/ \E r : /\ pending' = Put(pending, dispatches + 1, r)
                   /\ dispatches < MaxDispatches
                   /\ RequestOK(r) /\ Admissible(r)
  <1>1. CASE NextReview
    <2>1. PICK s \in ReviewScopes : Dispatch(ReviewRequest(s))
      BY <1>1 DEF NextReview
    <2>2. RequestOK(ReviewRequest(s)) /\ Admissible(ReviewRequest(s))
      BY ReviewRequestTypes, ReviewAdmissible
    <2>3. QED
      BY <1>1, <2>1, <2>2 DEF NextReview, Dispatch
  <1>2. CASE NextWork
    <2> DEFINE gens(a) == Bump(ObservedGenerations, ClaimWrites[a])
    <2>1. PICK a \in Eligible : Dispatch(WorkRequest(a, gens(a)))
      BY <1>2 DEF NextWork
    <2>2. a \in Actions /\ gens(a) \in [Claims -> Nat]
      BY ObservedTypes, BumpTypes DEF Eligible, TypeOK
    <2>3. RequestOK(WorkRequest(a, gens(a))) /\ Admissible(WorkRequest(a, gens(a)))
      BY <2>2, WorkRequestTypes, WorkAdmissible
    <2>4. QED
      BY <1>2, <2>1, <2>3 DEF NextWork, Dispatch
  <1>3. CASE Finish
    <2>1. PICK t \in DOMAIN delegations : Retire(t)
      BY <1>3 DEF Finish, StaleReview, FailedReview, FinishReview, FinishWork
    <2>2. t \in Pending
      BY DEF TypeOK, RequestsOK, Pending
    <2>3. QED
      BY <2>1, <2>2 DEF Retire
  <1>4. CASE ~NextReview /\ ~NextWork /\ ~Finish
    BY <1>4 DEF Next, NextWaiting, NextRefused, BindAgent, StartAgent, Control, Reconcile,
                Revise, WorkerWrite, ExternalEdit, ContractEdit, vars
  <1>5. QED
    BY <1>1, <1>2, <1>3, <1>4

-----------------------------------------------------------------------------
(* Mutual exclusion.                                                       *)

LEMMA OverlapStep == TypeOK /\ NoOverlap /\ [Next]_vars => NoOverlap'
  <1> SUFFICES ASSUME TypeOK, NoOverlap, [Next]_vars PROVE NoOverlap'
    OBVIOUS
  <1>1. CASE pending' = pending
    BY <1>1 DEF NoOverlap, Pending, Apart
  <1>2. ASSUME NEW t \in Pending, pending' = Without(pending, t)
        PROVE  NoOverlap'
    <2>1. /\ DOMAIN pending' = DOMAIN pending \ {t}
          /\ \A x \in DOMAIN pending \ {t} : pending'[x] = pending[x]
      BY <1>2, WithoutIsFunction
    <2>2. QED
      BY <2>1 DEF NoOverlap, Pending, Apart
  <1>3. ASSUME NEW r, pending' = Put(pending, dispatches + 1, r), Admissible(r)
        PROVE  NoOverlap'
    <2>1. /\ DOMAIN pending' = DOMAIN pending \cup {dispatches + 1}
          /\ pending'[dispatches + 1] = r
          /\ \A t \in DOMAIN pending : t # dispatches + 1 => pending'[t] = pending[t]
      BY <1>3 DEF Put
    <2>2. QED
      BY <1>3, <2>1 DEF NoOverlap, Admissible, Pending, Apart
  <1>4. QED
    BY <1>1, <1>2, <1>3, PendingStep

\* No two requests in flight ever overlap in files or claims, whatever the
\* order of dispatches, results, pauses, drift and revisions.
THEOREM MutualExclusion == Spec => []NoOverlap
  <1>1. Init => NoOverlap
    BY DEF Init, NoOverlap, Pending
  <1>2. QED
    BY <1>1, OverlapStep, TypeCorrect, PTL DEF Spec

-----------------------------------------------------------------------------
(* The pool implements exclusive leases.                                   *)

\* A request's lease covers resources of the goal, and requests that stay
\* apart have compatible leases.
LEMMA LeaseTypes ==
  ASSUME NEW r, RequestOK(r)
  PROVE  LeaseOf(r) \in Leases!Lease
  <1>1. /\ PathsOf(r.reads) \subseteq AllResources /\ PathsOf(r.writes) \subseteq AllResources
        /\ ClaimsOf(r.claimReads) \subseteq AllResources
        /\ ClaimsOf(r.claimWrites) \subseteq AllResources /\ ReviewSlot \subseteq AllResources
    BY DEF RequestOK, PathsOf, ClaimsOf, AllResources
  <1>2. QED
    BY <1>1 DEF LeaseOf, Leases!Lease

LEMMA ApartIsCompatible ==
  ASSUME NEW r, NEW q, RequestOK(r), RequestOK(q), Apart(r, q), Apart(q, r)
  PROVE  Leases!Compatible(LeaseOf(r), LeaseOf(q))
  <1>1. r.kind # "repair" /\ q.kind # "repair"
    BY DEF Apart
  <1>2. ASSUME NEW x, NEW y, Apart(x, y), x.kind # "repair", y.kind # "repair"
        PROVE  LeaseOf(x).exclusive \cap (LeaseOf(y).shared \cup LeaseOf(y).exclusive) = {}
    BY <1>2 DEF Apart, LeaseOf, PathsOf, ClaimsOf, ReviewSlot
  <1>3. QED
    BY <1>1, <1>2 DEF Leases!Compatible

LEMMA LeaseStep == TypeOK /\ [Next]_vars => [Leases!Next]_[t \in Pending |-> LeaseOf(pending[t])]
  <1> DEFINE held == [t \in Pending |-> LeaseOf(pending[t])]
  <1> SUFFICES ASSUME TypeOK, [Next]_vars PROVE [Leases!Next]_held
    OBVIOUS
  <1>1. CASE pending' = pending
    BY <1>1 DEF Pending, LeaseOf
  <1>2. ASSUME NEW t \in Pending, pending' = Without(pending, t)
        PROVE  Leases!Next
    <2>1. /\ DOMAIN pending' = DOMAIN pending \ {t}
          /\ \A x \in DOMAIN pending \ {t} : pending'[x] = pending[x]
      BY <1>2, WithoutIsFunction
    <2>2. held' = [x \in DOMAIN held \ {t} |-> held[x]]
      BY <2>1 DEF Pending, LeaseOf
    <2>3. t \in 1 .. MaxDispatches
      BY PoolAssumption DEF TypeOK, GoalOK, RequestsOK, Pending
    <2>4. QED
      BY <2>2, <2>3 DEF Leases!Next, Leases!Release, Leases!Restrict
  <1>3. ASSUME NEW r, pending' = Put(pending, dispatches + 1, r), dispatches < MaxDispatches,
               RequestOK(r), Admissible(r)
        PROVE  Leases!Next
    <2> DEFINE n == dispatches + 1
    <2>1. n \in 1 .. MaxDispatches /\ n \notin Pending
      BY <1>3, PoolAssumption DEF TypeOK, GoalOK, RequestsOK, Pending
    <2>2. /\ DOMAIN pending' = Pending \cup {n} /\ pending'[n] = r
          /\ \A t \in Pending : pending'[t] = pending[t]
      BY <1>3, <2>1 DEF Put, Pending
    <2>3. DOMAIN held' = DOMAIN held \cup {n}
      BY <2>2 DEF Pending
    <2>4. held'[n] = LeaseOf(r) /\ \A t \in DOMAIN held : held'[t] = held[t]
      BY <2>2 DEF Pending, LeaseOf
    <2>5. \A t \in Pending : Leases!Compatible(LeaseOf(r), LeaseOf(pending[t]))
      BY <1>3, ApartIsCompatible DEF Admissible, TypeOK, RequestsOK, Pending
    <2>6. QED
      BY <1>3, <2>1, <2>3, <2>4, <2>5, LeaseTypes DEF Leases!Next, Leases!Grant
  <1>4. QED
    BY <1>1, <1>2, <1>3, PendingStep

\* The pool implements ScopeLeases: exclusive leases on files, claims and the
\* review slot, granted by a dispatch and released by the recorded result.
THEOREM PoolKeepsLeases == Spec => LeasesKept
  <1>1. Init => Leases!Init
    BY DEF Init, Leases!Init, Pending
  <1>2. QED
    BY <1>1, LeaseStep, TypeCorrect, PTL DEF Spec, LeasesKept, Leases!Spec

-----------------------------------------------------------------------------
(* One worker per running action, and what follows for done ones.          *)

\* Outside dispatch, results and reconciliation nothing changes the actions or
\* the requests in flight.
LEMMA QuietStep ==
  ASSUME [Next]_vars, ~NextReview, ~NextWork, ~Finish,
         ~(\E a \in Actions, outcome \in {"done", "pending"} : Reconcile(a, outcome))
  PROVE  UNCHANGED <<status, reviewedActions, pending>>
  BY DEF Next, NextWaiting, NextRefused, BindAgent, StartAgent, Control, Revise,
         WorkerWrite, ExternalEdit, ContractEdit, vars, plan, reviewState

LEMMA ReviewDispatchStep ==
  ASSUME TypeOK, NextReview
  PROVE  /\ UNCHANGED <<status, reviewedActions>>
         /\ Workers' = Workers
         /\ \A t \in Workers : pending'[t] = pending[t]
  <1>1. PICK s \in ReviewScopes : Dispatch(ReviewRequest(s))
    BY DEF NextReview
  <1>2. dispatches + 1 \notin Pending
    BY DEF TypeOK, GoalOK, RequestsOK, Pending
  <1>3. /\ DOMAIN pending' = DOMAIN pending \cup {dispatches + 1}
        /\ pending'[dispatches + 1].kind = "review"
        /\ \A t \in Pending : pending'[t] = pending[t]
    BY <1>1, <1>2 DEF Dispatch, Put, ReviewRequest, Pending
  <1>4. QED
    BY <1>3 DEF NextReview, plan, reviewState, Workers, Pending

LEMMA WorkDispatchStep ==
  ASSUME TypeOK, NextWork
  PROVE  \E a \in Actions :
           /\ status[a] = "pending" /\ status' = [status EXCEPT ![a] = "running"]
           /\ \A p \in DependsOn[a] : status[p] = "done" /\ p \in reviewedActions
           /\ UNCHANGED reviewedActions
           /\ dispatches + 1 \notin Workers
           /\ Workers' = Workers \cup {dispatches + 1}
           /\ pending'[dispatches + 1].action = a
           /\ \A t \in Workers : pending'[t] = pending[t]
  <1>1. PICK a \in Eligible :
          /\ status' = [status EXCEPT ![a] = "running"]
          /\ Dispatch(WorkRequest(a, Bump(ObservedGenerations, ClaimWrites[a])))
    BY DEF NextWork
  <1>2. /\ a \in Actions /\ status[a] = "pending"
        /\ \A p \in DependsOn[a] : status[p] = "done" /\ p \in reviewedActions
    BY DEF Eligible, Ready, Prerequisites
  <1>3. dispatches + 1 \notin Pending
    BY DEF TypeOK, GoalOK, RequestsOK, Pending
  <1>4. /\ DOMAIN pending' = DOMAIN pending \cup {dispatches + 1}
        /\ pending'[dispatches + 1].kind = Kind[a]
        /\ pending'[dispatches + 1].action = a
        /\ \A t \in Pending : pending'[t] = pending[t]
    BY <1>1, <1>3 DEF Dispatch, Put, WorkRequest, Pending
  <1>5. Kind[a] # "review"
    BY <1>2, ActionTypes DEF Kinds
  <1>6. /\ Workers' = Workers \cup {dispatches + 1} /\ dispatches + 1 \notin Workers
        /\ \A t \in Workers : pending'[t] = pending[t]
    BY <1>3, <1>4, <1>5 DEF Workers, Pending
  <1>7. UNCHANGED reviewedActions
    BY DEF NextWork, reviewState
  <1>8. QED
    BY <1>1, <1>2, <1>4, <1>6, <1>7

\* A recorded result retires its request; a review changes no status, and a
\* worker's result only that of its own action.
LEMMA FinishStep ==
  ASSUME TypeOK, Finish
  PROVE  \E t \in Pending :
           /\ Workers' = Workers \ {t}
           /\ \A u \in Workers \ {t} : pending'[u] = pending[u]
           /\ reviewedActions \subseteq reviewedActions'
           /\ \/ t \notin Workers /\ UNCHANGED status
              \/ /\ t \in Workers
                 /\ \E new \in Statuses \ {"running"} :
                      status' = [status EXCEPT ![pending[t].action] = new]
  <1>1. PICK t \in DOMAIN delegations :
          \/ StaleReview(t) \/ FailedReview(t)
          \/ \E v \in Verdicts(t) : FinishReview(t, v)
          \/ \E result \in Results, added \in SUBSET Surprises : FinishWork(t, result, added)
    BY DEF Finish
  <1>2. t \in Pending
    BY DEF TypeOK, RequestsOK, Pending
  <1>3. Retire(t)
    BY <1>1 DEF StaleReview, FailedReview, FinishReview, FinishWork
  <1>4. DOMAIN pending' = Pending \ {t} /\ \A u \in Pending \ {t} : pending'[u] = pending[u]
    BY <1>3, WithoutIsFunction DEF Retire, Pending
  <1>5. Workers' = Workers \ {t} /\ \A u \in Workers \ {t} : pending'[u] = pending[u]
    BY <1>4 DEF Workers, Pending
  <1>6. reviewedActions \subseteq reviewedActions'
    BY <1>1 DEF StaleReview, FailedReview, FinishReview, FinishWork, reviewState
  <1>7. CASE t \notin Workers
    BY <1>1, <1>2, <1>5, <1>6, <1>7
       DEF StaleReview, FailedReview, FinishReview, FinishWork, plan
  <1>8. CASE t \in Workers
    <2>1. PICK result \in Results, added \in SUBSET Surprises : FinishWork(t, result, added)
      BY <1>1, <1>8 DEF StaleReview, FailedReview, FinishReview, IsReview, Workers
    <2>2. StatusAfter(Accepted(t, result)) \in Statuses \ {"running"}
      BY DEF StatusAfter, Accepted, Results, Statuses
    <2>3. status' = [status EXCEPT ![pending[t].action] = StatusAfter(Accepted(t, result))]
      BY <2>1 DEF FinishWork
    <2>4. QED
      BY <1>2, <1>5, <1>6, <1>8, <2>2, <2>3
  <1>9. QED
    BY <1>7, <1>8

LEMMA AssignedStep == TypeOK /\ RunningIsAssigned /\ [Next]_vars => RunningIsAssigned'
  <1> SUFFICES ASSUME TypeOK, RunningIsAssigned, [Next]_vars PROVE RunningIsAssigned'
    OBVIOUS
  <1>0. \A t \in Workers : pending[t].action \in Actions
    BY DEF Workers, Pending, TypeOK, RequestsOK, RequestOK
  <1>1. CASE NextReview
    BY <1>1, ReviewDispatchStep DEF RunningIsAssigned
  <1>2. CASE NextWork
    <2>1. PICK a \in Actions :
            /\ status[a] = "pending" /\ status' = [status EXCEPT ![a] = "running"]
            /\ dispatches + 1 \notin Workers
            /\ Workers' = Workers \cup {dispatches + 1}
            /\ pending'[dispatches + 1].action = a
            /\ \A t \in Workers : pending'[t] = pending[t]
      BY <1>2, WorkDispatchStep
    <2>2. status'[a] = "running" /\ \A b \in Actions \ {a} : status'[b] = status[b]
      BY <2>1 DEF TypeOK, PlanOK
    <2>3. \A t \in Workers : pending[t].action # a
      BY <2>1 DEF RunningIsAssigned
    <2>4. QED
      BY <1>0, <2>1, <2>2, <2>3 DEF RunningIsAssigned
  <1>3. CASE Finish
    <2>1. PICK t \in Pending :
            /\ Workers' = Workers \ {t}
            /\ \A u \in Workers \ {t} : pending'[u] = pending[u]
            /\ \/ t \notin Workers /\ UNCHANGED status
               \/ /\ t \in Workers
                  /\ \E new \in Statuses \ {"running"} :
                       status' = [status EXCEPT ![pending[t].action] = new]
      BY <1>3, FinishStep
    <2>2. CASE t \notin Workers
      BY <2>1, <2>2 DEF RunningIsAssigned
    <2>3. CASE t \in Workers
      <3>1. /\ status'[pending[t].action] # "running"
            /\ \A b \in Actions \ {pending[t].action} : status'[b] = status[b]
        BY <1>0, <2>1, <2>3 DEF TypeOK, PlanOK
      <3>2. \A u \in Workers \ {t} : pending[u].action # pending[t].action
        BY <2>3 DEF RunningIsAssigned
      <3>3. QED
        BY <1>0, <2>1, <3>1, <3>2 DEF RunningIsAssigned
    <2>4. QED
      BY <2>2, <2>3
  <1>4. ASSUME NEW a \in Actions, NEW outcome \in {"done", "pending"}, Reconcile(a, outcome)
        PROVE  RunningIsAssigned'
    <2>1. /\ Workers = {} /\ Workers' = {}
          /\ status' = [status EXCEPT ![a] = outcome]
      BY <1>4 DEF Reconcile, Workers, Pending
    <2>2. \A b \in Actions : status'[b] # "running"
      BY <2>1 DEF RunningIsAssigned, TypeOK, PlanOK
    <2>3. QED
      BY <2>1, <2>2 DEF RunningIsAssigned
  <1>5. CASE UNCHANGED <<status, reviewedActions, pending>>
    BY <1>5 DEF RunningIsAssigned, Workers, Pending
  <1>6. QED
    BY <1>1, <1>2, <1>3, <1>4, <1>5, QuietStep

\* An action is running exactly while one worker is in flight for it.
THEOREM OneWorkerPerAction == Spec => []RunningIsAssigned
  <1>1. Init => RunningIsAssigned
    BY DEF Init, RunningIsAssigned, Workers, Pending
  <1>2. QED
    BY <1>1, AssignedStep, TypeCorrect, PTL DEF Spec

LEMMA DependencyStep ==
  TypeOK /\ RunningIsAssigned /\ DependenciesReviewed /\ [Next]_vars => DependenciesReviewed'
  <1> SUFFICES ASSUME TypeOK, RunningIsAssigned, DependenciesReviewed, [Next]_vars
               PROVE  DependenciesReviewed'
    OBVIOUS
  <1>0. \A t \in Workers : /\ pending[t].action \in Actions
                           /\ DependsOn[pending[t].action] \subseteq Actions
    BY ConfigAssumption DEF Workers, Pending, TypeOK, RequestsOK, RequestOK
  <1>1. CASE NextReview
    BY <1>1, ReviewDispatchStep DEF DependenciesReviewed
  <1>2. CASE NextWork
    <2>1. PICK a \in Actions :
            /\ status[a] = "pending" /\ status' = [status EXCEPT ![a] = "running"]
            /\ \A p \in DependsOn[a] : status[p] = "done" /\ p \in reviewedActions
            /\ UNCHANGED reviewedActions
            /\ Workers' = Workers \cup {dispatches + 1}
            /\ dispatches + 1 \notin Workers
            /\ pending'[dispatches + 1].action = a
            /\ \A t \in Workers : pending'[t] = pending[t]
      BY <1>2, WorkDispatchStep
    <2>2. \A p \in Actions : status[p] = "done" => status'[p] = "done"
      BY <2>1 DEF TypeOK, PlanOK
    <2>3. DependsOn[a] \subseteq Actions
      BY ConfigAssumption
    <2>4. QED
      BY <1>0, <2>1, <2>2, <2>3 DEF DependenciesReviewed
  <1>3. CASE Finish
    <2>1. PICK t \in Pending :
            /\ Workers' = Workers \ {t}
            /\ \A u \in Workers \ {t} : pending'[u] = pending[u]
            /\ reviewedActions \subseteq reviewedActions'
            /\ \/ t \notin Workers /\ UNCHANGED status
               \/ /\ t \in Workers
                  /\ \E new \in Statuses \ {"running"} :
                       status' = [status EXCEPT ![pending[t].action] = new]
      BY <1>3, FinishStep
    <2>2. \A p \in Actions : status[p] = "done" => status'[p] = "done"
      BY <1>0, <2>1 DEF RunningIsAssigned, TypeOK, PlanOK
    <2>3. QED
      BY <1>0, <2>1, <2>2 DEF DependenciesReviewed
  <1>4. ASSUME NEW a \in Actions, NEW outcome \in {"done", "pending"}, Reconcile(a, outcome)
        PROVE  DependenciesReviewed'
    BY <1>4 DEF Reconcile, Workers, Pending, DependenciesReviewed
  <1>5. CASE UNCHANGED <<status, reviewedActions, pending>>
    BY <1>5 DEF DependenciesReviewed, Workers, Pending
  <1>6. QED
    BY <1>1, <1>2, <1>3, <1>4, <1>5, QuietStep

\* Work in flight rests on dependencies that are done and reviewed, until its
\* own result is recorded.
THEOREM DependenciesHold == Spec => []DependenciesReviewed
  <1>1. Init => DependenciesReviewed
    BY DEF Init, DependenciesReviewed, Workers, Pending
  <1>2. QED
    BY <1>1, DependencyStep, TypeCorrect, OneWorkerPerAction, PTL DEF Spec

LEMMA DoneStep ==
  ASSUME TypeOK, RunningIsAssigned, [Next]_vars, NEW a \in Actions, status[a] = "done"
  PROVE  status'[a] = "done"
  <1>1. CASE NextReview
    BY <1>1, ReviewDispatchStep
  <1>2. CASE NextWork
    BY <1>2, WorkDispatchStep DEF TypeOK, PlanOK
  <1>3. CASE Finish
    BY <1>3, FinishStep DEF RunningIsAssigned, TypeOK, PlanOK
  <1>4. ASSUME NEW b \in Actions, NEW outcome \in {"done", "pending"}, Reconcile(b, outcome)
        PROVE  status'[a] = "done"
    BY <1>4 DEF Reconcile, TypeOK, PlanOK
  <1>5. QED
    BY <1>1, <1>2, <1>3, <1>4, QuietStep

\* A done action stays done: no late, repeated or reordered result, retry or
\* reconciliation undoes it.
THEOREM DoneForGood == Spec => DoneIsFinal
  <1>1. TypeOK /\ RunningIsAssigned /\ [Next]_vars
          => [\A a \in Actions : status[a] = "done" => status'[a] = "done"]_vars
    BY DoneStep
  <1>2. QED
    BY <1>1, TypeCorrect, OneWorkerPerAction, PTL DEF Spec, DoneIsFinal
=============================================================================
